--------------------------- MODULE MigrationsProofs ---------------------------
(***************************************************************************)
(* Theorems about Migrations, for any restored databases that fit their    *)
(* version (FoundAssumption), any departments, sources, frameworks and     *)
(* cases.                                                                  *)
(***************************************************************************)
EXTENDS Migrations, TLAPS

-----------------------------------------------------------------------------
(* The order of revisions                                                  *)

LEMMA Following ==
  ASSUME NEW v \in 0..22
  PROVE  /\ After(v) \in Revisions /\ After(v) > v
         /\ \A r \in Revisions : r > v => After(v) <= r
<1> DEFINE S == {r \in Revisions : r > v}
           n == IF v < 7 THEN 7 ELSE IF v < 10 THEN 10 ELSE IF v < 16 THEN 16 ELSE v + 1
<1>1. n \in S /\ \A y \in S : n <= y
  BY DEF Revisions, Head
<1> HIDE DEF n
<1>2. Min(S) \in S /\ \A y \in S : Min(S) <= y
  BY <1>1 DEF Min
<1> QED
  BY <1>2 DEF After

LEMMA Preceding ==
  ASSUME NEW v \in 16..23
  PROVE  Before(v) = IF v = 16 THEN 10 ELSE v - 1
<1> DEFINE S == {r \in Revisions : r < v}
           n == IF v = 16 THEN 10 ELSE v - 1
<1>1. n \in S /\ \A y \in S : n >= y
  BY DEF Revisions, Head
<1>2. S \subseteq Int /\ n \in Int
  BY DEF Revisions, Head
<1> HIDE DEF n
<1>3. Max(S) \in S /\ \A y \in S : Max(S) >= y
  BY <1>1 DEF Max
<1>4. Max(S) = n
  BY <1>1, <1>2, <1>3
<1> QED
  BY <1>4 DEF Before, n

-----------------------------------------------------------------------------
(* What is kept                                                            *)

Accounts(db) == {<<u.id, u.name, u.active>> : u \in db.users}
CaseIds(db) == {<<c.id, c.prompt>> : c \in db.cases}
CaseDepts(db) == {<<c.id, c.dept>> : c \in db.cases}
Names(db) == {s.name : s \in db.sources}
Urls(db) == {a.url : a \in db.ai}

OnIn(s, db) == [dept |-> Default, name |-> s.name, on |-> TRUE] \in db.subs

\* What an upgrade that found f and has come to w has kept.
KeptSo(f, w) ==
    /\ Accounts(w) = Accounts(f)
    /\ CaseIds(w) = CaseIds(f)
    /\ f.version >= 7 => Names(w) = Names(f)
    /\ f.version >= 10 => Urls(w) = Urls(f)
    /\ f.version >= 17 => CaseDepts(w) = CaseDepts(f) /\ w.subs = f.subs /\ w.tokens = f.tokens
    /\ (f.version \in 7..16 /\ w.version < 17) => w.sources = f.sources
    /\ (f.version \in 7..16 /\ w.version >= 17) => \A s \in f.sources : s.on <=> OnIn(s, w)
    /\ f.version >= 19 => w.cases = f.cases /\ w.links = f.links

Stepped(v, db) == [Up(v, db) EXCEPT !.version = v]

\* A migration that moves none of it across version 17.
LEMMA SameKept ==
  ASSUME NEW f, NEW w, NEW x, KeptSo(f, w), w.version \in 0..Head, x.version \in 0..Head,
         f.version \in 0..Head,
         w.version >= 17 <=> x.version >= 17, x.version < 17 => x.sources = w.sources,
         Accounts(x) = Accounts(w), CaseIds(x) = CaseIds(w), CaseDepts(x) = CaseDepts(w),
         f.version >= 7 => Names(x) = Names(w), f.version >= 10 => Urls(x) = Urls(w),
         x.subs = w.subs, x.tokens = w.tokens,
         f.version >= 19 => x.cases = w.cases /\ x.links = w.links
  PROVE  KeptSo(f, x)
<1>1. \A s : OnIn(s, x) <=> OnIn(s, w)
  BY DEF OnIn
<1>2. x.version < 17 <=> w.version < 17
  BY DEF Head
<1> QED
  BY <1>1, <1>2 DEF KeptSo

-----------------------------------------------------------------------------
(* One migration                                                           *)

LEMMA Fields7 ==
  ASSUME NEW w, IsDb(w), NEW x, x = Stepped(7, w)
  PROVE  /\ DOMAIN x = Fields /\ x.version = 7
         /\ x.sources = {[name |-> s, on |-> TRUE, owner |-> Null] : s \in Builtin}
         /\ x.users = w.users /\ x.subs = w.subs /\ x.ai = w.ai /\ x.cases = w.cases
         /\ x.links = w.links /\ x.tokens = w.tokens
         /\ x.depts = w.depts
<1>1. DOMAIN w = Fields /\ x = [Up7(w) EXCEPT !.version = 7]
  BY DEF IsDb, Stepped, Up
<1> QED
  BY <1>1 DEF Up7, Fields

LEMMA Fields10 ==
  ASSUME NEW w, IsDb(w), NEW x, x = Stepped(10, w)
  PROVE  /\ DOMAIN x = Fields /\ x.version = 10
         /\ x.ai = {[dept |-> Null, url |-> "ollama", provider |-> Null]}
         /\ x.users = w.users /\ x.sources = w.sources /\ x.subs = w.subs /\ x.cases = w.cases
         /\ x.links = w.links /\ x.tokens = w.tokens
         /\ x.depts = w.depts
<1>1. DOMAIN w = Fields /\ x = [Up10(w) EXCEPT !.version = 10]
  BY DEF IsDb, Stepped, Up
<1> QED
  BY <1>1 DEF Up10, Fields

LEMMA Fields16 ==
  ASSUME NEW w, IsDb(w), NEW x, x = Stepped(16, w)
  PROVE  /\ DOMAIN x = Fields /\ x.version = 16
         /\ x.users = {[u EXCEPT !.super = TRUE, !.leads = {Default}, !.joins = {}] : u \in w.users}
         /\ x.sources = w.sources /\ x.subs = w.subs /\ x.ai = w.ai /\ x.cases = w.cases
         /\ x.links = w.links /\ x.tokens = w.tokens
         /\ x.depts = {Default}
<1>1. DOMAIN w = Fields /\ x = [Up16(w) EXCEPT !.version = 16]
  BY DEF IsDb, Stepped, Up
<1> QED
  BY <1>1 DEF Up16, Fields

LEMMA Fields17 ==
  ASSUME NEW w, IsDb(w), NEW x, x = Stepped(17, w)
  PROVE  /\ DOMAIN x = Fields /\ x.version = 17
         /\ x.subs = {[dept |-> Default, name |-> s.name, on |-> s.on] : s \in w.sources}
         /\ x.sources = {[s EXCEPT !.on = TRUE] : s \in w.sources}
         /\ x.ai = {[a EXCEPT !.dept = Default] : a \in w.ai}
         /\ x.cases = {[c EXCEPT !.dept = Default] : c \in w.cases}
         /\ x.users = w.users /\ x.links = w.links /\ x.tokens = w.tokens
         /\ x.depts = w.depts
<1>1. DOMAIN w = Fields /\ x = [Up17(w) EXCEPT !.version = 17]
  BY DEF IsDb, Stepped, Up
<1> QED
  BY <1>1 DEF Up17, Fields

LEMMA Fields18 ==
  ASSUME NEW w, IsDb(w), NEW x, x = Stepped(18, w)
  PROVE  /\ DOMAIN x = Fields /\ x.version = 18
         /\ x.tokens = {}
         /\ x.users = w.users /\ x.sources = w.sources /\ x.subs = w.subs /\ x.ai = w.ai
         /\ x.cases = w.cases /\ x.links = w.links
         /\ x.depts = w.depts
<1>1. DOMAIN w = Fields /\ x = [Up18(w) EXCEPT !.version = 18]
  BY DEF IsDb, Stepped, Up
<1> QED
  BY <1>1 DEF Up18, Fields

LEMMA Fields19 ==
  ASSUME NEW w, IsDb(w), NEW x, x = Stepped(19, w)
  PROVE  /\ DOMAIN x = Fields /\ x.version = 19
         /\ x.cases = {[c EXCEPT !.fw = Verdict] : c \in w.cases}
         /\ x.users = w.users /\ x.sources = w.sources /\ x.subs = w.subs /\ x.ai = w.ai
         /\ x.tokens = w.tokens
         /\ x.depts = w.depts
         /\ x.links = UNION {AllEnabled(d) : d \in w.depts}
<1> DEFINE L == UNION {AllEnabled(d) : d \in w.depts}
           C == {[c EXCEPT !.fw = Verdict] : c \in w.cases}
<1>1. DOMAIN w = Fields
  BY DEF IsDb
<1>2. x = [[w EXCEPT !.frameworks = SeedRows, !.links = L, !.cases = C] EXCEPT !.version = 19]
  BY DEF Stepped, Up, Up19
<1> HIDE DEF L, C
<1>3. /\ DOMAIN x = Fields /\ x.version = 19 /\ x.cases = C
      /\ x.users = w.users /\ x.sources = w.sources /\ x.subs = w.subs /\ x.ai = w.ai
      /\ x.tokens = w.tokens /\ x.depts = w.depts /\ x.links = L
  BY <1>1, <1>2 DEF Fields
<1> QED
  BY <1>3 DEF C, L

LEMMA Fields20 ==
  ASSUME NEW w, IsDb(w), NEW x, x = Stepped(20, w)
  PROVE  /\ DOMAIN x = Fields /\ x.version = 20
         /\ x.users = w.users /\ x.sources = w.sources /\ x.subs = w.subs /\ x.ai = w.ai
         /\ x.cases = w.cases /\ x.links = w.links /\ x.tokens = w.tokens
         /\ x.depts = w.depts
<1>1. DOMAIN w = Fields /\ x = [Up20(w) EXCEPT !.version = 20]
  BY DEF IsDb, Stepped, Up
<1> QED
  BY <1>1 DEF Up20, Fields

LEMMA Fields21 ==
  ASSUME NEW w, IsDb(w), NEW x, x = Stepped(21, w)
  PROVE  /\ DOMAIN x = Fields /\ x.version = 21
         /\ x.users = {[u EXCEPT !.lower = TRUE] : u \in w.users}
         /\ x.sources = w.sources /\ x.subs = w.subs /\ x.ai = w.ai /\ x.cases = w.cases
         /\ x.links = w.links /\ x.tokens = w.tokens
         /\ x.depts = w.depts
<1>1. DOMAIN w = Fields /\ x = [Up21(w) EXCEPT !.version = 21]
  BY DEF IsDb, Stepped, Up
<1> QED
  BY <1>1 DEF Up21, Fields

LEMMA Fields22 ==
  ASSUME NEW w, IsDb(w), NEW x, x = Stepped(22, w)
  PROVE  /\ DOMAIN x = Fields /\ x.version = 22
         /\ x.sources = {
              [s EXCEPT !.owner = IF It \in w.depts THEN It ELSE Default] : s \in w.sources}
         /\ x.users = w.users /\ x.subs = w.subs /\ x.ai = w.ai /\ x.cases = w.cases
         /\ x.links = w.links /\ x.tokens = w.tokens
         /\ x.depts = w.depts
<1>1. DOMAIN w = Fields /\ x = [Up22(w) EXCEPT !.version = 22]
  BY DEF IsDb, Stepped, Up
<1> QED
  BY <1>1 DEF Up22, Fields

LEMMA Fields23 ==
  ASSUME NEW w, IsDb(w), NEW x, x = Stepped(23, w)
  PROVE  /\ DOMAIN x = Fields /\ x.version = 23
         /\ x.ai = {[a EXCEPT !.provider = Provider[a.url]] : a \in w.ai}
         /\ x.users = w.users /\ x.sources = w.sources /\ x.subs = w.subs /\ x.cases = w.cases
         /\ x.links = w.links /\ x.tokens = w.tokens
         /\ x.depts = w.depts
<1>1. DOMAIN w = Fields /\ x = [Up23(w) EXCEPT !.version = 23]
  BY DEF IsDb, Stepped, Up
<1> QED
  BY <1>1 DEF Up23, Fields

\* Rows that a migration rewrites.
LEMMA SourcesRewritten ==
  ASSUME NEW f, NEW x, SourcesOK(f.sources), NEW g, x.sources = {g[s] : s \in f.sources},
         \A s \in f.sources : /\ DOMAIN g[s] = DOMAIN s /\ g[s].name = s.name
                              /\ g[s].on \in BOOLEAN
  PROVE  SourcesOK(x.sources) /\ Names(x) = Names(f)
<1>1. ASSUME NEW e \in x.sources, NEW y \in x.sources, e.name = y.name PROVE e = y
  BY <1>1 DEF SourcesOK
<1>2. \A e \in x.sources : DOMAIN e = {"name", "on", "owner"} /\ e.on \in BOOLEAN
  BY DEF SourcesOK
<1>3. Names(x) = Names(f)
  BY DEF Names
<1> QED
  BY <1>1, <1>2, <1>3 DEF SourcesOK

LEMMA Step7 ==
  ASSUME NEW f, NEW w, NEW x, IsDb(f), IsDb(w), KeptSo(f, w), f.version <= w.version,
         w.version < 7, x = Stepped(7, w)
  PROVE  IsDb(x) /\ KeptSo(f, x)
<1> DEFINE n(s) == [name |-> s, on |-> TRUE, owner |-> Null]
<1>1. x.sources = {n(s) : s \in Builtin}
  BY Fields7
<1>2. \A s : DOMAIN n(s) = {"name", "on", "owner"} /\ n(s).on = TRUE /\ n(s).name = s
  OBVIOUS
<1> HIDE DEF n
<1>3. ASSUME NEW e \in x.sources, NEW y \in x.sources
      PROVE  /\ DOMAIN e = {"name", "on", "owner"} /\ e.on \in BOOLEAN
             /\ e.name = y.name => e = y
  <2>1. PICK s \in Builtin : e = n(s)
    BY <1>1
  <2>2. PICK z \in Builtin : y = n(z)
    BY <1>1
  <2>3. e.on = TRUE /\ e.name = s /\ y.name = z /\ DOMAIN e = {"name", "on", "owner"}
    BY <1>2, <2>1, <2>2
  <2> QED
    BY <2>1, <2>2, <2>3
<1>4. SourcesOK(x.sources)
  BY <1>3 DEF SourcesOK
<1>5. w.version \in 0..Head /\ f.version \in 0..Head /\ x.version = 7
  BY Fields7 DEF IsDb
<1>6. IsDb(x)
  BY <1>4, <1>5, Fields7 DEF IsDb, Head
<1>7. Accounts(x) = Accounts(w) /\ CaseIds(x) = CaseIds(w)
  BY Fields7 DEF Accounts, CaseIds
<1>8. KeptSo(f, x)
  BY <1>5, <1>7 DEF KeptSo, Head
<1> QED
  BY <1>6, <1>8

\* A migration from w to x, f found, that moves nothing across version 17.
QuietStep(f, w, x) ==
    /\ DOMAIN x = Fields
    /\ x.version \in 0..Head /\ w.version < x.version
    /\ w.version >= 17 <=> x.version >= 17
    /\ x.version < 17 => x.sources = w.sources
    /\ UsersOK(x.users) /\ SourcesOK(x.sources) /\ AiOK(x.ai) /\ CasesOK(x.cases)
    /\ Accounts(x) = Accounts(w) /\ CaseIds(x) = CaseIds(w) /\ CaseDepts(x) = CaseDepts(w)
    /\ f.version >= 7 => Names(x) = Names(w)
    /\ f.version >= 10 => Urls(x) = Urls(w)
    /\ x.subs = w.subs /\ x.tokens = w.tokens
    /\ f.version >= 19 => x.cases = w.cases /\ x.links = w.links

LEMMA Quiet ==
  ASSUME NEW f, NEW w, NEW x, IsDb(f), IsDb(w), KeptSo(f, w), QuietStep(f, w, x)
  PROVE  IsDb(x) /\ KeptSo(f, x)
<1>1. w.version \in 0..Head /\ f.version \in 0..Head
  BY DEF IsDb
<1>2. x.version < 18 => x.tokens = {}
  BY <1>1 DEF IsDb, QuietStep, Head
<1>3. IsDb(x)
  BY <1>2 DEF IsDb, QuietStep
<1>4. KeptSo(f, x)
  BY <1>1, SameKept DEF QuietStep
<1> QED
  BY <1>3, <1>4

LEMMA Step10 ==
  ASSUME NEW f, NEW w, NEW x, IsDb(f), IsDb(w), KeptSo(f, w), f.version <= w.version,
         w.version < 10, x = Stepped(10, w)
  PROVE  IsDb(x) /\ KeptSo(f, x)
<1>1. AiOK(x.ai)
  BY Fields10 DEF AiOK
<1>2. ~(f.version >= 10)
  BY DEF IsDb, Head
<1>3. UsersOK(x.users) /\ SourcesOK(x.sources) /\ CasesOK(x.cases)
  BY Fields10 DEF IsDb
<1>4. Accounts(x) = Accounts(w) /\ Names(x) = Names(w) /\ CaseIds(x) = CaseIds(w)
      /\ CaseDepts(x) = CaseDepts(w)
  BY Fields10 DEF Accounts, Names, CaseIds, CaseDepts
<1>5. DOMAIN x = Fields /\ x.version = 10
  BY Fields10
<1>6. x.subs = w.subs /\ x.tokens = w.tokens /\ x.sources = w.sources
      /\ x.cases = w.cases /\ x.links = w.links
  BY Fields10
<1>7. w.version \in 0..Head /\ x.version \in 0..Head /\ w.version < x.version
       /\ (w.version >= 17 <=> x.version >= 17)
  BY <1>5 DEF IsDb, Head
<1>8. QuietStep(f, w, x)
  BY <1>1, <1>2, <1>3, <1>4, <1>5, <1>6, <1>7 DEF QuietStep
<1> QED
  BY <1>8, Quiet

LEMMA Step16 ==
  ASSUME NEW f, NEW w, NEW x, IsDb(f), IsDb(w), KeptSo(f, w), f.version <= w.version,
         w.version < 16, x = Stepped(16, w)
  PROVE  IsDb(x) /\ KeptSo(f, x)
<1> DEFINE g == [u \in w.users |-> [u EXCEPT !.super = TRUE, !.leads = {Default}, !.joins = {}]]
<1>1. UsersOK(w.users)
  BY DEF IsDb
<1>2. x.users = {[u EXCEPT !.super = TRUE, !.leads = {Default}, !.joins = {}] : u \in w.users}
  BY Fields16
<1>3. \A u \in w.users : /\ DOMAIN g[u] = DOMAIN u /\ g[u].id = u.id
                         /\ g[u].name = u.name /\ g[u].active = u.active
  BY <1>1 DEF UsersOK
<1>4. x.users = {g[u] : u \in w.users}
  BY <1>2
<1> HIDE DEF g
<1>5. UsersOK(x.users) /\ Accounts(x) = Accounts(w)
  <2>1. UsersOK(x.users)
    BY <1>1, <1>3, <1>4 DEF UsersOK
  <2>2. Accounts(x) = Accounts(w)
    BY <1>1, <1>3, <1>4 DEF Accounts
  <2> QED
    BY <2>1, <2>2
<1>6. SourcesOK(x.sources) /\ AiOK(x.ai) /\ CasesOK(x.cases)
  BY Fields16 DEF IsDb
<1>7. Names(x) = Names(w) /\ Urls(x) = Urls(w)
      /\ CaseIds(x) = CaseIds(w) /\ CaseDepts(x) = CaseDepts(w)
  BY Fields16 DEF Names, Urls, CaseIds, CaseDepts
<1>8. DOMAIN x = Fields /\ x.version = 16
  BY Fields16
<1>9. x.subs = w.subs /\ x.tokens = w.tokens /\ x.sources = w.sources
      /\ x.cases = w.cases /\ x.links = w.links
  BY Fields16
<1>10. w.version \in 0..Head /\ x.version \in 0..Head /\ w.version < x.version
       /\ (w.version >= 17 <=> x.version >= 17)
  BY <1>8 DEF IsDb, Head
<1>11. QuietStep(f, w, x)
  BY <1>5, <1>6, <1>7, <1>8, <1>9, <1>10 DEF QuietStep
<1> QED
  BY <1>11, Quiet

LEMMA Ai17 ==
  ASSUME NEW w, NEW x, IsDb(w), x = Stepped(17, w)
  PROVE  AiOK(x.ai) /\ Urls(x) = Urls(w)
<1> DEFINE g == [a \in w.ai |-> [a EXCEPT !.dept = Default]]
<1>1. AiOK(w.ai)
  BY DEF IsDb
<1>2. x.ai = {[a EXCEPT !.dept = Default] : a \in w.ai}
  BY Fields17
<1>3. \A a \in w.ai : DOMAIN g[a] = DOMAIN a /\ g[a].url = a.url
  BY <1>1 DEF AiOK
<1>4. x.ai = {g[a] : a \in w.ai}
  BY <1>2
<1> HIDE DEF g
<1>5. AiOK(x.ai)
  BY <1>1, <1>3, <1>4 DEF AiOK
<1>6. Urls(x) = Urls(w)
  BY <1>3, <1>4 DEF Urls
<1> QED
  BY <1>5, <1>6

LEMMA Step17 ==
  ASSUME NEW f, NEW w, NEW x, IsDb(f), IsDb(w), KeptSo(f, w), f.version <= w.version,
         w.version < 17, x = Stepped(17, w)
  PROVE  IsDb(x) /\ KeptSo(f, x)
<1> DEFINE c(e) == [e EXCEPT !.dept = Default]
           g == [s \in w.sources |-> [s EXCEPT !.on = TRUE]]
           r(s) == [dept |-> Default, name |-> s.name, on |-> s.on]
<1>1. CasesOK(w.cases) /\ AiOK(w.ai) /\ SourcesOK(w.sources) /\ UsersOK(w.users)
  BY DEF IsDb
<1>2. \A e \in w.cases : DOMAIN c(e) = DOMAIN e /\ c(e).id = e.id /\ c(e).prompt = e.prompt
  BY <1>1 DEF CasesOK
<1>3. x.cases = {c(e) : e \in w.cases}
  BY Fields17
<1>4. \A s \in w.sources : DOMAIN g[s] = DOMAIN s /\ g[s].name = s.name /\ g[s].on \in BOOLEAN
  BY <1>1 DEF SourcesOK
<1>5. x.sources = {[s EXCEPT !.on = TRUE] : s \in w.sources}
  BY Fields17
<1>6. x.sources = {g[s] : s \in w.sources}
  BY <1>5
<1>7. x.subs = {r(s) : s \in w.sources}
  BY Fields17
<1>8. \A s : /\ r(s).dept = Default /\ r(s).name = s.name /\ r(s).on = s.on
             /\ s.on = TRUE => r(s) = [dept |-> Default, name |-> s.name, on |-> TRUE]
  OBVIOUS
<1> HIDE DEF c, g, r
<1>9. CasesOK(x.cases)
  BY <1>1, <1>2, <1>3 DEF CasesOK
<1>10. CaseIds(x) = CaseIds(w)
  BY <1>2, <1>3 DEF CaseIds
<1>11. AiOK(x.ai) /\ Urls(x) = Urls(w)
  BY Ai17
<1>12. SourcesOK(x.sources) /\ Names(x) = Names(w)
  BY <1>1, <1>4, <1>6, SourcesRewritten
<1>13. /\ DOMAIN x = Fields /\ x.version = 17 /\ x.tokens = w.tokens /\ x.users = w.users
  BY Fields17
<1>14. Accounts(x) = Accounts(w) /\ UsersOK(x.users)
  BY <1>1, <1>13 DEF Accounts
<1>15. /\ w.version \in 0..Head /\ f.version \in 0..Head /\ x.version \in 0..Head
       /\ ~(f.version >= 17) /\ ~(f.version >= 19) /\ ~(x.version < 17)
  BY <1>13 DEF IsDb, Head
<1>16. x.tokens = {}
  BY <1>13, <1>15 DEF IsDb, Head
<1>17. IsDb(x)
  BY <1>9, <1>11, <1>12, <1>13, <1>14, <1>15, <1>16 DEF IsDb
<1>18. ASSUME NEW s \in w.sources PROVE s.on <=> OnIn(s, x)
  <2> DEFINE q == [dept |-> Default, name |-> s.name, on |-> TRUE]
  <2>1. s.on \in BOOLEAN /\ \A y \in w.sources : y.name = s.name => y = s
    BY <1>1 DEF SourcesOK
  <2>2. q.name = s.name /\ q.on = TRUE
    OBVIOUS
  <2>3. s.on = TRUE => r(s) = q
    BY <1>8
  <2>4. OnIn(s, x) <=> q \in x.subs
    BY DEF OnIn
  <2> HIDE DEF q
  <2>5. s.on = TRUE => q \in x.subs
    BY <1>7, <2>3
  <2>6. ASSUME q \in x.subs PROVE s.on = TRUE
    <3>1. PICK y \in w.sources : q = r(y)
      BY <1>7, <2>6
    <3>2. y.name = s.name /\ y.on = TRUE
      BY <1>8, <2>2, <3>1
    <3> QED
      BY <2>1, <3>2
  <2> QED
    BY <2>1, <2>4, <2>5, <2>6
<1>19. f.version \in 7..16 => \A s \in f.sources : s.on <=> OnIn(s, x)
  <2> SUFFICES ASSUME f.version \in 7..16 PROVE f.sources = w.sources
    BY <1>18
  <2> QED
    BY DEF KeptSo
<1>20. /\ Accounts(x) = Accounts(f) /\ CaseIds(x) = CaseIds(f)
       /\ f.version >= 7 => Names(x) = Names(f)
       /\ f.version >= 10 => Urls(x) = Urls(f)
  BY <1>10, <1>11, <1>12, <1>14 DEF KeptSo
<1>21. KeptSo(f, x)
  BY <1>15, <1>19, <1>20 DEF KeptSo
<1> QED
  BY <1>17, <1>21

LEMMA Step18 ==
  ASSUME NEW f, NEW w, NEW x, IsDb(f), IsDb(w), KeptSo(f, w), f.version <= w.version,
         w.version = 17, x = Stepped(18, w)
  PROVE  IsDb(x) /\ KeptSo(f, x)
<1>1. UsersOK(x.users) /\ SourcesOK(x.sources) /\ AiOK(x.ai) /\ CasesOK(x.cases)
  BY Fields18 DEF IsDb
<1>2. Accounts(x) = Accounts(w) /\ Names(x) = Names(w) /\ Urls(x) = Urls(w)
      /\ CaseIds(x) = CaseIds(w) /\ CaseDepts(x) = CaseDepts(w)
  BY Fields18 DEF Accounts, Names, Urls, CaseIds, CaseDepts
<1>3. DOMAIN x = Fields /\ x.version = 18
  BY Fields18
<1>4. x.subs = w.subs /\ x.cases = w.cases /\ x.links = w.links
  BY Fields18
<1>5. x.tokens = w.tokens
  BY Fields18 DEF IsDb
<1>6. w.version \in 0..Head /\ x.version \in 0..Head /\ w.version < x.version
       /\ (w.version >= 17 <=> x.version >= 17)
  BY <1>3 DEF IsDb, Head
<1>7. QuietStep(f, w, x)
  BY <1>5, <1>1, <1>2, <1>3, <1>4, <1>6 DEF QuietStep
<1> QED
  BY <1>7, Quiet

LEMMA Step19 ==
  ASSUME NEW f, NEW w, NEW x, IsDb(f), IsDb(w), KeptSo(f, w), f.version <= w.version,
         w.version = 18, x = Stepped(19, w)
  PROVE  IsDb(x) /\ KeptSo(f, x)
<1> DEFINE g == [c \in w.cases |-> [c EXCEPT !.fw = Verdict]]
<1>1. CasesOK(w.cases)
  BY DEF IsDb
<1>2. x.cases = {[c EXCEPT !.fw = Verdict] : c \in w.cases}
  BY Fields19
<1>3. \A c \in w.cases : /\ DOMAIN g[c] = DOMAIN c /\ g[c].id = c.id
                         /\ g[c].prompt = c.prompt /\ g[c].dept = c.dept
  BY <1>1 DEF CasesOK
<1>4. x.cases = {g[c] : c \in w.cases}
  BY <1>2
<1> HIDE DEF g
<1>5. CasesOK(x.cases) /\ CaseIds(x) = CaseIds(w)
  <2>1. CasesOK(x.cases)
    BY <1>1, <1>3, <1>4 DEF CasesOK
  <2>2. CaseIds(x) = CaseIds(w)
    BY <1>1, <1>3, <1>4 DEF CaseIds
  <2> QED
    BY <2>1, <2>2
<1>6. CaseDepts(x) = CaseDepts(w)
  BY <1>3, <1>4 DEF CaseDepts
<1>7. ~(f.version >= 19)
  BY DEF IsDb, Head
<1>8. UsersOK(x.users) /\ SourcesOK(x.sources) /\ AiOK(x.ai)
  BY Fields19 DEF IsDb
<1>9. Accounts(x) = Accounts(w) /\ Names(x) = Names(w) /\ Urls(x) = Urls(w)
  BY Fields19 DEF Accounts, Names, Urls
<1>10. DOMAIN x = Fields /\ x.version = 19
  BY Fields19
<1>11. x.subs = w.subs /\ x.tokens = w.tokens /\ x.sources = w.sources
  BY Fields19
<1>12. w.version \in 0..Head /\ x.version \in 0..Head /\ w.version < x.version
       /\ (w.version >= 17 <=> x.version >= 17)
  BY <1>10 DEF IsDb, Head
<1>13. QuietStep(f, w, x)
  BY <1>5, <1>6, <1>7, <1>8, <1>9, <1>10, <1>11, <1>12 DEF QuietStep
<1> QED
  BY <1>13, Quiet

LEMMA Step20 ==
  ASSUME NEW f, NEW w, NEW x, IsDb(f), IsDb(w), KeptSo(f, w), f.version <= w.version,
         w.version = 19, x = Stepped(20, w)
  PROVE  IsDb(x) /\ KeptSo(f, x)
<1>1. UsersOK(x.users) /\ SourcesOK(x.sources) /\ AiOK(x.ai) /\ CasesOK(x.cases)
  BY Fields20 DEF IsDb
<1>2. Accounts(x) = Accounts(w) /\ Names(x) = Names(w) /\ Urls(x) = Urls(w)
      /\ CaseIds(x) = CaseIds(w) /\ CaseDepts(x) = CaseDepts(w)
  BY Fields20 DEF Accounts, Names, Urls, CaseIds, CaseDepts
<1>3. DOMAIN x = Fields /\ x.version = 20
  BY Fields20
<1>4. x.subs = w.subs /\ x.tokens = w.tokens /\ x.cases = w.cases /\ x.links = w.links
  BY Fields20
<1>5. w.version \in 0..Head /\ x.version \in 0..Head /\ w.version < x.version
       /\ (w.version >= 17 <=> x.version >= 17)
  BY <1>3 DEF IsDb, Head
<1>6. QuietStep(f, w, x)
  BY <1>1, <1>2, <1>3, <1>4, <1>5 DEF QuietStep
<1> QED
  BY <1>6, Quiet

LEMMA Step21 ==
  ASSUME NEW f, NEW w, NEW x, IsDb(f), IsDb(w), KeptSo(f, w), f.version <= w.version,
         w.version = 20, x = Stepped(21, w)
  PROVE  IsDb(x) /\ KeptSo(f, x)
<1> DEFINE g == [u \in w.users |-> [u EXCEPT !.lower = TRUE]]
<1>1. UsersOK(w.users)
  BY DEF IsDb
<1>2. x.users = {[u EXCEPT !.lower = TRUE] : u \in w.users}
  BY Fields21
<1>3. \A u \in w.users : /\ DOMAIN g[u] = DOMAIN u /\ g[u].id = u.id
                         /\ g[u].name = u.name /\ g[u].active = u.active
  BY <1>1 DEF UsersOK
<1>4. x.users = {g[u] : u \in w.users}
  BY <1>2
<1> HIDE DEF g
<1>5. UsersOK(x.users) /\ Accounts(x) = Accounts(w)
  <2>1. UsersOK(x.users)
    BY <1>1, <1>3, <1>4 DEF UsersOK
  <2>2. Accounts(x) = Accounts(w)
    BY <1>1, <1>3, <1>4 DEF Accounts
  <2> QED
    BY <2>1, <2>2
<1>6. SourcesOK(x.sources) /\ AiOK(x.ai) /\ CasesOK(x.cases)
  BY Fields21 DEF IsDb
<1>7. Names(x) = Names(w) /\ Urls(x) = Urls(w)
      /\ CaseIds(x) = CaseIds(w) /\ CaseDepts(x) = CaseDepts(w)
  BY Fields21 DEF Names, Urls, CaseIds, CaseDepts
<1>8. DOMAIN x = Fields /\ x.version = 21
  BY Fields21
<1>9. x.subs = w.subs /\ x.tokens = w.tokens /\ x.sources = w.sources
      /\ x.cases = w.cases /\ x.links = w.links
  BY Fields21
<1>10. w.version \in 0..Head /\ x.version \in 0..Head /\ w.version < x.version
       /\ (w.version >= 17 <=> x.version >= 17)
  BY <1>8 DEF IsDb, Head
<1>11. QuietStep(f, w, x)
  BY <1>5, <1>6, <1>7, <1>8, <1>9, <1>10 DEF QuietStep
<1> QED
  BY <1>11, Quiet

LEMMA Step22 ==
  ASSUME NEW f, NEW w, NEW x, IsDb(f), IsDb(w), KeptSo(f, w), f.version <= w.version,
         w.version = 21, x = Stepped(22, w)
  PROVE  IsDb(x) /\ KeptSo(f, x)
<1> DEFINE o == IF It \in w.depts THEN It ELSE Default
           g == [s \in w.sources |-> [s EXCEPT !.owner = o]]
<1>1. x.sources = {[s EXCEPT !.owner = o] : s \in w.sources}
  BY Fields22
<1> HIDE DEF o
<1>2. SourcesOK(w.sources)
  BY DEF IsDb
<1>3. \A s \in w.sources : DOMAIN s = {"name", "on", "owner"} /\ s.on \in BOOLEAN
  BY <1>2 DEF SourcesOK
<1>4. \A s \in w.sources : DOMAIN g[s] = DOMAIN s /\ g[s].name = s.name /\ g[s].on \in BOOLEAN
  BY <1>3
<1>5. x.sources = {g[s] : s \in w.sources}
  BY <1>1
<1> HIDE DEF g
<1>6. SourcesOK(x.sources) /\ Names(x) = Names(w)
  BY <1>2, <1>4, <1>5, SourcesRewritten
<1>7. UsersOK(x.users) /\ AiOK(x.ai) /\ CasesOK(x.cases)
  BY Fields22 DEF IsDb
<1>8. Accounts(x) = Accounts(w) /\ Urls(x) = Urls(w)
      /\ CaseIds(x) = CaseIds(w) /\ CaseDepts(x) = CaseDepts(w)
  BY Fields22 DEF Accounts, Urls, CaseIds, CaseDepts
<1>9. DOMAIN x = Fields /\ x.version = 22
  BY Fields22
<1>10. x.subs = w.subs /\ x.tokens = w.tokens /\ x.cases = w.cases /\ x.links = w.links
  BY Fields22
<1>11. w.version \in 0..Head /\ x.version \in 0..Head /\ w.version < x.version
       /\ (w.version >= 17 <=> x.version >= 17)
  BY <1>9 DEF IsDb, Head
<1>12. QuietStep(f, w, x)
  BY <1>6, <1>7, <1>8, <1>9, <1>10, <1>11 DEF QuietStep
<1> QED
  BY <1>12, Quiet

LEMMA Step23 ==
  ASSUME NEW f, NEW w, NEW x, IsDb(f), IsDb(w), KeptSo(f, w), f.version <= w.version,
         w.version = 22, x = Stepped(23, w)
  PROVE  IsDb(x) /\ KeptSo(f, x)
<1> DEFINE g == [a \in w.ai |-> [a EXCEPT !.provider = Provider[a.url]]]
<1>1. AiOK(w.ai)
  BY DEF IsDb
<1>2. x.ai = {[a EXCEPT !.provider = Provider[a.url]] : a \in w.ai}
  BY Fields23
<1>3. \A a \in w.ai : DOMAIN g[a] = DOMAIN a /\ g[a].url = a.url
  BY <1>1 DEF AiOK
<1>4. x.ai = {g[a] : a \in w.ai}
  BY <1>2
<1> HIDE DEF g
<1>5. AiOK(x.ai) /\ Urls(x) = Urls(w)
  <2>1. AiOK(x.ai)
    BY <1>1, <1>3, <1>4 DEF AiOK
  <2>2. Urls(x) = Urls(w)
    BY <1>1, <1>3, <1>4 DEF Urls
  <2> QED
    BY <2>1, <2>2
<1>6. UsersOK(x.users) /\ SourcesOK(x.sources) /\ CasesOK(x.cases)
  BY Fields23 DEF IsDb
<1>7. Accounts(x) = Accounts(w) /\ Names(x) = Names(w)
      /\ CaseIds(x) = CaseIds(w) /\ CaseDepts(x) = CaseDepts(w)
  BY Fields23 DEF Accounts, Names, CaseIds, CaseDepts
<1>8. DOMAIN x = Fields /\ x.version = 23
  BY Fields23
<1>9. x.subs = w.subs /\ x.tokens = w.tokens /\ x.sources = w.sources
      /\ x.cases = w.cases /\ x.links = w.links
  BY Fields23
<1>10. w.version \in 0..Head /\ x.version \in 0..Head /\ w.version < x.version
       /\ (w.version >= 17 <=> x.version >= 17)
  BY <1>8 DEF IsDb, Head
<1>11. QuietStep(f, w, x)
  BY <1>5, <1>6, <1>7, <1>8, <1>9, <1>10 DEF QuietStep
<1> QED
  BY <1>11, Quiet

LEMMA StepKeeps ==
  ASSUME NEW f, NEW w, NEW v, v = After(w.version), IsDb(f), IsDb(w), KeptSo(f, w),
         f.version <= w.version, w.version < Head
  PROVE  IsDb(Stepped(v, w)) /\ KeptSo(f, Stepped(v, w))
<1>1. w.version \in 0..22
  BY DEF IsDb, Head
<1>2. v \in Revisions /\ v > w.version /\ \A r \in Revisions : r > w.version => v <= r
  BY <1>1, Following
<1>3. v \in {7, 10} \union 16..23
  BY <1>1, <1>2 DEF Revisions, Head
<1>4. v > 17 => w.version = v - 1
  BY <1>1, <1>2, <1>3 DEF Revisions, Head
<1>5. v = 7 => IsDb(Stepped(7, w)) /\ KeptSo(f, Stepped(7, w))
  <2>1. SUFFICES ASSUME v = 7 PROVE IsDb(Stepped(7, w)) /\ KeptSo(f, Stepped(7, w))
    OBVIOUS
  <2>2. w.version < 7
    BY <1>2, <2>1
  <2> QED
    BY <2>2, Step7
<1>6. v = 10 => IsDb(Stepped(10, w)) /\ KeptSo(f, Stepped(10, w))
  <2>1. SUFFICES ASSUME v = 10 PROVE IsDb(Stepped(10, w)) /\ KeptSo(f, Stepped(10, w))
    OBVIOUS
  <2>2. w.version < 10
    BY <1>2, <2>1
  <2> QED
    BY <2>2, Step10
<1>7. v = 16 => IsDb(Stepped(16, w)) /\ KeptSo(f, Stepped(16, w))
  <2>1. SUFFICES ASSUME v = 16 PROVE IsDb(Stepped(16, w)) /\ KeptSo(f, Stepped(16, w))
    OBVIOUS
  <2>2. w.version < 16
    BY <1>2, <2>1
  <2> QED
    BY <2>2, Step16
<1>8. v = 17 => IsDb(Stepped(17, w)) /\ KeptSo(f, Stepped(17, w))
  <2>1. SUFFICES ASSUME v = 17 PROVE IsDb(Stepped(17, w)) /\ KeptSo(f, Stepped(17, w))
    OBVIOUS
  <2>2. w.version < 17
    BY <1>2, <2>1
  <2> QED
    BY <2>2, Step17
<1>9. v = 18 => IsDb(Stepped(18, w)) /\ KeptSo(f, Stepped(18, w))
  <2>1. SUFFICES ASSUME v = 18 PROVE IsDb(Stepped(18, w)) /\ KeptSo(f, Stepped(18, w))
    OBVIOUS
  <2>2. w.version = 17
    BY <1>4, <2>1
  <2> QED
    BY <2>2, Step18
<1>10. v = 19 => IsDb(Stepped(19, w)) /\ KeptSo(f, Stepped(19, w))
  <2>1. SUFFICES ASSUME v = 19 PROVE IsDb(Stepped(19, w)) /\ KeptSo(f, Stepped(19, w))
    OBVIOUS
  <2>2. w.version = 18
    BY <1>4, <2>1
  <2> QED
    BY <2>2, Step19
<1>11. v = 20 => IsDb(Stepped(20, w)) /\ KeptSo(f, Stepped(20, w))
  <2>1. SUFFICES ASSUME v = 20 PROVE IsDb(Stepped(20, w)) /\ KeptSo(f, Stepped(20, w))
    OBVIOUS
  <2>2. w.version = 19
    BY <1>4, <2>1
  <2> QED
    BY <2>2, Step20
<1>12. v = 21 => IsDb(Stepped(21, w)) /\ KeptSo(f, Stepped(21, w))
  <2>1. SUFFICES ASSUME v = 21 PROVE IsDb(Stepped(21, w)) /\ KeptSo(f, Stepped(21, w))
    OBVIOUS
  <2>2. w.version = 20
    BY <1>4, <2>1
  <2> QED
    BY <2>2, Step21
<1>13. v = 22 => IsDb(Stepped(22, w)) /\ KeptSo(f, Stepped(22, w))
  <2>1. SUFFICES ASSUME v = 22 PROVE IsDb(Stepped(22, w)) /\ KeptSo(f, Stepped(22, w))
    OBVIOUS
  <2>2. w.version = 21
    BY <1>4, <2>1
  <2> QED
    BY <2>2, Step22
<1>14. v = 23 => IsDb(Stepped(23, w)) /\ KeptSo(f, Stepped(23, w))
  <2>1. SUFFICES ASSUME v = 23 PROVE IsDb(Stepped(23, w)) /\ KeptSo(f, Stepped(23, w))
    OBVIOUS
  <2>2. w.version = 22
    BY <1>4, <2>1
  <2> QED
    BY <2>2, Step23
<1> QED
  BY <1>3, <1>5, <1>6, <1>7, <1>8, <1>9, <1>10, <1>11, <1>12, <1>13, <1>14

-----------------------------------------------------------------------------
(* The downgrades                                                          *)

LEMMA Down16Is ==
  ASSUME NEW w, IsDb(w), w.version = 16, NEW n \in 0..15, NEW x,
         x = [Down16(w) EXCEPT !.version = n]
  PROVE  IsDb(x)
<1>1. DOMAIN w = Fields /\ w.tokens = {}
  BY DEF IsDb
<1>2. /\ DOMAIN x = Fields /\ x.version = n
      /\ x.users = {[u EXCEPT !.super = FALSE, !.leads = {}, !.joins = {}] : u \in w.users}
      /\ x.sources = w.sources /\ x.ai = w.ai /\ x.cases = w.cases /\ x.tokens = {}
  BY <1>1 DEF Down16, Fields
<1> DEFINE m(u) == [u EXCEPT !.super = FALSE, !.leads = {}, !.joins = {}]
<1>3. \A u \in w.users : DOMAIN m(u) = {"id", "name", "lower", "active", "super", "leads", "joins"}
  BY DEF IsDb, UsersOK
<1>4. x.users = {m(u) : u \in w.users}
  BY <1>2
<1> HIDE DEF m
<1>5. UsersOK(x.users)
  BY <1>3, <1>4 DEF UsersOK
<1>6. n \in 0..Head
  BY DEF Head
<1>7. SourcesOK(x.sources) /\ AiOK(x.ai) /\ CasesOK(x.cases)
  BY <1>2 DEF IsDb
<1> QED
  BY <1>2, <1>5, <1>6, <1>7 DEF IsDb

LEMMA SourcesFlagged ==
  ASSUME NEW S, SourcesOK(S), NEW h \in [S -> BOOLEAN]
  PROVE  SourcesOK({[s EXCEPT !.on = h[s]] : s \in S})
<1> DEFINE n(s) == [s EXCEPT !.on = h[s]]
           T == {n(s) : s \in S}
<1>1. \A s \in S : DOMAIN n(s) = {"name", "on", "owner"} /\ n(s).on = h[s] /\ n(s).name = s.name
  BY DEF SourcesOK
<1>2. \A s \in S : h[s] \in BOOLEAN
  OBVIOUS
<1>3. \A s, y \in S : s.name = y.name => s = y
  BY DEF SourcesOK
<1> HIDE DEF n
<1>4. \A e \in T : DOMAIN e = {"name", "on", "owner"} /\ e.on \in BOOLEAN
  BY <1>1, <1>2
<1>5. \A e, z \in T : e.name = z.name => e = z
  BY <1>1, <1>3
<1>6. SourcesOK(T)
  BY <1>4, <1>5 DEF SourcesOK
<1> QED
  BY <1>6 DEF n

LEMMA Down17Is ==
  ASSUME NEW w, IsDb(w), w.version = 17, NEW n \in 0..16, NEW x,
         x = [Down17(w) EXCEPT !.version = n]
  PROVE  IsDb(x)
<1> DEFINE mine == {a \in w.ai : a.dept = Default}
           kept == IF mine # {} THEN mine
                   ELSE IF w.ai = {} THEN {} ELSE {CHOOSE a \in w.ai : TRUE}
           flag(s) == \A r \in w.subs : r.dept = Default /\ r.name = s.name => r.on
           h == [s \in w.sources |-> flag(s)]
           A == {[a EXCEPT !.dept = Null] : a \in kept}
           C == {[c EXCEPT !.dept = Null] : c \in w.cases}
           S == {[s EXCEPT !.on = flag(s)] : s \in w.sources}
<1>1. DOMAIN w = Fields /\ w.tokens = {} /\ UsersOK(w.users)
  BY DEF IsDb
<1>2. x = [[w EXCEPT !.subs = {}, !.sources = S, !.ai = A, !.cases = C] EXCEPT !.version = n]
  BY DEF Down17
<1>3. SourcesOK(w.sources)
  BY DEF IsDb
<1>4. kept \subseteq w.ai
  OBVIOUS
<1>5. h \in [w.sources -> BOOLEAN]
  BY Zenon
<1>6. S = {[s EXCEPT !.on = h[s]] : s \in w.sources}
  OBVIOUS
<1> HIDE DEF mine, kept, flag, h
<1>7. SourcesOK({[s EXCEPT !.on = h[s]] : s \in w.sources})
  BY <1>3, <1>5, SourcesFlagged
<1>8. SourcesOK(S)
  BY <1>6, <1>7
<1>9. AiOK(w.ai)
  BY DEF IsDb
<1>10. AiOK(A)
  BY <1>4, <1>9 DEF AiOK
<1>11. CasesOK(w.cases)
  BY DEF IsDb
<1>12. CasesOK(C)
  BY <1>11 DEF CasesOK
<1> HIDE DEF A, C, S
<1>13. /\ DOMAIN x = Fields /\ x.version = n /\ x.users = w.users /\ x.sources = S
       /\ x.ai = A /\ x.cases = C /\ x.tokens = {}
  BY <1>1, <1>2 DEF Fields
<1>14. n \in 0..Head
  BY DEF Head
<1> QED
  BY <1>1, <1>8, <1>10, <1>12, <1>13, <1>14 DEF IsDb

LEMMA Down18Is ==
  ASSUME NEW w, IsDb(w), w.version = 18, NEW n \in 0..17, NEW x,
         x = [Down18(w) EXCEPT !.version = n]
  PROVE  IsDb(x)
<1>1. DOMAIN w = Fields
  BY DEF IsDb
<1>2. /\ DOMAIN x = Fields /\ x.version = n /\ x.users = w.users
      /\ x.sources = w.sources /\ x.ai = w.ai /\ x.cases = w.cases /\ x.tokens = {}
  BY <1>1 DEF Down18, Fields
<1> QED
  BY <1>2 DEF IsDb, Head

LEMMA Down19Is ==
  ASSUME NEW w, IsDb(w), w.version = 19, NEW x, x = [Down19(w) EXCEPT !.version = 18]
  PROVE  IsDb(x)
<1> DEFINE C == {[c EXCEPT !.fw = Null] : c \in w.cases}
<1>1. DOMAIN w = Fields /\ CasesOK(w.cases)
  BY DEF IsDb
<1>2. CasesOK(C)
  BY <1>1 DEF CasesOK
<1>3. x = [[w EXCEPT !.frameworks = {}, !.links = {}, !.cases = C] EXCEPT !.version = 18]
  BY DEF Down19
<1> HIDE DEF C
<1>4. /\ DOMAIN x = Fields /\ x.version = 18 /\ x.users = w.users
      /\ x.sources = w.sources /\ x.ai = w.ai /\ x.cases = C
  BY <1>1, <1>3 DEF Fields
<1> QED
  BY <1>2, <1>4 DEF IsDb, Head

LEMMA Down20Is ==
  ASSUME NEW w, IsDb(w), w.version = 20, NEW x, x = [Down20(w) EXCEPT !.version = 19]
  PROVE  IsDb(x)
<1>1. DOMAIN w = Fields
  BY DEF IsDb
<1>2. /\ DOMAIN x = Fields /\ x.version = 19 /\ x.users = w.users
      /\ x.sources = w.sources /\ x.ai = w.ai /\ x.cases = w.cases
  BY <1>1 DEF Down20, Fields
<1> QED
  BY <1>2 DEF IsDb, Head

LEMMA Down21Is ==
  ASSUME NEW w, IsDb(w), w.version = 21, NEW x, x = [w EXCEPT !.version = 20]
  PROVE  IsDb(x)
<1>1. DOMAIN w = Fields
  BY DEF IsDb
<1>2. /\ DOMAIN x = Fields /\ x.version = 20 /\ x.users = w.users
      /\ x.sources = w.sources /\ x.ai = w.ai /\ x.cases = w.cases
  BY <1>1 DEF Fields
<1> QED
  BY <1>2 DEF IsDb, Head

LEMMA Down22Is ==
  ASSUME NEW w, IsDb(w), w.version = 22, NEW x, x = [Down22(w) EXCEPT !.version = 21]
  PROVE  IsDb(x)
<1> DEFINE g == [s \in w.sources |-> [s EXCEPT !.owner = Null]]
<1>1. DOMAIN w = Fields /\ SourcesOK(w.sources)
  BY DEF IsDb
<1>2. /\ DOMAIN x = Fields /\ x.version = 21 /\ x.users = w.users
      /\ x.sources = {[s EXCEPT !.owner = Null] : s \in w.sources}
      /\ x.ai = w.ai /\ x.cases = w.cases
  BY <1>1 DEF Down22, Fields
<1>3. \A s \in w.sources : DOMAIN s = {"name", "on", "owner"} /\ s.on \in BOOLEAN
  BY <1>1 DEF SourcesOK
<1>4. \A s \in w.sources : DOMAIN g[s] = DOMAIN s /\ g[s].name = s.name /\ g[s].on \in BOOLEAN
  BY <1>3
<1>5. x.sources = {g[s] : s \in w.sources}
  BY <1>2
<1> HIDE DEF g
<1>6. SourcesOK(x.sources)
  BY <1>1, <1>4, <1>5, SourcesRewritten
<1> QED
  BY <1>2, <1>6 DEF IsDb, Head

LEMMA Down23Is ==
  ASSUME NEW w, IsDb(w), w.version = 23, NEW x, x = [Down23(w) EXCEPT !.version = 22]
  PROVE  IsDb(x)
<1>1. DOMAIN w = Fields /\ AiOK(w.ai)
  BY DEF IsDb
<1>2. /\ DOMAIN x = Fields /\ x.version = 22 /\ x.users = w.users
      /\ x.ai = {[a EXCEPT !.provider = Null] : a \in w.ai}
      /\ x.sources = w.sources /\ x.cases = w.cases
  BY <1>1 DEF Down23, Fields
<1>3. AiOK(x.ai)
  BY <1>1, <1>2 DEF AiOK
<1> QED
  BY <1>2, <1>3 DEF IsDb, Head

LEMMA DowngradedIsDb ==
  ASSUME NEW w, IsDb(w), w.version >= 16, NEW x,
         x = [Down(w.version, w) EXCEPT !.version = Before(w.version)]
  PROVE  IsDb(x)
<1>1. w.version \in 16..23
  BY DEF IsDb, Head
<1>2. Before(w.version) = IF w.version = 16 THEN 10 ELSE w.version - 1
  BY <1>1, Preceding
<1>3. CASE w.version = 16
  BY <1>2, <1>3, Down16Is DEF Down
<1>4. CASE w.version = 17
  BY <1>2, <1>4, Down17Is DEF Down
<1>5. CASE w.version = 18
  BY <1>2, <1>5, Down18Is DEF Down
<1>6. CASE w.version = 19
  BY <1>2, <1>6, Down19Is DEF Down
<1>7. CASE w.version = 20
  BY <1>2, <1>7, Down20Is DEF Down
<1>8. CASE w.version = 21
  BY <1>2, <1>8, Down21Is DEF Down
<1>9. CASE w.version = 22
  BY <1>2, <1>9, Down22Is DEF Down
<1>10. CASE w.version = 23
  BY <1>2, <1>10, Down23Is DEF Down
<1> QED
  BY <1>1, <1>3, <1>4, <1>5, <1>6, <1>7, <1>8, <1>9, <1>10

-----------------------------------------------------------------------------
(* The invariant                                                           *)

AtWork ==
    stage = "upgrade" =>
        /\ IsDb(work)
        /\ stored.version <= work.version
        /\ KeptSo(stored, work)
        /\ (stored.version < 17 /\ work.version \in 17..18) => ~Refuses19(work)

MigInv ==
    /\ IsDb(stored)
    /\ AtWork
    /\ stage \notin {"down", "upgrade"} => stored.version = Head
    /\ CheckedAhead

\* Cases that 0017 let through are told apart by their prompt.
LEMMA ToldApart ==
  ASSUME NEW w, IsDb(w), ~Refuses17(w)
  PROVE  ~Refuses19(Stepped(17, w))
<1> DEFINE x == Stepped(17, w)
           c(e) == [e EXCEPT !.dept = Default]
<1>1. x.cases = {[e EXCEPT !.dept = Default] : e \in w.cases}
  BY Fields17
<1>2. CasesOK(w.cases)
  BY DEF IsDb
<1>3. \A e \in w.cases : c(e).prompt = e.prompt
  BY <1>2 DEF CasesOK
<1>4. x.cases = {c(e) : e \in w.cases}
  BY <1>1
<1> HIDE DEF x, c
<1>5. SUFFICES ASSUME NEW a \in x.cases, NEW b \in x.cases, a # b, a.prompt = b.prompt
               PROVE  FALSE
  BY DEF Refuses19, x
<1>6. PICK e \in w.cases : a = c(e)
  BY <1>4
<1>7. PICK y \in w.cases : b = c(y)
  BY <1>4
<1>8. e # y /\ e.prompt = y.prompt
  BY <1>3, <1>5, <1>6, <1>7
<1> QED
  BY <1>8 DEF Refuses17

LEMMA StillApart ==
  ASSUME NEW w, IsDb(w), ~Refuses19(w)
  PROVE  ~Refuses19(Stepped(18, w))
<1> DEFINE x == Stepped(18, w)
<1>1. x.cases = w.cases
  BY Fields18
<1> HIDE DEF x
<1>2. ~Refuses19(x)
  BY <1>1 DEF Refuses19
<1> QED
  BY <1>2 DEF x

\* A request answered by the API.
LEMMA Served ==
  ASSUME MigInv, NEW db, Serve(db), IsDb(db), db.version = stored.version
  PROVE  MigInv'
<1>1. /\ stage = "serving" /\ stage' = "serving" /\ stored' = db
      /\ refused' = refused
  BY DEF Serve
<1>2. CheckedAhead'
  BY <1>1 DEF MigInv, CheckedAhead
<1>3. AtWork'
  BY <1>1 DEF AtWork
<1>4. IsDb(stored') /\ stored'.version = Head
  BY <1>1 DEF MigInv
<1> QED
  BY <1>2, <1>3, <1>4 DEF MigInv

LEMMA InvInit ==
  ASSUME MigInit
  PROVE  MigInv
  BY FoundAssumption DEF MigInit, MigInv, AtWork, CheckedAhead, NoneRefused

LEMMA BeginInv ==
  ASSUME MigInv, Begin
  PROVE  MigInv'
<1>1. IsDb(stored) /\ stored.version \in 0..Head
  BY DEF MigInv, IsDb
<1>2. KeptSo(stored, stored)
  BY <1>1 DEF KeptSo, Head
<1>3. AtWork'
  BY <1>1, <1>2 DEF Begin, AtWork, Head
<1>4. IsDb(stored') /\ stage' = "upgrade" /\ CheckedAhead'
  BY <1>1 DEF Begin, CheckedAhead, NoneRefused
<1> QED
  BY <1>3, <1>4 DEF MigInv

LEMMA MigrateInv ==
  ASSUME MigInv, Migrate
  PROVE  MigInv'
<1> DEFINE v == After(work.version)
<1>1. /\ stage = "upgrade" /\ work.version < Head /\ ~Refuses(v, work)
      /\ work' = Stepped(v, work)
      /\ stored' = stored /\ stage' = "upgrade"  /\ refused' = refused
  BY DEF Migrate, Stepped
<1>2. /\ IsDb(work) /\ IsDb(stored)  /\ stored.version <= work.version
      /\ KeptSo(stored, work)
      /\ (stored.version < 17 /\ work.version \in 17..18) => ~Refuses19(work)
  BY <1>1 DEF MigInv, AtWork
<1>3. work.version \in 0..22 /\ stored.version \in 0..Head
  BY <1>1, <1>2 DEF IsDb, Head
<1>4. v \in Revisions /\ v > work.version /\ \A r \in Revisions : r > work.version => v <= r
  BY <1>3, Following
<1>5. IsDb(work') /\ KeptSo(stored, work')
  BY <1>1, <1>2, StepKeeps
<1>6. work'.version = v
  <2>1. DOMAIN work' = Fields
    BY <1>5 DEF IsDb
  <2>2. work' = [Up(v, work) EXCEPT !.version = v]
    BY <1>1 DEF Stepped
  <2> HIDE DEF v
  <2> QED
    BY <2>1, <2>2 DEF Fields
<1> HIDE DEF v
<1>7. ASSUME stored.version < 17, v \in 17..18 PROVE ~Refuses19(work')
  <2>1. CASE v = 17
    <3>1. ~Refuses17(work)
      BY <1>1, <2>1 DEF Refuses
    <3> QED
      BY <1>1, <1>2, <2>1, <3>1, ToldApart
  <2>2. CASE v = 18
    <3>1. work.version = 17
      BY <1>3, <1>4, <2>2 DEF Revisions, Head
    <3>2. ~Refuses19(work)
      BY <1>2, <1>7, <3>1
    <3> QED
      BY <1>1, <1>2, <2>2, <3>2, StillApart
  <2> QED
    BY <1>7, <2>1, <2>2
<1>8. v \in 0..Head /\ stored.version <= v
  BY <1>2, <1>3, <1>4 DEF Revisions, Head
<1>9. AtWork'
  BY <1>1, <1>2, <1>5, <1>6, <1>7, <1>8 DEF AtWork
<1>10. CheckedAhead' /\ stage' = "upgrade" /\ IsDb(stored')
  BY <1>1, <1>2 DEF MigInv, CheckedAhead
<1> QED
  BY <1>9, <1>10 DEF MigInv

LEMMA RaiseInv ==
  ASSUME MigInv, Raise
  PROVE  MigInv'
<1> DEFINE v == After(work.version)
<1>1. /\ stage = "upgrade" /\ work.version < Head /\ Refuses(v, work)
      /\ refused' = [by |-> v, from |-> stored.version]
      /\ stage' = "down" /\ stored' = stored
  BY DEF Raise, Over
<1>2. /\ IsDb(work) /\ IsDb(stored)  /\ stored.version <= work.version
      /\ (stored.version < 17 /\ work.version \in 17..18) => ~Refuses19(work)
  BY <1>1 DEF MigInv, AtWork
<1>3. work.version \in 0..22 /\ stored.version \in 0..Head
  BY <1>1, <1>2 DEF IsDb, Head
<1>4. v \in Revisions /\ v > work.version /\ \A r \in Revisions : r > work.version => v <= r
  BY <1>3, Following
<1> HIDE DEF v
<1>5. ASSUME v = 19 PROVE stored.version >= 17
  <2>1. work.version = 18
    BY <1>3, <1>4, <1>5 DEF Revisions, Head
  <2>2. Refuses19(work)
    BY <1>1, <1>5 DEF Refuses
  <2> QED
    BY <1>2, <1>3, <2>1, <2>2
<1>6. CheckedAhead'
  BY <1>1, <1>5 DEF CheckedAhead
<1>7. AtWork' /\ IsDb(stored')
  BY <1>1, <1>2 DEF AtWork
<1> QED
  BY <1>1, <1>6, <1>7 DEF MigInv

LEMMA CommitInv ==
  ASSUME MigInv, CommitUpgrade
  PROVE  MigInv' /\ Kept
<1>1. /\ stage = "upgrade" /\ work.version = Head /\ stored' = work
      /\ stage' = "seed_user" /\ refused' = refused
  BY DEF CommitUpgrade, Over
<1>2. IsDb(work)  /\ KeptSo(stored, work) /\ IsDb(stored)
  BY <1>1 DEF MigInv, AtWork
<1>3. MigInv'
  BY <1>1, <1>2 DEF MigInv, AtWork, CheckedAhead
<1>4. stored.version \in 0..Head
  BY <1>2 DEF IsDb
<1>5. Accounts(stored') = Accounts(stored) /\ CaseIds(stored') = CaseIds(stored)
  BY <1>1, <1>2 DEF KeptSo
<1>6. /\ stored.version >= 7 => Names(stored') = Names(stored)
      /\ stored.version >= 10 => Urls(stored') = Urls(stored)
  BY <1>1, <1>2 DEF KeptSo
<1>7. stored.version >= 17 => /\ CaseDepts(stored') = CaseDepts(stored)
                              /\ stored'.subs = stored.subs /\ stored'.tokens = stored.tokens
  BY <1>1, <1>2 DEF KeptSo
<1>8. ~(stored.version >= 17) /\ stored.version >= 7 =>
        \A s \in stored.sources : s.on <=> OnIn(s, stored')
  BY <1>1, <1>2, <1>4 DEF KeptSo, Head
<1>9. stored.version >= 19 => stored'.cases = stored.cases /\ stored'.links = stored.links
  BY <1>1, <1>2 DEF KeptSo
<1>10. Kept
  BY <1>5, <1>6, <1>7, <1>8, <1>9 DEF Kept, Accounts, CaseIds, CaseDepts, Names, Urls, OnIn
<1> QED
  BY <1>3, <1>10

LEMMA SeedUserInv ==
  ASSUME MigInv, SeedUser
  PROVE  MigInv'
<1> DEFINE known == {u \in stored.users : u.name = SeedName /\ u.lower}
           admin == [id |-> SeedName, name |-> SeedName, lower |-> TRUE, active |-> TRUE,
                     super |-> TRUE, leads |-> stored.depts \intersect {Default}, joins |-> {}]
           added(u) == (stored.depts \intersect {Default}) \ u.joins
           up(u) == [u EXCEPT !.super = TRUE, !.leads = @ \union added(u)]
           U == IF known = {} THEN stored.users \union {admin}
                ELSE (stored.users \ known) \union {up(u) : u \in known}
<1>1. /\ stage = "seed_user" /\ stage' = "seed_frameworks"
      /\ stored' = [stored EXCEPT !.users = U]
      /\ refused' = refused
  BY DEF SeedUser
<1>2. IsDb(stored) /\ stored.version = Head /\ UsersOK(stored.users)
  BY <1>1 DEF MigInv, IsDb
<1>3. \A u \in stored.users :
         DOMAIN up(u) = {"id", "name", "lower", "active", "super", "leads", "joins"}
  BY <1>2 DEF UsersOK
<1>4. DOMAIN admin = {"id", "name", "lower", "active", "super", "leads", "joins"}
  OBVIOUS
<1>5. known \subseteq stored.users
  OBVIOUS
<1> HIDE DEF known, admin, up
<1>6. UsersOK(U)
  BY <1>2, <1>3, <1>4, <1>5 DEF UsersOK
<1> HIDE DEF U
<1>7. IsDb(stored') /\ stored'.version = Head
  BY <1>1, <1>2, <1>6 DEF IsDb, Fields, Head
<1>8. AtWork' /\ CheckedAhead'
  BY <1>1 DEF AtWork, MigInv, CheckedAhead
<1> QED
  BY <1>7, <1>8 DEF MigInv

LEMMA SeedFrameworksInv ==
  ASSUME MigInv, SeedFrameworks
  PROVE  MigInv'
<1> DEFINE F == {[key |-> f, prompt |-> Prompt[f]] : f \in Frameworks}
<1>1. /\ stage = "seed_frameworks" /\ stage' = "serving"
      /\ stored' = [stored EXCEPT !.frameworks = F]
      /\ refused' = refused
  BY DEF SeedFrameworks
<1>2. IsDb(stored) /\ stored.version = Head
  BY <1>1 DEF MigInv
<1> HIDE DEF F
<1>3. IsDb(stored') /\ stored'.version = Head
  BY <1>1, <1>2 DEF IsDb, Fields
<1>4. AtWork' /\ CheckedAhead'
  BY <1>1 DEF AtWork, MigInv, CheckedAhead
<1> QED
  BY <1>3, <1>4 DEF MigInv

LEMMA AssessInv ==
  ASSUME MigInv, NEW c, NEW d, NEW f, Assess(c, d, f)
  PROVE  MigInv'
<1> DEFINE r == [id |-> c, prompt |-> Prompt[f], dept |-> d, fw |-> f]
           C == stored.cases \union {r}
           db == [stored EXCEPT !.cases = C]
<1>1. Serve(db)
  BY DEF Assess
<1>2. IsDb(stored)
  BY DEF MigInv
<1>3. CasesOK(C)
  BY <1>2 DEF IsDb, CasesOK
<1> HIDE DEF C
<1>4. IsDb(db) /\ db.version = stored.version
  BY <1>2, <1>3 DEF IsDb, Fields
<1> HIDE DEF db
<1> QED
  BY <1>1, <1>4, Served

LEMMA AddDeptInv ==
  ASSUME MigInv, NEW d, AddDept(d)
  PROVE  MigInv'
<1> DEFINE L == AllEnabled(d)
           D == stored.depts \union {d}
           K == stored.links \union L
           db == [stored EXCEPT !.depts = D, !.links = K]
<1>1. Serve(db)
  BY DEF AddDept
<1>2. IsDb(stored)
  BY DEF MigInv
<1> HIDE DEF D, K
<1>3. IsDb(db) /\ db.version = stored.version
  BY <1>2 DEF IsDb, Fields
<1> HIDE DEF db
<1> QED
  BY <1>1, <1>3, Served

LEMMA PutAiInv ==
  ASSUME MigInv, NEW d, NEW url, PutAi(d, url)
  PROVE  MigInv'
<1> DEFINE r == [dept |-> d, url |-> url, provider |-> Provider[url]]
           A == {a \in stored.ai : a.dept # d} \union {r}
           db == [stored EXCEPT !.ai = A]
<1>1. Serve(db)
  BY DEF PutAi
<1>2. IsDb(stored)
  BY DEF MigInv
<1>3. AiOK(A)
  BY <1>2 DEF IsDb, AiOK
<1> HIDE DEF A
<1>4. IsDb(db) /\ db.version = stored.version
  BY <1>2, <1>3 DEF IsDb, Fields
<1> HIDE DEF db
<1> QED
  BY <1>1, <1>4, Served

LEMMA MintTokenInv ==
  ASSUME MigInv, NEW d, MintToken(d)
  PROVE  MigInv'
<1> DEFINE T == stored.tokens \union {d}
           db == [stored EXCEPT !.tokens = T]
<1>1. Serve(db)
  BY DEF MintToken
<1>2. IsDb(stored) /\ stored.version = Head
  BY <1>1 DEF MigInv, Serve
<1> HIDE DEF T
<1>3. IsDb(db) /\ db.version = stored.version
  BY <1>2 DEF IsDb, Fields, Head
<1> HIDE DEF db
<1> QED
  BY <1>1, <1>3, Served

LEMMA WriteViewInv ==
  ASSUME MigInv, WriteView
  PROVE  MigInv'
<1> DEFINE db == [stored EXCEPT !.viewed = TRUE]
<1>1. Serve(db)
  BY DEF WriteView
<1>2. IsDb(stored)
  BY DEF MigInv
<1>3. IsDb(db) /\ db.version = stored.version
  BY <1>2 DEF IsDb, Fields
<1> HIDE DEF db
<1> QED
  BY <1>1, <1>3, Served

LEMMA DowngradeInv ==
  ASSUME MigInv, Downgrade
  PROVE  MigInv'
<1>1. IsDb(stored) /\ stored.version >= 16 /\ stage = "down" /\ stage' = "down"
      /\ stored' = [Down(stored.version, stored) EXCEPT !.version = Before(stored.version)]
      /\ refused' = refused
  BY DEF MigInv, Downgrade
<1>2. IsDb(stored')
  BY <1>1, DowngradedIsDb
<1> QED
  BY <1>1, <1>2 DEF MigInv, AtWork, CheckedAhead

LEMMA InvStep ==
  ASSUME MigInv, [MigNext]_migVars
  PROVE  MigInv' /\ Kept
<1>1. CASE Begin
  <2>1. stage = "down"
    BY <1>1 DEF Begin
  <2> QED
    BY <1>1, <2>1, BeginInv DEF Kept
<1>2. CASE Migrate
  <2>1. stage' = "upgrade"
    BY <1>2 DEF Migrate
  <2> QED
    BY <1>2, <2>1, MigrateInv DEF Kept
<1>3. CASE Raise
  <2>1. stage' = "down"
    BY <1>3 DEF Raise, Over
  <2> QED
    BY <1>3, <2>1, RaiseInv DEF Kept
<1>4. CASE CommitUpgrade
  BY <1>4, CommitInv
<1>5. CASE SeedUser
  <2>1. stage # "upgrade"
    BY <1>5 DEF SeedUser
  <2> QED
    BY <1>5, <2>1, SeedUserInv DEF Kept
<1>6. CASE SeedFrameworks
  <2>1. stage # "upgrade"
    BY <1>6 DEF SeedFrameworks
  <2> QED
    BY <1>6, <2>1, SeedFrameworksInv DEF Kept
<1>7. CASE End
  <2>1. stage' = "down" /\ stored' = stored /\ refused' = refused
    BY <1>7 DEF End, Over
  <2> QED
    BY <2>1 DEF MigInv, AtWork, CheckedAhead, Kept
<1>8. ASSUME NEW c, NEW d, NEW f, Assess(c, d, f) PROVE MigInv' /\ Kept
  <2>1. stage # "upgrade"
    BY <1>8 DEF Assess, Serve
  <2> QED
    BY <1>8, <2>1, AssessInv DEF Kept
<1>9. ASSUME NEW d, AddDept(d) PROVE MigInv' /\ Kept
  <2>1. stage # "upgrade"
    BY <1>9 DEF AddDept, Serve
  <2> QED
    BY <1>9, <2>1, AddDeptInv DEF Kept
<1>10. ASSUME NEW d, NEW url, PutAi(d, url) PROVE MigInv' /\ Kept
  <2>1. stage # "upgrade"
    BY <1>10 DEF PutAi, Serve
  <2> QED
    BY <1>10, <2>1, PutAiInv DEF Kept
<1>11. ASSUME NEW d, MintToken(d) PROVE MigInv' /\ Kept
  <2>1. stage # "upgrade"
    BY <1>11 DEF MintToken, Serve
  <2> QED
    BY <1>11, <2>1, MintTokenInv DEF Kept
<1>12. CASE WriteView
  <2>1. stage # "upgrade"
    BY <1>12 DEF WriteView, Serve
  <2> QED
    BY <1>12, <2>1, WriteViewInv DEF Kept
<1>13. CASE Downgrade
  <2>1. stage = "down"
    BY <1>13 DEF Downgrade
  <2> QED
    BY <1>13, <2>1, DowngradeInv DEF Kept
<1>14. CASE UNCHANGED migVars
  <2>1. MigInv'
    BY <1>14 DEF migVars, MigInv, AtWork, CheckedAhead
  <2>2. stage' = stage
    BY <1>14 DEF migVars
  <2> QED
    BY <2>1, <2>2 DEF Kept
<1> QED
  BY <1>1, <1>2, <1>3, <1>4, <1>5, <1>6, <1>7, <1>8, <1>9, <1>10, <1>11, <1>12, <1>13, <1>14
     DEF MigNext

-----------------------------------------------------------------------------
(* Theorems                                                                *)

\* 0019:391: 0019 refuses no database that the same upgrade took through the
\* pre-check of 0017, whatever cases there were.
THEOREM RefusalsAreEarly == MigSpec => []CheckedAhead
<1>1. MigInit => MigInv
  BY InvInit
<1>2. MigInv /\ [MigNext]_migVars => MigInv'
  BY InvStep
<1>3. MigInv => CheckedAhead
  BY DEF MigInv
<1> QED
  BY <1>1, <1>2, <1>3, PTL DEF MigSpec

\* MT-008 in 0017:8: an upgrade that commits has every user, case, source,
\* subscription and model configuration that it found, from any version.
THEOREM UpgradesKeep == MigSpec => UpgradeKeeps
<1>1. MigInit => MigInv
  BY InvInit
<1>2. MigInv /\ [MigNext]_migVars => MigInv' /\ Kept
  BY InvStep
<1>3. Kept => [Kept]_migVars
  OBVIOUS
<1> QED
  BY <1>1, <1>2, <1>3, PTL DEF MigSpec, UpgradeKeeps

=============================================================================
