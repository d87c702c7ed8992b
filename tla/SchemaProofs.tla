----------------------------- MODULE SchemaProofs -----------------------------
(***************************************************************************)
(* The schema fits its version, through every migration, downgrade, boot   *)
(* and request of Migrations: one lemma for each migration, on the parts   *)
(* of a database one table at a time.                                      *)
(***************************************************************************)
EXTENDS MigrationsProofs, FiniteSetTheorems

-----------------------------------------------------------------------------
(* Schema, one table at a time                                             *)

DeptsFit(D, v) == D \subseteq Depts /\ IF v < 16 THEN D = {} ELSE Default \in D

UsersFit(S, D, v) ==
    /\ \A u \in S : u.leads \subseteq D /\ u.joins \subseteq D
    /\ \A x, y \in S :
         x.name = y.name /\ x.lower = y.lower
         /\ (IF x.lower THEN Null ELSE x.id) = (IF y.lower THEN Null ELSE y.id) => x = y
    /\ v >= 21 => \A u \in S : u.lower

SourcesFit(S, D, v) == \A s \in S : IF v < 22 THEN s.owner = Null ELSE s.owner \in D

SubsFit(S, D, v) == (v < 17 => S = {}) /\ \A r \in S : r.dept \in D

AiFit(S, D, v) ==
    /\ \A a \in S : /\ IF v < 17 THEN a.dept = Null ELSE a.dept \in D
                    /\ v < 23 <=> a.provider = Null
                    /\ a.url \in DOMAIN Provider
    /\ \A x, y \in S : x.dept = y.dept => x = y

CasesFit(S, D, v) ==
    /\ \A c \in S : /\ IF v < 17 THEN c.dept = Null ELSE c.dept \in D
                    /\ IF v < 19 THEN c.fw = Null ELSE c.fw \in Frameworks
    /\ v >= 19 => \A x, y \in S :
                    x.dept = y.dept /\ x.fw = y.fw /\ x.prompt = y.prompt => x = y

LinksFit(L, D, v) ==
    /\ v < 19 => L = {}
    /\ \A r \in L : r.dept \in D
    /\ v >= 19 => \A d \in D :
         IF {r \in L : r.dept = d} = {} THEN CutShort(d)
         ELSE Cardinality({r \in {q \in L : q.dept = d} : r.default}) = 1

Fits(db) ==
    /\ DeptsFit(db.depts, db.version)
    /\ UsersFit(db.users, db.depts, db.version)
    /\ SourcesFit(db.sources, db.depts, db.version)
    /\ SubsFit(db.subs, db.depts, db.version)
    /\ AiFit(db.ai, db.depts, db.version)
    /\ CasesFit(db.cases, db.depts, db.version)
    /\ LinksFit(db.links, db.depts, db.version)
    /\ db.tokens \subseteq db.depts

LEMMA KeyedIs ==
  ASSUME NEW db
  PROVE  Keyed(db) <=>
           /\ \A x, y \in db.users :
                x.name = y.name /\ x.lower = y.lower
                /\ (IF x.lower THEN Null ELSE x.id) = (IF y.lower THEN Null ELSE y.id) => x = y
           /\ db.version >= 19 => \A x, y \in db.cases :
                x.dept = y.dept /\ x.fw = y.fw /\ x.prompt = y.prompt => x = y
           /\ \A x, y \in db.ai : x.dept = y.dept => x = y
<1> DEFINE k(u) == IF u.lower THEN Null ELSE u.id
<1>1. \A x, y : <<x.name, x.lower, k(x)>> = <<y.name, y.lower, k(y)>> <=>
                 x.name = y.name /\ x.lower = y.lower /\ k(x) = k(y)
  OBVIOUS
<1>2. \A x, y : <<x.dept, x.fw, x.prompt>> = <<y.dept, y.fw, y.prompt>> <=>
                 x.dept = y.dept /\ x.fw = y.fw /\ x.prompt = y.prompt
  OBVIOUS
<1> QED
  BY <1>1, <1>2 DEF Keyed, Unique

LEMMA SchemaFits ==
  ASSUME NEW db, db.version \in Revisions
  PROVE  Schema(db) <=> Fits(db)
<1>1. db.version \in {0, 7, 10} \union 16..23
  BY DEF Revisions, Head
<1>2. ASSUME Schema(db) PROVE Fits(db)
  <2>1. /\ Absent(db) /\ Referenced(db) /\ Keyed(db) /\ Kept19(db) /\ Kept21(db)
    BY <1>2 DEF Schema
  <2>2. DeptsFit(db.depts, db.version)
    BY <1>1, <2>1 DEF Absent, Referenced, DeptsFit
  <2>3. UsersFit(db.users, db.depts, db.version)
    BY <2>1, KeyedIs DEF Referenced, Kept21, UsersFit
  <2>4. SourcesFit(db.sources, db.depts, db.version)
    BY <1>1, <2>1 DEF Absent, Referenced, SourcesFit
  <2>5. SubsFit(db.subs, db.depts, db.version)
    BY <2>1 DEF Absent, Referenced, SubsFit
  <2>6. AiFit(db.ai, db.depts, db.version)
    <3>1. \A x, y \in db.ai : x.dept = y.dept => x = y
      BY <2>1, KeyedIs
    <3>2. \A a \in db.ai : IF db.version < 17 THEN a.dept = Null ELSE a.dept \in db.depts
      BY <1>1, <2>1 DEF Absent, Referenced
    <3>3. \A a \in db.ai : (db.version < 23 <=> a.provider = Null) /\ a.url \in DOMAIN Provider
      BY <1>1, <2>1 DEF Absent, Referenced
    <3> QED
      BY <3>1, <3>2, <3>3 DEF AiFit
  <2>7. CasesFit(db.cases, db.depts, db.version)
    <3>1. \A c \in db.cases : IF db.version < 17 THEN c.dept = Null ELSE c.dept \in db.depts
      BY <1>1, <2>1 DEF Absent, Referenced
    <3>2. \A c \in db.cases : IF db.version < 19 THEN c.fw = Null ELSE c.fw \in Frameworks
      BY <1>1, <2>1 DEF Absent, Referenced
    <3>3. db.version >= 19 => \A x, y \in db.cases :
            x.dept = y.dept /\ x.fw = y.fw /\ x.prompt = y.prompt => x = y
      BY <2>1, KeyedIs
    <3> QED
      BY <3>1, <3>2, <3>3 DEF CasesFit
  <2>8. LinksFit(db.links, db.depts, db.version)
    <3>1. db.version < 19 => db.links = {}
      BY <2>1 DEF Absent
    <3>2. \A r \in db.links : r.dept \in db.depts
      BY <2>1 DEF Referenced
    <3> QED
      BY <2>1, <3>1, <3>2 DEF Kept19, LinksOf, LinksFit
  <2>9. db.tokens \subseteq db.depts
    BY <2>1 DEF Referenced
  <2> QED
    BY <2>2, <2>3, <2>4, <2>5, <2>6, <2>7, <2>8, <2>9 DEF Fits
<1>3. ASSUME Fits(db) PROVE Schema(db)
  <2>1. /\ DeptsFit(db.depts, db.version) /\ UsersFit(db.users, db.depts, db.version)
        /\ SourcesFit(db.sources, db.depts, db.version)
        /\ SubsFit(db.subs, db.depts, db.version)
        /\ AiFit(db.ai, db.depts, db.version) /\ CasesFit(db.cases, db.depts, db.version)
        /\ LinksFit(db.links, db.depts, db.version) /\ db.tokens \subseteq db.depts
    BY <1>3 DEF Fits
  <2>2. Keyed(db)
    BY <2>1, KeyedIs DEF UsersFit, AiFit, CasesFit
  <2>3. Kept19(db) /\ Kept21(db)
    BY <2>1 DEF LinksFit, LinksOf, Kept19, UsersFit, Kept21
  <2>4. Absent(db)
    <3>1. db.version < 16 => db.depts = {}
      BY <2>1 DEF DeptsFit
    <3>2. db.version < 17 => /\ db.subs = {} /\ \A c \in db.cases : c.dept = Null
                             /\ \A a \in db.ai : a.dept = Null
      BY <2>1 DEF SubsFit, AiFit, CasesFit
    <3>3. db.version < 19 => db.links = {} /\ \A c \in db.cases : c.fw = Null
      BY <2>1 DEF LinksFit, CasesFit
    <3>4. db.version < 22 => \A s \in db.sources : s.owner = Null
      BY <2>1 DEF SourcesFit
    <3>5. db.version < 23 => \A a \in db.ai : a.provider = Null
      BY <2>1 DEF AiFit
    <3> QED
      BY <3>1, <3>2, <3>3, <3>4, <3>5 DEF Absent
  <2>5. Referenced(db)
    <3>1. db.depts \subseteq Depts /\ (db.version >= 16 => Default \in db.depts)
      BY <1>1, <2>1 DEF DeptsFit
    <3>2. \A u \in db.users : u.leads \subseteq db.depts /\ u.joins \subseteq db.depts
      BY <2>1 DEF UsersFit
    <3>3. db.version >= 17 => /\ \A c \in db.cases : c.dept \in db.depts
                              /\ \A a \in db.ai : a.dept \in db.depts
      BY <1>1, <2>1 DEF AiFit, CasesFit
    <3>4. db.version >= 19 => \A c \in db.cases : c.fw \in Frameworks
      BY <1>1, <2>1 DEF CasesFit
    <3>5. db.version >= 22 => \A s \in db.sources : s.owner \in db.depts
      BY <1>1, <2>1 DEF SourcesFit
    <3>6. /\ db.version >= 23 => \A a \in db.ai : a.provider # Null
          /\ \A a \in db.ai : a.url \in DOMAIN Provider
      BY <1>1, <2>1 DEF AiFit
    <3>7. (\A r \in db.subs : r.dept \in db.depts) /\ (\A r \in db.links : r.dept \in db.depts)
      BY <2>1 DEF SubsFit, LinksFit
    <3> QED
      BY <2>1, <3>1, <3>2, <3>3, <3>4, <3>5, <3>6, <3>7 DEF Referenced
  <2> QED
    BY <2>2, <2>3, <2>4, <2>5 DEF Schema
<1> QED
  BY <1>2, <1>3

-----------------------------------------------------------------------------
(* Each upgrade                                                            *)

LEMMA Fit7 ==
  ASSUME NEW w, NEW x, IsDb(w), w.version = 0, Fits(w), x = Stepped(7, w)
  PROVE  x.version = 7 /\ Fits(x)
<1>1. /\ x.version = 7 /\ x.depts = w.depts
      /\ x.sources = {[name |-> s, on |-> TRUE, owner |-> Null] : s \in Builtin}
      /\ x.users = w.users /\ x.subs = w.subs /\ x.ai = w.ai /\ x.cases = w.cases
      /\ x.links = w.links /\ x.tokens = w.tokens
  BY Fields7
<1>2. SourcesFit(x.sources, x.depts, 7)
  BY <1>1 DEF SourcesFit
<1>3. DeptsFit(x.depts, 7) /\ UsersFit(x.users, x.depts, 7) /\ SubsFit(x.subs, x.depts, 7)
  BY <1>1 DEF Fits, DeptsFit, UsersFit, SubsFit
<1>4. AiFit(x.ai, x.depts, 7) /\ CasesFit(x.cases, x.depts, 7) /\ LinksFit(x.links, x.depts, 7)
  BY <1>1 DEF Fits, AiFit, CasesFit, LinksFit
<1> QED
  BY <1>1, <1>2, <1>3, <1>4 DEF Fits

LEMMA Fit10 ==
  ASSUME NEW w, NEW x, IsDb(w), w.version = 7, Fits(w), x = Stepped(10, w)
  PROVE  x.version = 10 /\ Fits(x)
<1>1. /\ x.version = 10 /\ x.depts = w.depts
      /\ x.ai = {[dept |-> Null, url |-> "ollama", provider |-> Null]}
      /\ x.users = w.users /\ x.subs = w.subs /\ x.sources = w.sources /\ x.cases = w.cases
      /\ x.links = w.links /\ x.tokens = w.tokens
  BY Fields10
<1>2. AiFit(x.ai, x.depts, 10)
  BY <1>1, ProviderAssumption DEF AiFit
<1>3. DeptsFit(x.depts, 10) /\ UsersFit(x.users, x.depts, 10) /\ SubsFit(x.subs, x.depts, 10)
  BY <1>1 DEF Fits, DeptsFit, UsersFit, SubsFit
<1>4. SourcesFit(x.sources, x.depts, 10) /\ CasesFit(x.cases, x.depts, 10)
      /\ LinksFit(x.links, x.depts, 10)
  BY <1>1 DEF Fits, SourcesFit, CasesFit, LinksFit
<1> QED
  BY <1>1, <1>2, <1>3, <1>4 DEF Fits

LEMMA Fit16 ==
  ASSUME NEW w, NEW x, IsDb(w), w.version = 10, Fits(w), x = Stepped(16, w)
  PROVE  x.version = 16 /\ Fits(x)
<1> DEFINE g == [u \in w.users |-> [u EXCEPT !.super = TRUE, !.leads = {Default}, !.joins = {}]]
<1>0. x.users = {[u EXCEPT !.super = TRUE, !.leads = {Default}, !.joins = {}] : u \in w.users}
  BY Fields16
<1>1. /\ x.version = 16 /\ x.depts = {Default}
      /\ x.subs = w.subs /\ x.sources = w.sources /\ x.ai = w.ai /\ x.cases = w.cases
      /\ x.links = w.links /\ x.tokens = w.tokens
  BY Fields16
<1>2. \A u \in w.users : DOMAIN u = {"id", "name", "lower", "active", "super", "leads", "joins"}
  BY DEF IsDb, UsersOK
<1>3. \A u \in w.users : /\ g[u].name = u.name /\ g[u].lower = u.lower
                         /\ g[u].id = u.id /\ g[u].leads \subseteq {Default}
                         /\ g[u].joins \subseteq {Default}
  BY <1>2
<1>4. x.users = {g[u] : u \in w.users}
  BY <1>0
<1> HIDE DEF g
<1>5. UsersFit(w.users, w.depts, 10)
  BY DEF Fits
<1>6. UsersFit(x.users, x.depts, 16)
  <2>1. UsersFit({g[u] : u \in w.users}, {Default}, 16)
    BY <1>3, <1>5 DEF UsersFit
  <2> QED
    BY <1>1, <1>4, <2>1
<1>7. DeptsFit(x.depts, 16)
  BY <1>1, DeptsAssumption DEF DeptsFit
<1>8. SubsFit(x.subs, x.depts, 16) /\ SourcesFit(x.sources, x.depts, 16)
  BY <1>1 DEF Fits, SubsFit, SourcesFit
<1>9. AiFit(x.ai, x.depts, 16) /\ CasesFit(x.cases, x.depts, 16)
  BY <1>1 DEF Fits, AiFit, CasesFit
<1>10. LinksFit(x.links, x.depts, 16)
  BY <1>1 DEF Fits, LinksFit
<1>11. x.tokens \subseteq x.depts
  BY <1>1 DEF IsDb, Head
<1> QED
  BY <1>1, <1>6, <1>7, <1>8, <1>9, <1>10, <1>11 DEF Fits

\* Of the configurations of no department there is one at most.
LEMMA Fit17Ai ==
  ASSUME NEW w, NEW A, AiOK(w.ai), AiFit(w.ai, w.depts, 16), Default \in w.depts,
         A = {[a EXCEPT !.dept = Default] : a \in w.ai}
  PROVE  AiFit(A, w.depts, 17)
<1> DEFINE g == [a \in w.ai |-> [a EXCEPT !.dept = Default]]
<1>1. \A a \in w.ai : DOMAIN a = {"dept", "url", "provider"}
  BY DEF AiOK
<1>2. \A a \in w.ai : g[a].dept = Default /\ g[a].url = a.url /\ g[a].provider = a.provider
  BY <1>1
<1>3. A = {g[a] : a \in w.ai}
  OBVIOUS
<1> HIDE DEF g
<1>4. \A a, b \in w.ai : a = b
  BY DEF AiFit
<1>5. \A x, y \in A : x = y
  BY <1>3, <1>4
<1>6. \A a \in A : a.dept \in w.depts /\ a.provider = Null /\ a.url \in DOMAIN Provider
  BY <1>2, <1>3 DEF AiFit
<1> QED
  BY <1>5, <1>6 DEF AiFit

LEMMA Fit17 ==
  ASSUME NEW w, NEW x, IsDb(w), w.version = 16, Fits(w), x = Stepped(17, w)
  PROVE  x.version = 17 /\ Fits(x)
<1> DEFINE r(s) == [dept |-> Default, name |-> s.name, on |-> s.on]
           g == [s \in w.sources |-> [s EXCEPT !.on = TRUE]]
           h == [c \in w.cases |-> [c EXCEPT !.dept = Default]]
<1>1. /\ x.version = 17 /\ x.depts = w.depts
      /\ x.subs = {[dept |-> Default, name |-> s.name, on |-> s.on] : s \in w.sources}
      /\ x.sources = {[s EXCEPT !.on = TRUE] : s \in w.sources}
      /\ x.ai = {[a EXCEPT !.dept = Default] : a \in w.ai}
      /\ x.cases = {[c EXCEPT !.dept = Default] : c \in w.cases}
      /\ x.users = w.users /\ x.links = w.links /\ x.tokens = w.tokens
  BY Fields17
<1>2. AiOK(w.ai) /\ SourcesOK(w.sources) /\ CasesOK(w.cases)
  BY DEF IsDb
<1>3. Default \in w.depts /\ DeptsFit(x.depts, 17) /\ UsersFit(x.users, x.depts, 17)
      /\ LinksFit(x.links, x.depts, 17)
  BY <1>1 DEF Fits, DeptsFit, UsersFit, LinksFit
<1>4. AiFit(w.ai, w.depts, 16) /\ SourcesFit(w.sources, w.depts, 16)
      /\ CasesFit(w.cases, w.depts, 16)
  BY DEF Fits
<1>5. AiFit(x.ai, x.depts, 17)
  BY <1>1, <1>2, <1>3, <1>4, Fit17Ai
<1>6. SubsFit(x.subs, x.depts, 17)
  <2>1. \A s : r(s).dept = Default
    OBVIOUS
  <2>2. x.subs = {r(s) : s \in w.sources}
    BY <1>1
  <2> HIDE DEF r
  <2> QED
    BY <1>1, <1>3, <2>1, <2>2 DEF SubsFit
<1>7. SourcesFit(x.sources, x.depts, 17)
  <2>1. \A s \in w.sources : g[s].owner = Null
    BY <1>2, <1>4 DEF SourcesOK, SourcesFit
  <2>2. x.sources = {g[s] : s \in w.sources}
    BY <1>1
  <2> HIDE DEF g
  <2> QED
    BY <2>1, <2>2 DEF SourcesFit
<1>8. CasesFit(x.cases, x.depts, 17)
  <2>1. \A c \in w.cases : h[c].dept = Default /\ h[c].fw = Null
    BY <1>2, <1>4 DEF CasesOK, CasesFit
  <2>2. x.cases = {h[c] : c \in w.cases}
    BY <1>1
  <2> HIDE DEF h
  <2> QED
    BY <1>1, <1>3, <2>1, <2>2 DEF CasesFit
<1>9. x.tokens \subseteq x.depts
  BY <1>1 DEF IsDb
<1> QED
  BY <1>1, <1>3, <1>5, <1>6, <1>7, <1>8, <1>9 DEF Fits

LEMMA Fit18 ==
  ASSUME NEW w, NEW x, IsDb(w), w.version = 17, Fits(w), x = Stepped(18, w)
  PROVE  x.version = 18 /\ Fits(x)
<1>1. /\ x.version = 18 /\ x.depts = w.depts /\ x.tokens = {}
      /\ x.users = w.users /\ x.subs = w.subs /\ x.sources = w.sources /\ x.cases = w.cases
      /\ x.links = w.links /\ x.ai = w.ai
  BY Fields18
<1>2. DeptsFit(x.depts, 18) /\ UsersFit(x.users, x.depts, 18) /\ SubsFit(x.subs, x.depts, 18)
  BY <1>1 DEF Fits, DeptsFit, UsersFit, SubsFit
<1>3. SourcesFit(x.sources, x.depts, 18) /\ CasesFit(x.cases, x.depts, 18)
  BY <1>1 DEF Fits, SourcesFit, CasesFit
<1>4. LinksFit(x.links, x.depts, 18) /\ AiFit(x.ai, x.depts, 18)
  BY <1>1 DEF Fits, LinksFit, AiFit
<1> QED
  BY <1>1, <1>2, <1>3, <1>4 DEF Fits

\* Every framework and one default.
LEMMA OneOfAll ==
  ASSUME NEW d
  PROVE  /\ \A r \in AllEnabled(d) : r.dept = d
         /\ AllEnabled(d) # {}
         /\ Cardinality({r \in AllEnabled(d) : r.default}) = 1
<1> DEFINE l(f) == [dept |-> d, fw |-> f, default |-> f = Verdict]
           S == {r \in AllEnabled(d) : r.default}
<1>1. AllEnabled(d) = {l(f) : f \in Frameworks}
  BY DEF AllEnabled
<1>2. \A f : l(f).dept = d /\ (l(f).default <=> f = Verdict)
  OBVIOUS
<1> HIDE DEF l
<1>3. S = {l(Verdict)}
  BY <1>1, <1>2, FrameworksAssumption
<1>4. Cardinality({l(Verdict)}) = 1
  BY FS_Singleton
<1>5. Cardinality(S) = 1
  BY <1>3, <1>4
<1>6. \A r \in AllEnabled(d) : r.dept = d
  BY <1>1, <1>2
<1>7. AllEnabled(d) # {}
  BY <1>1, FrameworksAssumption
<1> QED
  BY <1>5, <1>6, <1>7

\* Rows that are told apart without their framework still are with one.
LEMMA Fit19Cases ==
  ASSUME NEW w, NEW C, CasesOK(w.cases), CasesFit(w.cases, w.depts, 18), ~Refuses19(w),
         C = {[c EXCEPT !.fw = Verdict] : c \in w.cases}
  PROVE  CasesFit(C, w.depts, 19)
<1> DEFINE g == [c \in w.cases |-> [c EXCEPT !.fw = Verdict]]
<1>1. \A c \in w.cases : /\ g[c].fw = Verdict /\ g[c].dept = c.dept
                         /\ g[c].prompt = c.prompt
  BY DEF CasesOK
<1>2. C = {g[c] : c \in w.cases}
  OBVIOUS
<1> HIDE DEF g
<1>3. \A x, y \in w.cases : x.dept = y.dept /\ x.prompt = y.prompt => x = y
  BY DEF Refuses19
<1>4. \A x, y \in C : x.dept = y.dept /\ x.prompt = y.prompt => x = y
  BY <1>1, <1>2, <1>3
<1>5. \A c \in w.cases : c.dept \in w.depts
  BY DEF CasesFit
<1>6. \A c \in C : c.dept \in w.depts /\ c.fw \in Frameworks
  BY <1>1, <1>2, <1>5, FrameworksAssumption
<1> QED
  BY <1>4, <1>6 DEF CasesFit

LEMMA Fit19Links ==
  ASSUME NEW D, NEW L, L = UNION {AllEnabled(d) : d \in D}
  PROVE  LinksFit(L, D, 19)
<1>1. ASSUME NEW r \in L PROVE r.dept \in D
  <2>1. PICK d \in D : r \in AllEnabled(d)
    OBVIOUS
  <2> QED
    BY <2>1, OneOfAll
<1>2. ASSUME NEW d \in D PROVE {r \in L : r.dept = d} = AllEnabled(d)
  BY OneOfAll
<1>3. ASSUME NEW d \in D
      PROVE  IF {r \in L : r.dept = d} = {} THEN CutShort(d)
             ELSE Cardinality({r \in {q \in L : q.dept = d} : r.default}) = 1
  <2>1. {r \in L : r.dept = d} = AllEnabled(d)
    BY <1>2
  <2> QED
    BY <2>1, OneOfAll
<1> QED
  BY <1>1, <1>3 DEF LinksFit

LEMMA Fit19 ==
  ASSUME NEW w, NEW x, IsDb(w), w.version = 18, Fits(w), ~Refuses19(w), x = Stepped(19, w)
  PROVE  x.version = 19 /\ Fits(x)
<1>0. x.links = UNION {AllEnabled(d) : d \in w.depts}
  BY Fields19
<1>1. x.cases = {[c EXCEPT !.fw = Verdict] : c \in w.cases}
  BY Fields19
<1>2. /\ x.version = 19 /\ x.depts = w.depts /\ x.tokens = w.tokens
      /\ x.users = w.users /\ x.subs = w.subs /\ x.sources = w.sources /\ x.ai = w.ai
  BY Fields19
<1>3. CasesOK(w.cases) /\ CasesFit(w.cases, w.depts, 18)
  BY DEF IsDb, Fits
<1>4. CasesFit(x.cases, w.depts, 19)
  BY <1>1, <1>3, Fit19Cases
<1>5. LinksFit(x.links, w.depts, 19)
  BY <1>0, Fit19Links
<1>6. DeptsFit(x.depts, 19) /\ UsersFit(x.users, x.depts, 19) /\ SubsFit(x.subs, x.depts, 19)
  BY <1>2 DEF Fits, DeptsFit, UsersFit, SubsFit
<1>7. SourcesFit(x.sources, x.depts, 19) /\ AiFit(x.ai, x.depts, 19)
  BY <1>2 DEF Fits, SourcesFit, AiFit
<1>8. x.tokens \subseteq x.depts
  BY <1>2 DEF Fits
<1> QED
  BY <1>2, <1>4, <1>5, <1>6, <1>7, <1>8 DEF Fits

\* Versions that differ in nothing these tables have.
LEMMA Fit20 ==
  ASSUME NEW w, NEW x, IsDb(w), w.version = 19, Fits(w), x = Stepped(20, w)
  PROVE  x.version = 20 /\ Fits(x)
<1>1. /\ x.version = 20 /\ x.depts = w.depts /\ x.tokens = w.tokens
      /\ x.users = w.users /\ x.subs = w.subs /\ x.sources = w.sources /\ x.cases = w.cases
      /\ x.links = w.links /\ x.ai = w.ai
  BY Fields20
<1>2. DeptsFit(x.depts, 20) /\ UsersFit(x.users, x.depts, 20) /\ SubsFit(x.subs, x.depts, 20)
  BY <1>1 DEF Fits, DeptsFit, UsersFit, SubsFit
<1>3. SourcesFit(x.sources, x.depts, 20) /\ CasesFit(x.cases, x.depts, 20)
  BY <1>1 DEF Fits, SourcesFit, CasesFit
<1>4. LinksFit(x.links, x.depts, 20) /\ AiFit(x.ai, x.depts, 20)
  BY <1>1 DEF Fits, LinksFit, AiFit
<1>5. x.tokens \subseteq x.depts
  BY <1>1 DEF Fits
<1> QED
  BY <1>1, <1>2, <1>3, <1>4, <1>5 DEF Fits

\* Names that differ still differ when they are all lower case.
LEMMA Fit21Users ==
  ASSUME NEW w, NEW U, UsersOK(w.users), UsersFit(w.users, w.depts, 20), ~Refuses21(w),
         U = {[u EXCEPT !.lower = TRUE] : u \in w.users}
  PROVE  UsersFit(U, w.depts, 21)
<1> DEFINE g == [u \in w.users |-> [u EXCEPT !.lower = TRUE]]
<1>1. \A u \in w.users : /\ g[u].lower = TRUE /\ g[u].name = u.name
                         /\ g[u].leads = u.leads /\ g[u].joins = u.joins
  BY DEF UsersOK
<1>2. U = {g[u] : u \in w.users}
  OBVIOUS
<1> HIDE DEF g
<1>3. \A x, y \in w.users : x.name = y.name => x = y
  BY DEF Refuses21
<1>4. \A x, y \in U : x.name = y.name => x = y
  BY <1>1, <1>2, <1>3
<1>5. \A u \in w.users : u.leads \subseteq w.depts /\ u.joins \subseteq w.depts
  BY DEF UsersFit
<1>6. \A u \in U : u.lower /\ u.leads \subseteq w.depts /\ u.joins \subseteq w.depts
  BY <1>1, <1>2, <1>5
<1> QED
  BY <1>4, <1>6 DEF UsersFit

LEMMA Fit21 ==
  ASSUME NEW w, NEW x, IsDb(w), w.version = 20, Fits(w), ~Refuses21(w), x = Stepped(21, w)
  PROVE  x.version = 21 /\ Fits(x)
<1>0. x.users = {[u EXCEPT !.lower = TRUE] : u \in w.users}
  BY Fields21
<1>1. /\ x.version = 21 /\ x.depts = w.depts /\ x.tokens = w.tokens
      /\ x.subs = w.subs /\ x.sources = w.sources /\ x.cases = w.cases
      /\ x.links = w.links /\ x.ai = w.ai
  BY Fields21
<1>a. UsersOK(w.users) /\ UsersFit(w.users, w.depts, 20)
  BY DEF IsDb, Fits
<1>2. UsersFit(x.users, w.depts, 21)
  BY <1>0, <1>a, Fit21Users
<1>3. DeptsFit(x.depts, 21) /\ SubsFit(x.subs, x.depts, 21)
  BY <1>1 DEF Fits, DeptsFit, SubsFit
<1>4. SourcesFit(x.sources, x.depts, 21) /\ CasesFit(x.cases, x.depts, 21)
  BY <1>1 DEF Fits, SourcesFit, CasesFit
<1>5. LinksFit(x.links, x.depts, 21) /\ AiFit(x.ai, x.depts, 21)
  BY <1>1 DEF Fits, LinksFit, AiFit
<1>6. x.tokens \subseteq x.depts
  BY <1>1 DEF Fits
<1> QED
  BY <1>1, <1>2, <1>3, <1>4, <1>5, <1>6 DEF Fits

LEMMA Fit22Sources ==
  ASSUME NEW w, NEW S, SourcesOK(w.sources), Default \in w.depts,
         S = {[s EXCEPT !.owner = IF It \in w.depts THEN It ELSE Default] : s \in w.sources}
  PROVE  SourcesFit(S, w.depts, 22)
<1> DEFINE o == IF It \in w.depts THEN It ELSE Default
           g == [s \in w.sources |-> [s EXCEPT !.owner = o]]
<1>1. \A s \in w.sources : g[s].owner = o
  BY DEF SourcesOK
<1>2. S = {g[s] : s \in w.sources}
  OBVIOUS
<1>3. o \in w.depts
  OBVIOUS
<1> HIDE DEF o, g
<1> QED
  BY <1>1, <1>2, <1>3 DEF SourcesFit

LEMMA Fit22 ==
  ASSUME NEW w, NEW x, IsDb(w), w.version = 21, Fits(w), x = Stepped(22, w)
  PROVE  x.version = 22 /\ Fits(x)
<1>0. x.sources = {[s EXCEPT !.owner = IF It \in w.depts THEN It ELSE Default] : s \in w.sources}
  BY Fields22
<1>1. /\ x.version = 22 /\ x.depts = w.depts /\ x.tokens = w.tokens
      /\ x.users = w.users /\ x.subs = w.subs /\ x.cases = w.cases
      /\ x.links = w.links /\ x.ai = w.ai
  BY Fields22
<1>a. SourcesOK(w.sources) /\ Default \in w.depts
  BY DEF IsDb, Fits, DeptsFit
<1>2. SourcesFit(x.sources, w.depts, 22)
  BY <1>0, <1>a, Fit22Sources
<1>3. DeptsFit(x.depts, 22) /\ SubsFit(x.subs, x.depts, 22) /\ UsersFit(x.users, x.depts, 22)
  BY <1>1 DEF Fits, DeptsFit, SubsFit, UsersFit
<1>4. LinksFit(x.links, x.depts, 22) /\ CasesFit(x.cases, x.depts, 22)
  BY <1>1 DEF Fits, LinksFit, CasesFit
<1>5. AiFit(x.ai, x.depts, 22)
  BY <1>1 DEF Fits, AiFit
<1>6. x.tokens \subseteq x.depts
  BY <1>1 DEF Fits
<1> QED
  BY <1>1, <1>2, <1>3, <1>4, <1>5, <1>6 DEF Fits

LEMMA Fit23Ai ==
  ASSUME NEW w, NEW A, AiOK(w.ai), AiFit(w.ai, w.depts, 22),
         A = {[a EXCEPT !.provider = Provider[a.url]] : a \in w.ai}
  PROVE  AiFit(A, w.depts, 23)
<1> DEFINE g == [a \in w.ai |-> [a EXCEPT !.provider = Provider[a.url]]]
<1>1. \A a \in w.ai : g[a].dept = a.dept /\ g[a].url = a.url /\ g[a].provider = Provider[a.url]
  BY DEF AiOK
<1>2. A = {g[a] : a \in w.ai}
  OBVIOUS
<1> HIDE DEF g
<1>3. /\ \A a \in w.ai : a.dept \in w.depts /\ a.url \in DOMAIN Provider
      /\ \A a, b \in w.ai : a.dept = b.dept => a = b
  BY DEF AiFit
<1>4. \A a, b \in A : a.dept = b.dept => a = b
  BY <1>1, <1>2, <1>3
<1>5. \A a \in A : a.dept \in w.depts /\ a.url \in DOMAIN Provider /\ a.provider # Null
  BY <1>1, <1>2, <1>3, ProviderAssumption
<1> QED
  BY <1>4, <1>5 DEF AiFit

LEMMA Fit23 ==
  ASSUME NEW w, NEW x, IsDb(w), w.version = 22, Fits(w), x = Stepped(23, w)
  PROVE  x.version = 23 /\ Fits(x)
<1>0. x.ai = {[a EXCEPT !.provider = Provider[a.url]] : a \in w.ai}
  BY Fields23
<1>1. /\ x.version = 23 /\ x.depts = w.depts /\ x.tokens = w.tokens
      /\ x.users = w.users /\ x.subs = w.subs /\ x.sources = w.sources /\ x.cases = w.cases
      /\ x.links = w.links
  BY Fields23
<1>a. AiOK(w.ai) /\ AiFit(w.ai, w.depts, 22)
  BY DEF IsDb, Fits
<1>2. AiFit(x.ai, w.depts, 23)
  BY <1>0, <1>a, Fit23Ai
<1>3. DeptsFit(x.depts, 23) /\ SubsFit(x.subs, x.depts, 23) /\ UsersFit(x.users, x.depts, 23)
  BY <1>1 DEF Fits, DeptsFit, SubsFit, UsersFit
<1>4. LinksFit(x.links, x.depts, 23) /\ CasesFit(x.cases, x.depts, 23)
  BY <1>1 DEF Fits, LinksFit, CasesFit
<1>5. SourcesFit(x.sources, x.depts, 23)
  BY <1>1 DEF Fits, SourcesFit
<1>6. x.tokens \subseteq x.depts
  BY <1>1 DEF Fits
<1> QED
  BY <1>1, <1>2, <1>3, <1>4, <1>5, <1>6 DEF Fits

\* Whatever version it is from: a migration that does not refuse leaves a
\* database that fits the next.
LEMMA MigratedFits ==
  ASSUME NEW w, IsDb(w), w.version \in Revisions, w.version < Head, Fits(w),
         NEW v, v = After(w.version), ~Refuses(v, w)
  PROVE  Stepped(v, w).version \in Revisions /\ Fits(Stepped(v, w))
<1>1. w.version \in 0..22 /\ w.version \in {0, 7, 10} \union 16..22
  BY DEF Revisions, Head
<1>2. v \in Revisions /\ v > w.version /\ \A r \in Revisions : r > w.version => v <= r
  BY <1>1, Following
<1>3. v = IF w.version = 0 THEN 7 ELSE IF w.version = 7 THEN 10
          ELSE IF w.version = 10 THEN 16 ELSE w.version + 1
  BY <1>1, <1>2 DEF Revisions, Head
<1>4. v = 19 => ~Refuses19(w)
  BY DEF Refuses
<1>5. v = 21 => ~Refuses21(w)
  BY DEF Refuses
<1>6. SUFFICES Stepped(v, w).version = v /\ Fits(Stepped(v, w))
  BY <1>2
<1>7. CASE w.version = 0
  BY <1>3, <1>7, Fit7
<1>8. CASE w.version = 7
  BY <1>3, <1>8, Fit10
<1>9. CASE w.version = 10
  BY <1>3, <1>9, Fit16
<1>10. CASE w.version = 16
  BY <1>3, <1>10, Fit17
<1>11. CASE w.version = 17
  BY <1>3, <1>11, Fit18
<1>12. CASE w.version = 18
  BY <1>3, <1>4, <1>12, Fit19
<1>13. CASE w.version = 19
  BY <1>3, <1>13, Fit20
<1>14. CASE w.version = 20
  BY <1>3, <1>5, <1>14, Fit21
<1>15. CASE w.version = 21
  BY <1>3, <1>15, Fit22
<1>16. CASE w.version = 22
  BY <1>3, <1>16, Fit23
<1> QED
  BY <1>1, <1>7, <1>8, <1>9, <1>10, <1>11, <1>12, <1>13, <1>14, <1>15, <1>16

-----------------------------------------------------------------------------
(* Each downgrade                                                          *)

LEMMA Unfit16 ==
  ASSUME NEW w, NEW x, IsDb(w), w.version = 16, Fits(w), x = [Down16(w) EXCEPT !.version = 10]
  PROVE  x.version = 10 /\ Fits(x)
<1> DEFINE U == {[u EXCEPT !.super = FALSE, !.leads = {}, !.joins = {}] : u \in w.users}
           g == [u \in w.users |-> [u EXCEPT !.super = FALSE, !.leads = {}, !.joins = {}]]
<1>1. DOMAIN w = Fields /\ x = [[w EXCEPT !.depts = {}, !.users = U] EXCEPT !.version = 10]
  BY DEF IsDb, Down16
<1>2. \A u \in w.users : DOMAIN u = {"id", "name", "lower", "active", "super", "leads", "joins"}
  BY DEF IsDb, UsersOK
<1>3. \A u \in w.users : /\ g[u].name = u.name /\ g[u].lower = u.lower
                         /\ g[u].id = u.id /\ g[u].leads \subseteq {} /\ g[u].joins \subseteq {}
  BY <1>2
<1>4. U = {g[u] : u \in w.users}
  OBVIOUS
<1> HIDE DEF g, U
<1>5. UsersFit(w.users, w.depts, 16)
  BY DEF Fits
<1>6. UsersFit(U, {}, 10)
  BY <1>3, <1>4, <1>5 DEF UsersFit
<1>7. /\ x.version = 10 /\ x.depts = {} /\ x.users = U
      /\ x.subs = w.subs /\ x.sources = w.sources /\ x.ai = w.ai /\ x.cases = w.cases
      /\ x.links = w.links /\ x.tokens = w.tokens
  BY <1>1 DEF Fields
<1>8. SubsFit(x.subs, {}, 10) /\ SourcesFit(x.sources, {}, 10) /\ DeptsFit({}, 10)
  BY <1>7 DEF Fits, SubsFit, SourcesFit, DeptsFit
<1>9. AiFit(x.ai, {}, 10) /\ CasesFit(x.cases, {}, 10)
  BY <1>7 DEF Fits, AiFit, CasesFit
<1>10. LinksFit(x.links, {}, 10)
  BY <1>7 DEF Fits, LinksFit
<1>11. x.tokens \subseteq {}
  BY <1>7 DEF IsDb, Head
<1> QED
  BY <1>6, <1>7, <1>8, <1>9, <1>10, <1>11 DEF Fits

\* Of several departments' configurations one is left, and Default's if it has
\* one.
LEMMA Unfit17Ai ==
  ASSUME NEW w, AiOK(w.ai), AiFit(w.ai, w.depts, 17), NEW kept, kept \subseteq w.ai,
         \A a, b \in kept : a = b
  PROVE  AiFit({[a EXCEPT !.dept = Null] : a \in kept}, w.depts, 16)
<1> DEFINE g == [a \in kept |-> [a EXCEPT !.dept = Null]]
           A == {[a EXCEPT !.dept = Null] : a \in kept}
<1>1. \A a \in kept : DOMAIN a = {"dept", "url", "provider"}
  BY DEF AiOK
<1>2. \A a \in kept : g[a].dept = Null /\ g[a].url = a.url /\ g[a].provider = a.provider
  BY <1>1
<1>3. A = {g[a] : a \in kept}
  OBVIOUS
<1> HIDE DEF g, A
<1>4. \A x, y \in A : x = y
  BY <1>3
<1>5. \A a \in kept : a.provider = Null /\ a.url \in DOMAIN Provider
  BY DEF AiFit
<1>6. \A a \in A : a.dept = Null /\ a.provider = Null /\ a.url \in DOMAIN Provider
  BY <1>2, <1>3, <1>5
<1>7. AiFit(A, w.depts, 16)
  BY <1>4, <1>6 DEF AiFit
<1> QED
  BY <1>7 DEF A

LEMMA Unfit17Sources ==
  ASSUME NEW w, SourcesOK(w.sources), SourcesFit(w.sources, w.depts, 17),
         NEW h, NEW S, S = {[s EXCEPT !.on = h[s]] : s \in w.sources}
  PROVE  SourcesFit(S, w.depts, 16)
<1> DEFINE g == [s \in w.sources |-> [s EXCEPT !.on = h[s]]]
<1>1. \A s \in w.sources : DOMAIN s = {"name", "on", "owner"} /\ s.owner = Null
  BY DEF SourcesOK, SourcesFit
<1>2. \A s \in w.sources : g[s].owner = Null
  BY <1>1
<1>3. S = {g[s] : s \in w.sources}
  OBVIOUS
<1> HIDE DEF g
<1> QED
  BY <1>2, <1>3 DEF SourcesFit

LEMMA Unfit17 ==
  ASSUME NEW w, NEW x, IsDb(w), w.version = 17, Fits(w), x = [Down17(w) EXCEPT !.version = 16]
  PROVE  x.version = 16 /\ Fits(x)
<1> DEFINE mine == {a \in w.ai : a.dept = Default}
           kept == IF mine # {} THEN mine
                   ELSE IF w.ai = {} THEN {} ELSE {CHOOSE a \in w.ai : TRUE}
           flag(s) == \A r \in w.subs : r.dept = Default /\ r.name = s.name => r.on
           h == [s \in w.sources |-> flag(s)]
           A == {[a EXCEPT !.dept = Null] : a \in kept}
           C == {[c EXCEPT !.dept = Null] : c \in w.cases}
           S == {[s EXCEPT !.on = flag(s)] : s \in w.sources}
           k == [c \in w.cases |-> [c EXCEPT !.dept = Null]]
<1>1. DOMAIN w = Fields /\ AiOK(w.ai) /\ SourcesOK(w.sources) /\ CasesOK(w.cases)
  BY DEF IsDb
<1>2. /\ AiFit(w.ai, w.depts, 17) /\ SourcesFit(w.sources, w.depts, 17)
      /\ CasesFit(w.cases, w.depts, 17)
  BY DEF Fits
<1>3. x = [[w EXCEPT !.subs = {}, !.sources = S, !.ai = A, !.cases = C] EXCEPT !.version = 16]
  BY DEF Down17
<1>4. kept \subseteq w.ai /\ \A a, b \in kept : a = b
  BY <1>2 DEF AiFit
<1>5. S = {[s EXCEPT !.on = h[s]] : s \in w.sources}
  OBVIOUS
<1>6. C = {k[c] : c \in w.cases}
  OBVIOUS
<1>7. \A c \in w.cases : k[c].dept = Null /\ k[c].fw = Null
  BY <1>1, <1>2 DEF CasesOK, CasesFit
<1> HIDE DEF mine, kept, flag, h, k
<1>8. AiFit(A, w.depts, 16)
  BY <1>1, <1>2, <1>4, Unfit17Ai
<1>9. SourcesFit(S, w.depts, 16)
  <2>1. SourcesOK(w.sources) /\ SourcesFit(w.sources, w.depts, 17)
    BY <1>1, <1>2
  <2> HIDE DEF S
  <2> QED
    BY <1>5, <2>1, Unfit17Sources
<1> HIDE DEF A, C, S
<1>10. CasesFit(C, w.depts, 16)
  BY <1>6, <1>7 DEF CasesFit
<1>11. /\ x.version = 16 /\ x.depts = w.depts /\ x.users = w.users
       /\ x.subs = {} /\ x.sources = S /\ x.ai = A /\ x.cases = C
       /\ x.links = w.links /\ x.tokens = w.tokens
  BY <1>1, <1>3 DEF Fields
<1>12. DeptsFit(x.depts, 16) /\ UsersFit(x.users, x.depts, 16) /\ SubsFit(x.subs, x.depts, 16)
       /\ LinksFit(x.links, x.depts, 16)
  BY <1>11 DEF Fits, DeptsFit, UsersFit, SubsFit, LinksFit
<1>s. x.tokens \subseteq x.depts
  BY <1>11 DEF Fits
<1> QED
  BY <1>8, <1>9, <1>10, <1>11, <1>12, <1>s DEF Fits

LEMMA Unfit18 ==
  ASSUME NEW w, NEW x, IsDb(w), w.version = 18, Fits(w), x = [Down18(w) EXCEPT !.version = 17]
  PROVE  x.version = 17 /\ Fits(x)
<1>1. DOMAIN w = Fields
  BY DEF IsDb
<1>2. /\ x.version = 17 /\ x.depts = w.depts /\ x.tokens = {} /\ x.users = w.users
      /\ x.subs = w.subs /\ x.sources = w.sources /\ x.ai = w.ai /\ x.cases = w.cases
      /\ x.links = w.links
  BY <1>1 DEF Down18, Fields
<1>3. DeptsFit(x.depts, 17) /\ UsersFit(x.users, x.depts, 17) /\ SubsFit(x.subs, x.depts, 17)
  BY <1>2 DEF Fits, DeptsFit, UsersFit, SubsFit
<1>4. SourcesFit(x.sources, x.depts, 17) /\ CasesFit(x.cases, x.depts, 17)
  BY <1>2 DEF Fits, SourcesFit, CasesFit
<1>5. LinksFit(x.links, x.depts, 17) /\ AiFit(x.ai, x.depts, 17)
  BY <1>2 DEF Fits, LinksFit, AiFit
<1> QED
  BY <1>2, <1>3, <1>4, <1>5 DEF Fits

LEMMA Unfit19 ==
  ASSUME NEW w, NEW x, IsDb(w), w.version = 19, Fits(w), x = [Down19(w) EXCEPT !.version = 18]
  PROVE  x.version = 18 /\ Fits(x)
<1> DEFINE C == {[c EXCEPT !.fw = Null] : c \in w.cases}
           g == [c \in w.cases |-> [c EXCEPT !.fw = Null]]
<1>1. /\ DOMAIN w = Fields
      /\ x = [[w EXCEPT !.frameworks = {}, !.links = {}, !.cases = C] EXCEPT !.version = 18]
  BY DEF IsDb, Down19
<1>2. C = {g[c] : c \in w.cases}
  OBVIOUS
<1>a. CasesOK(w.cases) /\ CasesFit(w.cases, w.depts, 19)
  BY DEF IsDb, Fits
<1>3. \A c \in w.cases : g[c].dept \in w.depts /\ g[c].fw = Null
  BY <1>a DEF CasesOK, CasesFit
<1> HIDE DEF g, C
<1>4. CasesFit(C, w.depts, 18)
  BY <1>2, <1>3 DEF CasesFit
<1>5. /\ x.version = 18 /\ x.depts = w.depts /\ x.tokens = w.tokens /\ x.users = w.users
      /\ x.subs = w.subs /\ x.sources = w.sources /\ x.ai = w.ai /\ x.cases = C
      /\ x.links = {}
  BY <1>1 DEF Fields
<1>6. DeptsFit(x.depts, 18) /\ UsersFit(x.users, x.depts, 18) /\ SubsFit(x.subs, x.depts, 18)
  BY <1>5 DEF Fits, DeptsFit, UsersFit, SubsFit
<1>7. SourcesFit(x.sources, x.depts, 18) /\ AiFit(x.ai, x.depts, 18)
  BY <1>5 DEF Fits, SourcesFit, AiFit
<1>8. LinksFit(x.links, x.depts, 18) /\ x.tokens \subseteq x.depts
  BY <1>5 DEF Fits, LinksFit
<1> QED
  BY <1>4, <1>5, <1>6, <1>7, <1>8 DEF Fits

\* 20 and 21, whose downgrades leave these tables alone.
LEMMA UnfitQuiet ==
  ASSUME NEW w, NEW n \in 19..20, IsDb(w), w.version = n + 1, Fits(w), NEW x,
         x.version = n, x.depts = w.depts, x.tokens = w.tokens, x.users = w.users,
         x.subs = w.subs, x.sources = w.sources, x.ai = w.ai, x.cases = w.cases,
         x.links = w.links
  PROVE  Fits(x)
<1>1. DeptsFit(x.depts, n) /\ UsersFit(x.users, x.depts, n) /\ SubsFit(x.subs, x.depts, n)
  BY DEF Fits, DeptsFit, UsersFit, SubsFit
<1>2. SourcesFit(x.sources, x.depts, n) /\ CasesFit(x.cases, x.depts, n)
  BY DEF Fits, SourcesFit, CasesFit
<1>3. LinksFit(x.links, x.depts, n) /\ AiFit(x.ai, x.depts, n)
  BY DEF Fits, LinksFit, AiFit
<1>4. x.tokens \subseteq x.depts
  BY DEF Fits
<1> QED
  BY <1>1, <1>2, <1>3, <1>4 DEF Fits

LEMMA Unfit20 ==
  ASSUME NEW w, NEW x, IsDb(w), w.version = 20, Fits(w), x = [Down20(w) EXCEPT !.version = 19]
  PROVE  x.version = 19 /\ Fits(x)
<1>1. DOMAIN w = Fields
  BY DEF IsDb
<1>2. /\ x.version = 19 /\ x.depts = w.depts /\ x.tokens = w.tokens /\ x.users = w.users
      /\ x.subs = w.subs /\ x.sources = w.sources /\ x.ai = w.ai /\ x.cases = w.cases
      /\ x.links = w.links
  BY <1>1 DEF Down20, Fields
<1>3. 19 \in 19..20 /\ 20 = 19 + 1
  OBVIOUS
<1> QED
  BY <1>2, <1>3, UnfitQuiet

LEMMA Unfit21 ==
  ASSUME NEW w, NEW x, IsDb(w), w.version = 21, Fits(w), x = [w EXCEPT !.version = 20]
  PROVE  x.version = 20 /\ Fits(x)
<1>1. DOMAIN w = Fields
  BY DEF IsDb
<1>2. /\ x.version = 20 /\ x.depts = w.depts /\ x.tokens = w.tokens /\ x.users = w.users
      /\ x.subs = w.subs /\ x.sources = w.sources /\ x.ai = w.ai /\ x.cases = w.cases
      /\ x.links = w.links
  BY <1>1 DEF Fields
<1>3. 20 \in 19..20 /\ 21 = 20 + 1
  OBVIOUS
<1> QED
  BY <1>2, <1>3, UnfitQuiet

LEMMA Unfit22 ==
  ASSUME NEW w, NEW x, IsDb(w), w.version = 22, Fits(w), x = [Down22(w) EXCEPT !.version = 21]
  PROVE  x.version = 21 /\ Fits(x)
<1> DEFINE S == {[s EXCEPT !.owner = Null] : s \in w.sources}
           g == [s \in w.sources |-> [s EXCEPT !.owner = Null]]
<1>1. DOMAIN w = Fields /\ x = [[w EXCEPT !.sources = S] EXCEPT !.version = 21]
  BY DEF IsDb, Down22
<1>2. S = {g[s] : s \in w.sources}
  OBVIOUS
<1>3. \A s \in w.sources : g[s].owner = Null
  BY DEF IsDb, SourcesOK
<1> HIDE DEF g, S
<1>4. SourcesFit(S, w.depts, 21)
  BY <1>2, <1>3 DEF SourcesFit
<1>5. /\ x.version = 21 /\ x.depts = w.depts /\ x.tokens = w.tokens /\ x.users = w.users
      /\ x.subs = w.subs /\ x.sources = S /\ x.ai = w.ai /\ x.cases = w.cases
      /\ x.links = w.links
  BY <1>1 DEF Fields
<1>6. DeptsFit(x.depts, 21) /\ UsersFit(x.users, x.depts, 21) /\ SubsFit(x.subs, x.depts, 21)
  BY <1>5 DEF Fits, DeptsFit, UsersFit, SubsFit
<1>7. CasesFit(x.cases, x.depts, 21) /\ AiFit(x.ai, x.depts, 21)
  BY <1>5 DEF Fits, CasesFit, AiFit
<1>8. LinksFit(x.links, x.depts, 21)
  BY <1>5 DEF Fits, LinksFit
<1>9. x.tokens \subseteq x.depts
  BY <1>5 DEF Fits
<1> QED
  BY <1>4, <1>5, <1>6, <1>7, <1>8, <1>9 DEF Fits

LEMMA Unfit23 ==
  ASSUME NEW w, NEW x, IsDb(w), w.version = 23, Fits(w), x = [Down23(w) EXCEPT !.version = 22]
  PROVE  x.version = 22 /\ Fits(x)
<1> DEFINE A == {[a EXCEPT !.provider = Null] : a \in w.ai}
           g == [a \in w.ai |-> [a EXCEPT !.provider = Null]]
<1>1. DOMAIN w = Fields /\ x = [[w EXCEPT !.ai = A] EXCEPT !.version = 22]
  BY DEF IsDb, Down23
<1>2. A = {g[a] : a \in w.ai}
  OBVIOUS
<1>3. \A a \in w.ai : g[a].dept = a.dept /\ g[a].url = a.url /\ g[a].provider = Null
  BY DEF IsDb, AiOK
<1> HIDE DEF g, A
<1>a. AiFit(w.ai, w.depts, 23)
  BY DEF Fits
<1>4. AiFit(A, w.depts, 22)
  BY <1>2, <1>3, <1>a DEF AiFit
<1>5. /\ x.version = 22 /\ x.depts = w.depts /\ x.tokens = w.tokens /\ x.users = w.users
      /\ x.subs = w.subs /\ x.sources = w.sources /\ x.ai = A /\ x.cases = w.cases
      /\ x.links = w.links
  BY <1>1 DEF Fields
<1>6. DeptsFit(x.depts, 22) /\ UsersFit(x.users, x.depts, 22) /\ SubsFit(x.subs, x.depts, 22)
  BY <1>5 DEF Fits, DeptsFit, UsersFit, SubsFit
<1>7. CasesFit(x.cases, x.depts, 22) /\ SourcesFit(x.sources, x.depts, 22)
  BY <1>5 DEF Fits, CasesFit, SourcesFit
<1>8. LinksFit(x.links, x.depts, 22)
  BY <1>5 DEF Fits, LinksFit
<1>9. x.tokens \subseteq x.depts
  BY <1>5 DEF Fits
<1> QED
  BY <1>4, <1>5, <1>6, <1>7, <1>8, <1>9 DEF Fits

LEMMA DowngradedFits ==
  ASSUME NEW w, IsDb(w), w.version >= 16, Fits(w), NEW x,
         x = [Down(w.version, w) EXCEPT !.version = Before(w.version)]
  PROVE  x.version \in Revisions /\ Fits(x)
<1>1. w.version \in 16..23
  BY DEF IsDb, Head
<1>2. Before(w.version) = IF w.version = 16 THEN 10 ELSE w.version - 1
  BY <1>1, Preceding
<1>3. CASE w.version = 16
  BY <1>2, <1>3, Unfit16 DEF Down, Revisions
<1>4. CASE w.version = 17
  BY <1>2, <1>4, Unfit17 DEF Down, Revisions, Head
<1>5. CASE w.version = 18
  BY <1>2, <1>5, Unfit18 DEF Down, Revisions, Head
<1>6. CASE w.version = 19
  BY <1>2, <1>6, Unfit19 DEF Down, Revisions, Head
<1>7. CASE w.version = 20
  BY <1>2, <1>7, Unfit20 DEF Down, Revisions, Head
<1>8. CASE w.version = 21
  BY <1>2, <1>8, Unfit21 DEF Down, Revisions, Head
<1>9. CASE w.version = 22
  BY <1>2, <1>9, Unfit22 DEF Down, Revisions, Head
<1>10. CASE w.version = 23
  BY <1>2, <1>10, Unfit23 DEF Down, Revisions, Head
<1> QED
  BY <1>1, <1>3, <1>4, <1>5, <1>6, <1>7, <1>8, <1>9, <1>10

-----------------------------------------------------------------------------
(* The API and the seeding, at the head version                            *)

\* A request that leaves the users and the frameworks alone.
Answers(db) ==
    /\ Serve(db) /\ Fits(db) /\ db.version = stored.version
    /\ db.users = stored.users /\ db.frameworks = stored.frameworks

AtHead == IsDb(stored) /\ stored.version = Head /\ Fits(stored)

LEMMA AssessFits ==
  ASSUME AtHead, NEW c, NEW d, NEW f \in Frameworks, Assess(c, d, f)
  PROVE  \E db : Answers(db)
<1> DEFINE r == [id |-> c, prompt |-> Prompt[f], dept |-> d, fw |-> f]
           C == stored.cases \union {r}
           db == [stored EXCEPT !.cases = C]
<1>1. Serve(db) /\ d \in stored.depts
  BY DEF Assess
<1>2. \A x \in stored.cases : ~(x.dept = d /\ x.fw = f /\ x.prompt = Prompt[f])
  BY DEF Assess
<1>3. r.prompt = Prompt[f] /\ r.dept = d /\ r.fw = f
  OBVIOUS
<1> HIDE DEF r
<1>4. CasesFit(stored.cases, stored.depts, 23)
  BY DEF AtHead, Fits, Head
<1>5. CasesFit(C, stored.depts, 23)
  <2>1. \A x, y \in C : x.dept = y.dept /\ x.fw = y.fw /\ x.prompt = y.prompt => x = y
    BY <1>2, <1>3, <1>4 DEF CasesFit
  <2>2. \A x \in C : x.dept \in stored.depts /\ x.fw \in Frameworks
    BY <1>1, <1>3, <1>4 DEF CasesFit
  <2> QED
    BY <2>1, <2>2 DEF CasesFit
<1> HIDE DEF C
<1>6. /\ db.version = 23 /\ stored.version = 23 /\ db.depts = stored.depts
      /\ db.users = stored.users /\ db.sources = stored.sources /\ db.subs = stored.subs
      /\ db.ai = stored.ai /\ db.cases = C /\ db.links = stored.links
      /\ db.tokens = stored.tokens /\ db.frameworks = stored.frameworks
  BY DEF AtHead, IsDb, Fields, Head
<1> HIDE DEF db
<1>7. Fits(db)
  BY <1>5, <1>6 DEF AtHead, Fits
<1> QED
  BY <1>1, <1>6, <1>7 DEF Answers

\* The department gets its frameworks and no other's change.
LEMMA AddDeptLinks ==
  ASSUME NEW L, NEW D, NEW d, d \notin D, LinksFit(L, D, 23)
  PROVE  LinksFit(L \union AllEnabled(d), D \union {d}, 23)
<1> DEFINE K == L \union AllEnabled(d)
<1>1. \A r \in L : r.dept \in D
  BY DEF LinksFit
<1>2. \A r \in AllEnabled(d) : r.dept = d
  BY OneOfAll
<1>3. {r \in K : r.dept = d} = AllEnabled(d)
  BY <1>1, <1>2
<1>4. \A e \in D : {r \in K : r.dept = e} = {r \in L : r.dept = e}
  BY <1>2
<1>5. \A r \in K : r.dept \in D \union {d}
  BY <1>1, <1>2
<1> HIDE DEF K
<1>6. ASSUME NEW e \in D \union {d}
      PROVE  IF {r \in K : r.dept = e} = {} THEN CutShort(e)
             ELSE Cardinality({r \in {q \in K : q.dept = e} : r.default}) = 1
  <2>1. CASE e = d
    BY <1>3, <2>1, OneOfAll
  <2>2. CASE e # d
    <3>1. /\ {r \in K : r.dept = e} = {r \in L : r.dept = e}
          /\ IF {r \in L : r.dept = e} = {} THEN CutShort(e)
             ELSE Cardinality({r \in {q \in L : q.dept = e} : r.default}) = 1
      BY <1>4, <2>2 DEF LinksFit
    <3> QED
      BY <3>1
  <2> QED
    BY <2>1, <2>2
<1>8. \A e \in D \union {d} :
         IF {r \in K : r.dept = e} = {} THEN CutShort(e)
         ELSE Cardinality({r \in {q \in K : q.dept = e} : r.default}) = 1
  BY <1>6
<1> DEFINE E == D \union {d}
<1>9. \A r \in K : r.dept \in E
  BY <1>5
<1>10. \A e \in E :
         IF {r \in K : r.dept = e} = {} THEN CutShort(e)
         ELSE Cardinality({r \in {q \in K : q.dept = e} : r.default}) = 1
  BY <1>8
<1> HIDE DEF E
<1>7. LinksFit(K, E, 23)
  BY <1>9, <1>10 DEF LinksFit
<1> QED
  BY <1>7 DEF K, E

LEMMA AddDeptFits ==
  ASSUME AtHead, NEW d \in NewDepts, AddDept(d)
  PROVE  \E db : Answers(db)
<1> DEFINE D == stored.depts \union {d}
           L == stored.links \union AllEnabled(d)
           db == [stored EXCEPT !.depts = D, !.links = L]
<1>1. Serve(db) /\ d \notin stored.depts
  BY DEF AddDept
<1>2. LinksFit(stored.links, stored.depts, 23)
  BY DEF AtHead, Fits, Head
<1>3. LinksFit(L, D, 23)
  BY <1>1, <1>2, AddDeptLinks
<1>4. stored.depts \subseteq D /\ D \subseteq Depts
  BY DeptsAssumption DEF AtHead, Fits, DeptsFit
<1> HIDE DEF D, L
<1>6. /\ db.version = 23 /\ stored.version = 23 /\ db.depts = D
      /\ db.users = stored.users /\ db.sources = stored.sources /\ db.subs = stored.subs
      /\ db.ai = stored.ai /\ db.cases = stored.cases /\ db.links = L
      /\ db.tokens = stored.tokens /\ db.frameworks = stored.frameworks
  BY DEF AtHead, IsDb, Fields, Head
<1> HIDE DEF db
<1>7. DeptsFit(D, 23) /\ UsersFit(stored.users, D, 23) /\ SubsFit(stored.subs, D, 23)
  BY <1>4, <1>6 DEF AtHead, Fits, DeptsFit, UsersFit, SubsFit
<1>8. SourcesFit(stored.sources, D, 23) /\ stored.tokens \subseteq D
  BY <1>4, <1>6 DEF AtHead, Fits, SourcesFit
<1>9. AiFit(stored.ai, D, 23) /\ CasesFit(stored.cases, D, 23)
  BY <1>4, <1>6 DEF AtHead, Fits, AiFit, CasesFit
<1>10. Fits(db)
  BY <1>3, <1>6, <1>7, <1>8, <1>9 DEF Fits
<1> QED
  BY <1>1, <1>6, <1>10 DEF Answers

LEMMA PutAiFits ==
  ASSUME AtHead, NEW d, NEW url \in DOMAIN Provider, PutAi(d, url)
  PROVE  \E db : Answers(db)
<1> DEFINE r == [dept |-> d, url |-> url, provider |-> Provider[url]]
           A == {a \in stored.ai : a.dept # d} \union {r}
           db == [stored EXCEPT !.ai = A]
<1>1. Serve(db) /\ d \in stored.depts
  BY DEF PutAi
<1>2. r.dept = d /\ r.url = url /\ r.provider = Provider[url] /\ Provider[url] # Null
  BY ProviderAssumption
<1> HIDE DEF r
<1>3. AiFit(stored.ai, stored.depts, 23)
  BY DEF AtHead, Fits, Head
<1>4. AiFit(A, stored.depts, 23)
  BY <1>1, <1>2, <1>3 DEF AiFit
<1> HIDE DEF A
<1>6. /\ db.version = 23 /\ stored.version = 23 /\ db.depts = stored.depts
      /\ db.users = stored.users /\ db.sources = stored.sources /\ db.subs = stored.subs
      /\ db.ai = A /\ db.cases = stored.cases /\ db.links = stored.links
      /\ db.tokens = stored.tokens /\ db.frameworks = stored.frameworks
  BY DEF AtHead, IsDb, Fields, Head
<1> HIDE DEF db
<1>7. Fits(db)
  BY <1>4, <1>6 DEF AtHead, Fits
<1> QED
  BY <1>1, <1>6, <1>7 DEF Answers

LEMMA MintFits ==
  ASSUME AtHead, NEW d, MintToken(d)
  PROVE  \E db : Answers(db)
<1> DEFINE T == stored.tokens \union {d}
           db == [stored EXCEPT !.tokens = T]
<1>1. Serve(db) /\ d \in stored.depts
  BY DEF MintToken
<1>2. T \subseteq stored.depts
  BY <1>1 DEF AtHead, Fits
<1> HIDE DEF T
<1>6. /\ db.version = 23 /\ stored.version = 23 /\ db.depts = stored.depts
      /\ db.users = stored.users /\ db.sources = stored.sources /\ db.subs = stored.subs
      /\ db.ai = stored.ai /\ db.cases = stored.cases /\ db.links = stored.links
      /\ db.tokens = T /\ db.frameworks = stored.frameworks
  BY DEF AtHead, IsDb, Fields, Head
<1> HIDE DEF db
<1>7. Fits(db)
  BY <1>2, <1>6 DEF AtHead, Fits
<1> QED
  BY <1>1, <1>6, <1>7 DEF Answers

LEMMA WriteViewFits ==
  ASSUME AtHead, WriteView
  PROVE  \E db : Answers(db)
<1> DEFINE db == [stored EXCEPT !.viewed = TRUE]
<1>1. Serve(db)
  BY DEF WriteView
<1>6. /\ db.version = 23 /\ stored.version = 23 /\ db.depts = stored.depts
      /\ db.users = stored.users /\ db.sources = stored.sources /\ db.subs = stored.subs
      /\ db.ai = stored.ai /\ db.cases = stored.cases /\ db.links = stored.links
      /\ db.tokens = stored.tokens /\ db.frameworks = stored.frameworks
  BY DEF AtHead, IsDb, Fields, Head
<1> HIDE DEF db
<1>7. Fits(db)
  BY <1>6 DEF AtHead, Fits
<1> QED
  BY <1>1, <1>6, <1>7 DEF Answers

\* The seed account is there, as superadmin with a role in Default.
Admin(db) ==
    \E u \in db.users : /\ u.name = SeedName /\ u.super
                        /\ Default \in u.leads \union u.joins

\* A deactivated seed account was restored.
BarredOnly(db) == \A u \in db.users : u.name = SeedName /\ ~u.active => Barred

LEMMA SeedUserFits ==
  ASSUME AtHead, BarredOnly(stored), SeedUser
  PROVE  stored'.version = Head /\ Fits(stored') /\ Admin(stored') /\ BarredOnly(stored')
<1> DEFINE known == {u \in stored.users : u.name = SeedName /\ u.lower}
           home == stored.depts \intersect {Default}
           admin == [id |-> SeedName, name |-> SeedName, lower |-> TRUE, active |-> TRUE,
                     super |-> TRUE, leads |-> home, joins |-> {}]
           g == [u \in stored.users |->
                   [u EXCEPT !.super = TRUE, !.leads = @ \union (home \ u.joins)]]
           U == IF known = {} THEN stored.users \union {admin}
                ELSE (stored.users \ known) \union {g[u] : u \in known}
<1>1. stored' = [stored EXCEPT !.users =
                   IF known = {} THEN @ \union {admin}
                   ELSE (@ \ known) \union
                          {[u EXCEPT !.super = TRUE, !.leads = @ \union (home \ u.joins)] :
                             u \in known}]
  BY DEF SeedUser
<1>2. {[u EXCEPT !.super = TRUE, !.leads = @ \union (home \ u.joins)] : u \in known}
        = {g[u] : u \in known}
  OBVIOUS
<1>3. UsersOK(stored.users) /\ UsersFit(stored.users, stored.depts, 23)
      /\ home = {Default} /\ home \subseteq stored.depts
  BY DEF AtHead, IsDb, Fits, DeptsFit, Head
<1>4. \A u \in stored.users : /\ g[u].name = u.name /\ g[u].lower = u.lower
                              /\ g[u].id = u.id /\ g[u].active = u.active
                              /\ g[u].super = TRUE /\ g[u].joins = u.joins
                              /\ g[u].leads = u.leads \union (home \ u.joins)
  BY <1>3 DEF UsersOK
<1>5. /\ admin.name = SeedName /\ admin.lower = TRUE /\ admin.super = TRUE
      /\ admin.active = TRUE /\ admin.leads = home /\ admin.joins = {}
  OBVIOUS
<1>6. /\ known \subseteq stored.users
      /\ \A u \in stored.users : u \in known <=> u.name = SeedName
  BY <1>3 DEF UsersFit
<1> HIDE DEF admin, g, known, home
<1>7. \A u \in stored.users :
         u.leads \subseteq stored.depts /\ u.joins \subseteq stored.depts /\ u.lower
  BY <1>3 DEF UsersFit
<1>8. \A x, y \in stored.users :
         x.name = y.name /\ x.lower = y.lower
         /\ (IF x.lower THEN Null ELSE x.id) = (IF y.lower THEN Null ELSE y.id) => x = y
  BY <1>3 DEF UsersFit
<1>9. /\ UsersFit(U, stored.depts, 23)
      /\ \E u \in U : u.name = SeedName /\ u.super /\ Default \in u.leads \union u.joins
      /\ \A u \in U : u.name = SeedName /\ ~u.active => Barred
  <2>1. CASE known = {}
    <3>1. U = stored.users \union {admin}
      BY <2>1
    <3>2. \A x, y \in U :
            x.name = y.name /\ x.lower = y.lower
            /\ (IF x.lower THEN Null ELSE x.id) = (IF y.lower THEN Null ELSE y.id) => x = y
      BY <1>5, <1>6, <1>8, <2>1, <3>1
    <3>3. \A u \in U : u.leads \subseteq stored.depts /\ u.joins \subseteq stored.depts /\ u.lower
      BY <1>3, <1>5, <1>7, <3>1
    <3>4. admin \in U
      BY <3>1
    <3>5. UsersFit(U, stored.depts, 23)
      BY <3>2, <3>3 DEF UsersFit
    <3>6. \E u \in U : u.name = SeedName /\ u.super /\ Default \in u.leads \union u.joins
      BY <1>3, <1>5, <3>4
    <3>7. \A u \in U : u.name = SeedName /\ ~u.active => Barred
      BY <1>5, <3>1 DEF BarredOnly
    <3> QED
      BY <3>5, <3>6, <3>7
  <2>2. CASE known # {}
    <3>1. U = (stored.users \ known) \union {g[u] : u \in known}
      BY <2>2
    <3>2. \A x \in U : \E u \in stored.users :
            /\ x.name = u.name /\ x.lower = u.lower /\ x.id = u.id /\ x.active = u.active
            /\ x = IF u \in known THEN g[u] ELSE u
      BY <1>4, <1>6, <3>1
    <3>3. \A x, y \in U :
            x.name = y.name /\ x.lower = y.lower
            /\ (IF x.lower THEN Null ELSE x.id) = (IF y.lower THEN Null ELSE y.id) => x = y
      BY <1>8, <3>2
    <3>4. \A u \in U : u.leads \subseteq stored.depts /\ u.joins \subseteq stored.depts /\ u.lower
      BY <1>3, <1>4, <1>6, <1>7, <3>1
    <3>5. PICK u \in known : TRUE
      BY <2>2
    <3>6. /\ g[u] \in U /\ g[u].name = SeedName /\ g[u].super
          /\ Default \in g[u].leads \union g[u].joins
      BY <1>3, <1>4, <1>6, <3>1, <3>5
    <3>7. UsersFit(U, stored.depts, 23)
      BY <3>3, <3>4 DEF UsersFit
    <3>8. \A x \in U : x.name = SeedName /\ ~x.active => Barred
      BY <3>2 DEF BarredOnly
    <3> QED
      BY <3>6, <3>7, <3>8
  <2> QED
    BY <2>1, <2>2
<1>11. stored' = [stored EXCEPT !.users = U]
  BY <1>1, <1>2
<1> HIDE DEF U
<1>13. /\ stored'.version = 23 /\ stored.version = 23 /\ stored'.depts = stored.depts
       /\ stored'.users = U /\ stored'.sources = stored.sources /\ stored'.subs = stored.subs
       /\ stored'.ai = stored.ai /\ stored'.cases = stored.cases
       /\ stored'.links = stored.links /\ stored'.tokens = stored.tokens
  BY <1>11 DEF AtHead, IsDb, Fields, Head
<1>12. Fits(stored')
  BY <1>9, <1>13 DEF AtHead, Fits
<1> QED
  BY <1>9, <1>13, <1>12 DEF Admin, BarredOnly, Head

\* A downgrade leaves the accounts.
LEMMA DowngradedAccounts ==
  ASSUME NEW w, IsDb(w), w.version >= 16, NEW x,
         x = [Down(w.version, w) EXCEPT !.version = Before(w.version)]
  PROVE  Accounts(x) = Accounts(w)
<1>1. w.version \in 16..23 /\ DOMAIN w = Fields /\ UsersOK(w.users)
  BY DEF IsDb, Head
<1>2. CASE w.version = 16
  <2> DEFINE g == [u \in w.users |-> [u EXCEPT !.super = FALSE, !.leads = {}, !.joins = {}]]
         U == {[u EXCEPT !.super = FALSE, !.leads = {}, !.joins = {}] : u \in w.users}
         n == Before(w.version)
  <2>1. x = [[w EXCEPT !.depts = {}, !.users = U] EXCEPT !.version = n]
    BY <1>2 DEF Down, Down16
  <2>2. x.users = {g[u] : u \in w.users}
    <3>1. U = {g[u] : u \in w.users}
      OBVIOUS
    <3> HIDE DEF U, g, n
    <3> QED
      BY <1>1, <2>1, <3>1 DEF Fields
  <2>3. \A u \in w.users : /\ g[u].id = u.id /\ g[u].name = u.name /\ g[u].active = u.active
    BY <1>1 DEF UsersOK
  <2> HIDE DEF g
  <2> QED
    BY <2>2, <2>3 DEF Accounts
<1>3. CASE w.version # 16
  <2>1. x.users = w.users
    <3>1. CASE w.version = 17
      <4> DEFINE mine == {a \in w.ai : a.dept = Default}
                 kept == IF mine # {} THEN mine
                         ELSE IF w.ai = {} THEN {} ELSE {CHOOSE a \in w.ai : TRUE}
                 flag(s) == \A r \in w.subs : r.dept = Default /\ r.name = s.name => r.on
                 S == {[s EXCEPT !.on = flag(s)] : s \in w.sources}
                 A == {[a EXCEPT !.dept = Null] : a \in kept}
                 C == {[c EXCEPT !.dept = Null] : c \in w.cases}
      <4>1. x = [[w EXCEPT !.subs = {}, !.sources = S, !.ai = A, !.cases = C]
                   EXCEPT !.version = Before(w.version)]
        BY <3>1 DEF Down, Down17
      <4> HIDE DEF S, A, C
      <4> QED
        BY <1>1, <4>1 DEF Fields
    <3>2. CASE w.version = 18
      BY <1>1, <3>2 DEF Down, Down18, Fields
    <3>3. CASE w.version = 19
      <4> DEFINE C == {[c EXCEPT !.fw = Null] : c \in w.cases}
      <4>1. x = [[w EXCEPT !.frameworks = {}, !.links = {}, !.cases = C]
                   EXCEPT !.version = Before(w.version)]
        BY <3>3 DEF Down, Down19
      <4> HIDE DEF C
      <4> QED
        BY <1>1, <4>1 DEF Fields
    <3>4. CASE w.version = 20
      BY <1>1, <3>4 DEF Down, Down20, Fields
    <3>5. CASE w.version = 21
      BY <1>1, <3>5 DEF Down, Fields
    <3>6. CASE w.version = 22
      BY <1>1, <3>6 DEF Down, Down22, Fields
    <3>7. CASE w.version = 23
      BY <1>1, <3>7 DEF Down, Down23, Fields
    <3> QED
      BY <1>1, <1>3, <3>1, <3>2, <3>3, <3>4, <3>5, <3>6, <3>7
  <2> QED
    BY <2>1 DEF Accounts
<1> QED
  BY <1>2, <1>3

\* The same accounts, the same ones deactivated.
LEMMA BarredStill ==
  ASSUME NEW x, NEW w, BarredOnly(w), Accounts(x) = Accounts(w)
  PROVE  BarredOnly(x)
<1>1. SUFFICES ASSUME NEW u \in x.users, u.name = SeedName, ~u.active PROVE Barred
  BY DEF BarredOnly
<1>2. <<u.id, u.name, u.active>> \in Accounts(w)
  BY DEF Accounts
<1>3. PICK y \in w.users : <<u.id, u.name, u.active>> = <<y.id, y.name, y.active>>
  BY <1>2 DEF Accounts
<1> QED
  BY <1>1, <1>3 DEF BarredOnly

CodeRows == {[key |-> f, prompt |-> Prompt[f]] : f \in Frameworks}

LEMMA SeedFrameworksFits ==
  ASSUME AtHead, SeedFrameworks
  PROVE  /\ stored'.version = Head /\ Fits(stored')
         /\ stored'.users = stored.users /\ stored'.frameworks = CodeRows
<1>1. stored' = [stored EXCEPT !.frameworks = CodeRows]
  BY DEF SeedFrameworks, CodeRows
<1>2. /\ stored'.version = 23 /\ stored.version = 23 /\ stored'.depts = stored.depts
      /\ stored'.users = stored.users /\ stored'.sources = stored.sources
      /\ stored'.subs = stored.subs /\ stored'.ai = stored.ai
      /\ stored'.cases = stored.cases /\ stored'.links = stored.links
      /\ stored'.tokens = stored.tokens /\ stored'.frameworks = CodeRows
  BY <1>1 DEF AtHead, IsDb, Fields, Head
<1>3. Fits(stored')
  BY <1>2 DEF AtHead, Fits
<1> QED
  BY <1>2, <1>3 DEF Head

-----------------------------------------------------------------------------
(* The invariant                                                           *)

BootInv ==
    /\ stored.version \in Revisions /\ Fits(stored)
    /\ work.version \in Revisions /\ Fits(work)
    /\ stage \in {"seed_frameworks", "serving"} => Admin(stored)
    /\ stage = "serving" => stored.frameworks = CodeRows
    /\ BarredOnly(stored)

LEMMA FreshFits == Fresh.version \in Revisions /\ Fits(Fresh)
<1>1. /\ Fresh.version = 0 /\ Fresh.users = {} /\ Fresh.depts = {} /\ Fresh.sources = {}
      /\ Fresh.subs = {} /\ Fresh.ai = {} /\ Fresh.cases = {} /\ Fresh.links = {}
      /\ Fresh.tokens = {}
  BY DEF Fresh
<1>2. DeptsFit({}, 0) /\ UsersFit({}, {}, 0) /\ SourcesFit({}, {}, 0) /\ SubsFit({}, {}, 0)
  BY DEF DeptsFit, UsersFit, SourcesFit, SubsFit
<1>3. AiFit({}, {}, 0) /\ CasesFit({}, {}, 0) /\ LinksFit({}, {}, 0)
  BY DEF AiFit, CasesFit, LinksFit
<1> QED
  BY <1>1, <1>2, <1>3 DEF Fits, Revisions

LEMMA BootInit ==
  ASSUME MigInit
  PROVE  BootInv
<1>1. stored \in Found /\ stage = "down" /\ work = Fresh
  BY DEF MigInit
<1>2. Schema(stored) /\ stored.version \in Revisions
  BY <1>1, FoundAssumption DEF Schema
<1>3. Fits(stored)
  BY <1>2, SchemaFits
<1> QED
  BY <1>1, <1>2, <1>3, FreshFits DEF BootInv, BarredOnly, Barred

LEMMA ServedFits ==
  ASSUME BootInv, \E db : Answers(db)
  PROVE  BootInv'
<1>1. PICK db : Answers(db)
  OBVIOUS
<1>2. /\ stored' = db /\ Fits(db) /\ db.version = stored.version /\ db.users = stored.users
      /\ db.frameworks = stored.frameworks /\ stage' = stage /\ work' = work
  BY <1>1 DEF Answers, Serve
<1> QED
  BY <1>2 DEF BootInv, Admin, BarredOnly

LEMMA BootStep ==
  ASSUME MigInv, BootInv, [MigNext]_migVars
  PROVE  BootInv'
<1>1. CASE Begin
  BY <1>1 DEF Begin, BootInv
<1>2. CASE Migrate
  <2>1. /\ stage = "upgrade" /\ work.version < Head
        /\ ~Refuses(After(work.version), work) /\ work' = Stepped(After(work.version), work)
        /\ stored' = stored /\ stage' = stage
    BY <1>2 DEF Migrate, Stepped
  <2>2. IsDb(work) /\ Fits(work) /\ work.version \in Revisions
    BY <2>1 DEF MigInv, AtWork, BootInv
  <2>3. work'.version \in Revisions /\ Fits(work')
    BY <2>1, <2>2, MigratedFits
  <2> QED
    BY <2>1, <2>3 DEF BootInv
<1>3. CASE Raise
  BY <1>3, FreshFits DEF Raise, Over, BootInv
<1>4. CASE CommitUpgrade
  <2>1. /\ stage = "upgrade" /\ stage' = "seed_user" /\ stored' = work /\ work' = Fresh
    BY <1>4 DEF CommitUpgrade, Over
  <2>2. BarredOnly(stored')
    BY <2>1, BarredStill DEF MigInv, AtWork, KeptSo, BootInv
  <2> QED
    BY <2>1, <2>2, FreshFits DEF BootInv
<1>5. CASE SeedUser
  <2>1. stage = "seed_user" /\ stage' = "seed_frameworks" /\ work' = work
    BY <1>5 DEF SeedUser
  <2>2. AtHead
    BY <2>1 DEF MigInv, BootInv, AtHead
  <2>3. stored'.version = Head /\ Fits(stored') /\ Admin(stored') /\ BarredOnly(stored')
    BY <1>5, <2>2, SeedUserFits DEF BootInv
  <2> QED
    BY <2>1, <2>3 DEF BootInv, Revisions, Head
<1>6. CASE SeedFrameworks
  <2>1. stage = "seed_frameworks" /\ stage' = "serving" /\ work' = work
    BY <1>6 DEF SeedFrameworks
  <2>2. AtHead
    BY <2>1 DEF MigInv, BootInv, AtHead
  <2>3. /\ stored'.version = Head /\ Fits(stored') /\ stored'.users = stored.users
        /\ stored'.frameworks = CodeRows
    BY <1>6, <2>2, SeedFrameworksFits
  <2> QED
    BY <2>1, <2>3 DEF BootInv, Admin, BarredOnly, Revisions, Head
<1>7. CASE End
  BY <1>7, FreshFits DEF End, Over, BootInv
<1>8. stage = "serving" => AtHead
  BY DEF MigInv, BootInv, AtHead
<1>9. ASSUME NEW c, NEW d, NEW f \in Frameworks, Assess(c, d, f) PROVE BootInv'
  <2>1. stage = "serving"
    BY <1>9 DEF Assess, Serve
  <2> QED
    BY <1>8, <1>9, <2>1, AssessFits, ServedFits
<1>10. ASSUME NEW d \in NewDepts, AddDept(d) PROVE BootInv'
  <2>1. stage = "serving"
    BY <1>10 DEF AddDept, Serve
  <2> QED
    BY <1>8, <1>10, <2>1, AddDeptFits, ServedFits
<1>11. ASSUME NEW d, NEW url \in DOMAIN Provider, PutAi(d, url) PROVE BootInv'
  <2>1. stage = "serving"
    BY <1>11 DEF PutAi, Serve
  <2> QED
    BY <1>8, <1>11, <2>1, PutAiFits, ServedFits
<1>12. ASSUME NEW d, MintToken(d) PROVE BootInv'
  <2>1. stage = "serving"
    BY <1>12 DEF MintToken, Serve
  <2> QED
    BY <1>8, <1>12, <2>1, MintFits, ServedFits
<1>13. CASE WriteView
  <2>1. stage = "serving"
    BY <1>13 DEF WriteView, Serve
  <2> QED
    BY <1>8, <1>13, <2>1, WriteViewFits, ServedFits
<1>14. CASE Downgrade
  <2>1. /\ stage = "down" /\ stage' = "down" /\ stored.version >= 16 /\ work' = work
        /\ stored' = [Down(stored.version, stored) EXCEPT !.version = Before(stored.version)]
    BY <1>14 DEF Downgrade
  <2>2. stored'.version \in Revisions /\ Fits(stored')
    BY <2>1, DowngradedFits DEF MigInv, BootInv
  <2>3. BarredOnly(stored')
    BY <2>1, DowngradedAccounts, BarredStill DEF MigInv, BootInv
  <2> QED
    BY <2>1, <2>2, <2>3 DEF BootInv
<1>15. CASE UNCHANGED migVars
  BY <1>15 DEF migVars, BootInv
<1> QED
  BY <1>1, <1>2, <1>3, <1>4, <1>5, <1>6, <1>7, <1>9, <1>10, <1>11, <1>12, <1>13, <1>14, <1>15
     DEF MigNext

-----------------------------------------------------------------------------
(* Theorems                                                                *)

\* From whatever database is restored, through boots that are refused or killed
\* anywhere, downgrades and requests: the database fits its version, and so
\* does what an upgrade under way has made of it.
THEOREM SchemaAlwaysFits == MigSpec => []MigTypeOK
<1>1. MigInit => MigInv /\ BootInv
  BY InvInit, BootInit
<1>2. MigInv /\ BootInv /\ [MigNext]_migVars => (MigInv /\ BootInv)'
  BY InvStep, BootStep
<1>3. BootInv => MigTypeOK
  BY SchemaFits DEF BootInv, MigTypeOK
<1> QED
  BY <1>1, <1>2, <1>3, PTL DEF MigSpec

\* main.py:51: what every answer of the API relies on, whatever was restored.
THEOREM ServingIsReady == MigSpec => []ServesReady
<1>1. MigInit => MigInv /\ BootInv
  BY InvInit, BootInit
<1>2. MigInv /\ BootInv /\ [MigNext]_migVars => (MigInv /\ BootInv)'
  BY InvStep, BootStep
<1>3. ASSUME MigInv, BootInv, stage = "serving"
      PROVE  /\ stored.version = Head
             /\ \A d \in stored.depts :
                  \/ Cardinality({r \in LinksOf(stored, d) : r.default}) = 1
                  \/ LinksOf(stored, d) = {} /\ CutShort(d)
             /\ stored.frameworks = {[key |-> f, prompt |-> Prompt[f]] : f \in Frameworks}
             /\ \A u \in stored.users : u.lower
             /\ \E u \in stored.users :
                  /\ u.name = SeedName /\ u.super /\ Default \in u.leads \union u.joins
                  /\ u.active \/ Barred
  <2>1. /\ stored.version = 23 /\ Fits(stored) /\ Admin(stored) /\ BarredOnly(stored)
        /\ stored.frameworks = CodeRows
    BY <1>3 DEF MigInv, BootInv, Head
  <2>2. LinksFit(stored.links, stored.depts, 23) /\ UsersFit(stored.users, stored.depts, 23)
    BY <2>1 DEF Fits
  <2>3. \A d \in stored.depts :
           \/ Cardinality({r \in LinksOf(stored, d) : r.default}) = 1
           \/ LinksOf(stored, d) = {} /\ CutShort(d)
    BY <2>2 DEF LinksFit, LinksOf
  <2>4. \A u \in stored.users : u.lower
    BY <2>2 DEF UsersFit
  <2> QED
    BY <2>1, <2>3, <2>4 DEF CodeRows, Admin, BarredOnly, Head
<1>4. MigInv /\ BootInv => ServesReady
  BY <1>3 DEF ServesReady
<1> QED
  BY <1>1, <1>2, <1>4, PTL DEF MigSpec

=============================================================================
