--------------------------- MODULE DirectoryProofs ---------------------------
(***************************************************************************)
(* Theorems about Directory, for any number of users, departments,         *)
(* frameworks and requests, and any mix of routes.                         *)
(***************************************************************************)
EXTENDS Directory, FiniteSetTheorems, TLAPS

Roles == {"none", "viewer", "analyst", "dept_lead"}

LinkShape == [on : SUBSET Frameworks, default : SUBSET Frameworks]

ReqShape == [pc : {"idle", "add", "count", "change", "user", "deactivate",
                   "create", "enable", "drop", "replace", "doomed"},
             dept : Depts, who : Users, role : Roles, seen : Roles,
             want : LinkShape]

\* What a request under way still relies on.
ReqOK(r, acc) ==
    /\ r.pc \in {"add", "deactivate"} => acc[r.who] # "none"
    /\ r.pc = "enable" => r.dept \notin Founded
    /\ r.pc = "replace" => \E f \in r.want.on : r.want.default = {f}

DirInv ==
    /\ DirTypeOK
    /\ links \in [Depts -> LinkShape]
    /\ req \in [Clients -> ReqShape]
    /\ \A d \in Founded : dept[d] # "new"
    /\ \A c \in Clients : ReqOK(req[c], account)

LEMMA Constants ==
  /\ Seed \in Users /\ Default \in Depts /\ Verdict \in Frameworks
  /\ Given \subseteq Roles /\ "none" \in Roles
  /\ NoRows \in LinkShape /\ AllFrameworks \in LinkShape
  /\ IdleReq \in ReqShape
<1>1. Seed \in Users /\ Default \in Depts /\ Verdict \in Frameworks
  BY UsersAssumption, DeptsAssumption, FrameworksAssumption
<1>2. NoRows \in LinkShape /\ AllFrameworks \in LinkShape
  BY <1>1 DEF NoRows, AllFrameworks, LinkShape
<1>3. IdleReq \in ReqShape
  BY <1>1, <1>2 DEF IdleReq, ReqShape, Roles
<1> QED
  BY <1>1, <1>2, <1>3, GivenAssumption DEF Roles

LEMMA DirInvInit == DirInit => DirInv
<1> SUFFICES ASSUME DirInit PROVE DirInv
  OBVIOUS
<1>1. Founded \subseteq Depts /\ Default \in Founded /\ Staff \subseteq Users
      /\ Seed \in Staff
  BY FoundedAssumption, UsersAssumption
<1>2. member \in [Depts -> [Users -> Roles]]
  BY DEF DirInit, Roles
<1>3. \A d \in Depts, u \in Users :
         member[d][u] # "none" => d \in Live /\ account[u] # "none"
  BY <1>1 DEF DirInit, Live
<1>4. links \in [Depts -> LinkShape]
  BY Constants DEF DirInit
<1>5. \A d \in Depts : links[d] # NoRows => d \in Live
  BY DEF DirInit, Live
<1>6. \A c \in Clients : req[c] = IdleReq
  BY DEF DirInit
<1>7. \A c \in Clients : ReqOK(req[c], account)
  BY <1>6 DEF ReqOK, IdleReq
<1>8. req \in [Clients -> ReqShape]
  BY Constants DEF DirInit
<1>9. /\ account \in [Users -> {"none", "active", "inactive"}]
      /\ super \subseteq {u \in Users : account[u] # "none"}
      /\ dept \in [Depts -> {"new", "live", "gone"}]
      /\ \A d \in Founded : dept[d] # "new"
  BY <1>1 DEF DirInit
<1> QED
  BY <1>2, <1>3, <1>4, <1>5, <1>7, <1>8, <1>9 DEF DirInv, DirTypeOK, Roles

\* What a request is when it has just been admitted.
Asked(r) ==
    /\ r.pc # "idle"
    /\ r \in ReqShape
    /\ ReqOK(r, account)
    /\ r.pc \in {"count", "change"} =>
         /\ r.seen = member[r.dept][r.who]
         /\ r.pc = "change" => ~(r.seen = "dept_lead" /\ r.role # "dept_lead")
    /\ r.pc = "deactivate" => \E by \in Users \ {r.who} : SuperAdmin(by)
    /\ r.pc \notin {"enable", "doomed"}

LEMMA AskIsAsked ==
  ASSUME DirInv, NEW c \in Clients, AskSome(c)
  PROVE  \E r : Asked(r) /\ Ask(c, r)
<1> USE Constants
<1> DEFINE goal == \E r : Asked(r) /\ Ask(c, r)
<1>1. ASSUME NEW d \in Depts, NEW u \in Users, NEW r \in Given \union {"none"},
             AskChange(c, d, u, r)
      PROVE  goal
  <2> DEFINE R == [IdleReq EXCEPT
              !.pc = IF member[d][u] = "dept_lead" /\ r # "dept_lead"
                     THEN "count" ELSE "change",
              !.dept = d, !.who = u, !.role = r, !.seen = member[d][u]]
  <2>1. Ask(c, R)
    BY <1>1 DEF AskChange
  <2>2. member[d][u] \in Roles /\ r \in Roles
    BY DEF DirInv, DirTypeOK, Roles
  <2>3. R \in ReqShape
    BY <2>2 DEF ReqShape
  <2>4. /\ R.pc = IF member[d][u] = "dept_lead" /\ r # "dept_lead"
                  THEN "count" ELSE "change"
        /\ R.dept = d /\ R.who = u /\ R.role = r /\ R.seen = member[d][u]
    BY DEF ReqShape
  <2>5. Asked(R)
    BY <2>3, <2>4 DEF Asked, ReqOK
  <2> QED
    BY <2>1, <2>5
<1>2. ASSUME NEW d \in Depts, NEW u \in Users, NEW r \in Given, AskAdd(c, d, u, r)
      PROVE  goal
  <2> DEFINE R == [IdleReq EXCEPT !.pc = "add", !.dept = d, !.who = u, !.role = r]
  <2>1. Ask(c, R) /\ account[u] # "none"
    BY <1>2 DEF AskAdd
  <2>2. R \in ReqShape
    BY DEF ReqShape
  <2>3. R.pc = "add" /\ R.who = u
    BY DEF ReqShape
  <2>4. Asked(R)
    BY <2>1, <2>2, <2>3 DEF Asked, ReqOK
  <2> QED
    BY <2>1, <2>4
<1>3. ASSUME NEW u \in Users, AskDeactivate(c, u)
      PROVE  goal
  <2> DEFINE R == [IdleReq EXCEPT !.pc = "deactivate", !.who = u]
  <2>1. Ask(c, R) /\ account[u] # "none" /\ \E by \in Users \ {u} : SuperAdmin(by)
    BY <1>3 DEF AskDeactivate
  <2>2. R \in ReqShape
    BY DEF ReqShape
  <2>3. R.pc = "deactivate" /\ R.who = u
    BY DEF ReqShape
  <2>4. Asked(R)
    BY <2>1, <2>2, <2>3 DEF Asked, ReqOK
  <2> QED
    BY <2>1, <2>4
<1>4. ASSUME NEW u \in Users, NEW s \in BOOLEAN, AskCreateUser(c, u, s)
      PROVE  goal
  <2> DEFINE R == [IdleReq EXCEPT !.pc = "user", !.who = u,
                                  !.role = IF s THEN "dept_lead" ELSE "none"]
  <2>1. Ask(c, R)
    BY <1>4 DEF AskCreateUser
  <2>2. R \in ReqShape /\ R.pc = "user"
    BY DEF ReqShape, Roles
  <2>3. Asked(R)
    BY <2>2 DEF Asked, ReqOK
  <2> QED
    BY <2>1, <2>3
<1>5. ASSUME NEW d \in Depts, AskCreateDept(c, d)
      PROVE  goal
  <2> DEFINE R == [IdleReq EXCEPT !.pc = "create", !.dept = d]
  <2>1. Ask(c, R)
    BY <1>5 DEF AskCreateDept
  <2>2. R \in ReqShape /\ R.pc = "create"
    BY DEF ReqShape
  <2>3. Asked(R)
    BY <2>2 DEF Asked, ReqOK
  <2> QED
    BY <2>1, <2>3
<1>6. ASSUME NEW d \in Depts, AskDrop(c, d)
      PROVE  goal
  <2> DEFINE R == [IdleReq EXCEPT !.pc = "drop", !.dept = d]
  <2>1. Ask(c, R)
    BY <1>6 DEF AskDrop
  <2>2. R \in ReqShape /\ R.pc = "drop"
    BY DEF ReqShape
  <2>3. Asked(R)
    BY <2>2 DEF Asked, ReqOK
  <2> QED
    BY <2>1, <2>3
<1>7. ASSUME NEW d \in Depts, NEW want \in Choices, AskReplace(c, d, want)
      PROVE  goal
  <2> DEFINE R == [IdleReq EXCEPT !.pc = "replace", !.dept = d, !.want = want]
  <2>1. Ask(c, R) /\ want.default \subseteq want.on
    BY <1>7 DEF AskReplace
  <2>2. want \in LinkShape /\ \E f \in Frameworks : want.default = {f}
    BY DEF Choices, LinkShape
  <2>3. R \in ReqShape /\ R.pc = "replace" /\ R.want = want
    BY <2>2 DEF ReqShape
  <2>4. \E f \in want.on : want.default = {f}
    BY <2>1, <2>2
  <2>5. Asked(R)
    BY <2>3, <2>4 DEF Asked, ReqOK
  <2> QED
    BY <2>1, <2>5
<1> QED
  BY <1>1, <1>2, <1>3, <1>4, <1>5, <1>6, <1>7 DEF AskSome

LEMMA InvAsk ==
  ASSUME DirInv, NEW c \in Clients, NEW r, Asked(r), Ask(c, r)
  PROVE  DirInv'
<1>1. req' = [req EXCEPT ![c] = r]
      /\ UNCHANGED <<scope, account, super, dept, member, links>>
  BY DEF Ask
<1>2. req' \in [Clients -> ReqShape]
  BY <1>1 DEF DirInv, Asked
<1>3. \A x \in Clients : ReqOK(req'[x], account')
  BY <1>1 DEF DirInv, Asked
<1> QED
  BY <1>1, <1>2, <1>3 DEF DirInv, DirTypeOK, Live, ReqOK

\* The requests' part of a step that ends one or moves it on.
LEMMA InvReq ==
  ASSUME DirInv, NEW c \in Clients, NEW r \in ReqShape,
         req' = [req EXCEPT ![c] = r],
         \A u \in Users : account[u] # "none" => account'[u] # "none",
         r.pc = "idle" \/ ReqOK(r, account')
  PROVE  /\ req' \in [Clients -> ReqShape]
         /\ \A x \in Clients : ReqOK(req'[x], account')
<1>1. req' \in [Clients -> ReqShape] /\ \A x \in Clients : req[x] \in ReqShape /\ ReqOK(req[x], account)
  BY DEF DirInv
<1>2. ASSUME NEW x \in Clients, x # c PROVE ReqOK(req'[x], account')
  <2>1. req'[x] = req[x] /\ req[x].who \in Users
    BY <1>1, <1>2 DEF ReqShape, DirInv
  <2> QED
    BY <1>1, <2>1 DEF ReqOK
<1>3. req'[c] = r
  BY DEF DirInv
<1>4. ReqOK(req'[c], account')
  BY <1>3 DEF ReqOK
<1> QED
  BY <1>1, <1>2, <1>4

\* DirInv from its parts, when accounts and superadmins stay.
LEMMA InvRows ==
  ASSUME DirInv, UNCHANGED <<account, super>>,
         dept' \in [Depts -> {"new", "live", "gone"}],
         member' \in [Depts -> [Users -> Roles]],
         \A d \in Depts, u \in Users :
           member'[d][u] # "none" => dept'[d] = "live" /\ account[u] # "none",
         links' \in [Depts -> LinkShape],
         \A d \in Depts : links'[d] # NoRows => dept'[d] = "live",
         \A d \in Founded : dept'[d] # "new",
         req' \in [Clients -> ReqShape],
         \A c \in Clients : ReqOK(req'[c], account')
  PROVE  DirInv'
<1>1. DirTypeOK'
  BY DEF DirInv, DirTypeOK, Live, Roles
<1> QED
  BY <1>1 DEF DirInv

\* The rows as they are.
LEMMA RowFacts ==
  ASSUME DirInv
  PROVE  /\ dept \in [Depts -> {"new", "live", "gone"}]
         /\ member \in [Depts -> [Users -> Roles]]
         /\ \A d \in Depts, u \in Users :
              member[d][u] # "none" => dept[d] = "live" /\ account[u] # "none"
         /\ links \in [Depts -> LinkShape]
         /\ \A d \in Depts : links[d] # NoRows => dept[d] = "live"
         /\ \A d \in Founded : dept[d] # "new"
         /\ \A c \in Clients : req[c] \in ReqShape /\ ReqOK(req[c], account)
  BY DEF DirInv, DirTypeOK, Live, Roles

LEMMA InvDone ==
  ASSUME DirInv, NEW c \in Clients, Done(c),
         \A u \in Users : account[u] # "none" => account'[u] # "none"
  PROVE  /\ req' \in [Clients -> ReqShape]
         /\ \A x \in Clients : ReqOK(req'[x], account')
<1>1. IdleReq.pc = "idle" /\ req' = [req EXCEPT ![c] = IdleReq]
  BY DEF Done, IdleReq
<1> QED
  BY <1>1, Constants, InvReq

LEMMA InvMember ==
  ASSUME DirInv, NEW c \in Clients, Add(c) \/ Change(c)
  PROVE  DirInv'
<1> DEFINE d == req[c].dept
           u == req[c].who
<1>1. d \in Depts /\ u \in Users /\ req[c].role \in Roles /\ ReqOK(req[c], account)
  BY RowFacts DEF ReqShape
<1>2. /\ UNCHANGED <<account, super, dept, links>> /\ Done(c)
      /\ \/ UNCHANGED member
         \/ /\ member' = [member EXCEPT ![d][u] = req[c].role]
            /\ d \in Live /\ account[u] # "none"
  <2>1. CASE Add(c)
    BY <1>1, <2>1 DEF Add, ReqOK
  <2>2. CASE Change(c)
    <3>1. member[d][u] # "none" => d \in Live /\ account[u] # "none"
      BY <1>1, RowFacts DEF Live
    <3> QED
      BY <2>2, <3>1 DEF Change
  <2> QED
    BY <2>1, <2>2
<1>3. member' \in [Depts -> [Users -> Roles]]
  <2>1. member[d] \in [Users -> Roles]
    BY <1>1, RowFacts
  <2>2. [member[d] EXCEPT ![u] = req[c].role] \in [Users -> Roles]
    BY <1>1, <2>1
  <2> QED
    BY <1>2, <2>2, RowFacts
<1>4. \A x \in Depts, v \in Users :
        member'[x][v] # "none" => dept'[x] = "live" /\ account[v] # "none"
  <2>1. CASE UNCHANGED member
    BY <1>2, <2>1, RowFacts
  <2>2. CASE /\ member' = [member EXCEPT ![d][u] = req[c].role]
             /\ d \in Live /\ account[u] # "none"
    BY <1>1, <1>2, <2>2, RowFacts DEF Live
  <2> QED
    BY <1>2, <2>1, <2>2
<1>5. req' \in [Clients -> ReqShape] /\ \A x \in Clients : ReqOK(req'[x], account')
  BY <1>2, InvDone
<1> QED
  BY <1>2, <1>3, <1>4, <1>5, RowFacts, InvRows

LEMMA InvCount ==
  ASSUME DirInv, NEW c \in Clients, Count(c)
  PROVE  DirInv'
<1>1. UNCHANGED <<account, super, dept, member, links>>
  BY DEF Count
<1>2. req' \in [Clients -> ReqShape] /\ \A x \in Clients : ReqOK(req'[x], account')
  <2>1. CASE Done(c)
    BY <1>1, <2>1, InvDone
  <2>2. CASE req' = [req EXCEPT ![c].pc = "change"]
    <3> DEFINE r == [req[c] EXCEPT !.pc = "change"]
    <3>1. r \in ReqShape /\ r.pc = "change"
      BY RowFacts DEF ReqShape
    <3>2. ReqOK(r, account')
      BY <3>1 DEF ReqOK
    <3> QED
      BY <1>1, <2>2, <3>1, <3>2, InvReq
  <2> QED
    BY <2>1, <2>2 DEF Count
<1> QED
  BY <1>1, <1>2, RowFacts, InvRows

LEMMA InvUser ==
  ASSUME DirInv, NEW c \in Clients, CreateUser(c) \/ Deactivate(c)
  PROVE  DirInv'
<1> DEFINE u == req[c].who
<1>1. u \in Users /\ ReqOK(req[c], account)
  BY RowFacts DEF ReqShape
<1>2. /\ account \in [Users -> {"none", "active", "inactive"}]
      /\ super \subseteq {v \in Users : account[v] # "none"}
  BY DEF DirInv, DirTypeOK
<1>3. /\ account' \in [Users -> {"none", "active", "inactive"}]
      /\ super' \subseteq {v \in Users : account'[v] # "none"}
      /\ \A v \in Users : account[v] # "none" => account'[v] # "none"
  <2>1. CASE CreateUser(c)
    BY <1>1, <1>2, <2>1 DEF CreateUser
  <2>2. CASE Deactivate(c)
    BY <1>1, <1>2, <2>2 DEF Deactivate
  <2> QED
    BY <2>1, <2>2
<1>4. UNCHANGED <<dept, member, links>> /\ Done(c)
  BY DEF CreateUser, Deactivate
<1>5. req' \in [Clients -> ReqShape] /\ \A x \in Clients : ReqOK(req'[x], account')
  BY <1>3, <1>4, InvDone
<1>6. DirTypeOK'
  BY <1>3, <1>4 DEF DirInv, DirTypeOK, Live
<1> QED
  BY <1>4, <1>5, <1>6 DEF DirInv

LEMMA InvCreateDept ==
  ASSUME DirInv, NEW c \in Clients, CreateDept(c)
  PROVE  DirInv'
<1> DEFINE d == req[c].dept
<1>1. d \in Depts
  BY RowFacts DEF ReqShape
<1>2. UNCHANGED <<account, super, member, links>>
  BY DEF CreateDept
<1>3. CASE UNCHANGED dept /\ Done(c)
  BY <1>2, <1>3, RowFacts, InvDone, InvRows
<1>4. CASE /\ dept[d] = "new" /\ dept' = [dept EXCEPT ![d] = "live"]
           /\ req' = [req EXCEPT ![c].pc = "enable"]
  <2> DEFINE r == [req[c] EXCEPT !.pc = "enable"]
  <2>1. r \in ReqShape /\ r.pc = "enable" /\ r.dept = d
    BY RowFacts DEF ReqShape
  <2>2. d \notin Founded
    BY <1>4, RowFacts
  <2>3. ReqOK(r, account')
    BY <2>1, <2>2 DEF ReqOK
  <2>4. req' \in [Clients -> ReqShape] /\ \A x \in Clients : ReqOK(req'[x], account')
    BY <1>2, <1>4, <2>1, <2>3, InvReq
  <2>5. /\ dept' \in [Depts -> {"new", "live", "gone"}]
        /\ \A x \in Depts : dept[x] = "live" => dept'[x] = "live"
        /\ \A x \in Founded : dept'[x] # "new"
    BY <1>1, <1>4, RowFacts, FoundedAssumption
  <2> QED
    BY <1>2, <2>4, <2>5, RowFacts, InvRows
<1> QED
  BY <1>3, <1>4 DEF CreateDept

LEMMA InvDrop ==
  ASSUME DirInv, NEW c \in Clients, Drop(c)
  PROVE  DirInv'
<1> DEFINE d == req[c].dept
<1>1. d \in Depts
  BY RowFacts DEF ReqShape
<1>2. /\ UNCHANGED <<account, super>> /\ Done(c)
      /\ dept' = [dept EXCEPT ![d] = "gone"]
      /\ member' = [member EXCEPT ![d] = [u \in Users |-> "none"]]
      /\ links' = [links EXCEPT ![d] = NoRows]
  BY DEF Drop
<1>3. req' \in [Clients -> ReqShape] /\ \A x \in Clients : ReqOK(req'[x], account')
  BY <1>2, InvDone
<1>4. /\ dept' \in [Depts -> {"new", "live", "gone"}]
      /\ \A x \in Founded : dept'[x] # "new"
  BY <1>1, <1>2, RowFacts, FoundedAssumption
<1>5. /\ member' \in [Depts -> [Users -> Roles]]
      /\ \A x \in Depts, u \in Users :
           member'[x][u] # "none" => dept'[x] = "live" /\ account[u] # "none"
  BY <1>1, <1>2, RowFacts DEF Roles
<1>6. /\ links' \in [Depts -> LinkShape]
      /\ \A x \in Depts : links'[x] # NoRows => dept'[x] = "live"
  BY <1>1, <1>2, RowFacts, Constants
<1> QED
  BY <1>2, <1>3, <1>4, <1>5, <1>6, InvRows

\* A request that is doomed relies on nothing any more.
LEMMA InvDoom ==
  ASSUME DirInv, NEW c \in Clients, NEW d, Doom(d, c), UNCHANGED account
  PROVE  /\ req' \in [Clients -> ReqShape]
         /\ \A x \in Clients : ReqOK(req'[x], account')
<1>1. ASSUME NEW x \in Clients PROVE req'[x] \in ReqShape /\ ReqOK(req'[x], account')
  <2>1. CASE req'[x] = IdleReq
    BY <2>1, Constants DEF ReqOK, IdleReq
  <2>2. CASE req'[x] = [req[x] EXCEPT !.pc = "doomed"]
    <3>1. req'[x] \in ReqShape /\ req'[x].pc = "doomed"
      BY <2>2, RowFacts DEF ReqShape
    <3> QED
      BY <3>1 DEF ReqOK
  <2>3. CASE req'[x] = req[x]
    BY <2>3, RowFacts DEF ReqOK
  <2> QED
    BY <2>1, <2>2, <2>3 DEF Doom
<1>2. req' \in [Clients -> ReqShape]
  BY <1>1 DEF Doom
<1> QED
  BY <1>1, <1>2

LEMMA InvLinks ==
  ASSUME DirInv, NEW c \in Clients, Enable(c) \/ Replace(c)
  PROVE  DirInv'
<1> DEFINE d == req[c].dept
<1>1. d \in Depts /\ req[c].want \in LinkShape
  BY RowFacts DEF ReqShape
<1>2. UNCHANGED <<account, super, dept, member>>
  BY DEF Enable, Replace
<1>3. CASE UNCHANGED links /\ Done(c)
  BY <1>2, <1>3, RowFacts, InvDone, InvRows
<1>4. ASSUME NEW w \in LinkShape, d \in Live, links' = [links EXCEPT ![d] = w],
             Doom(d, c)
      PROVE  DirInv'
  <2>1. req' \in [Clients -> ReqShape] /\ \A x \in Clients : ReqOK(req'[x], account')
    BY <1>2, <1>4, InvDoom
  <2>2. /\ links' \in [Depts -> LinkShape]
        /\ \A x \in Depts : links'[x] # NoRows => dept'[x] = "live"
    BY <1>1, <1>2, <1>4, RowFacts DEF Live
  <2> QED
    BY <1>2, <2>1, <2>2, RowFacts, InvRows
<1> QED
  BY <1>1, <1>3, <1>4, Constants DEF Enable, Replace

LEMMA InvRestart ==
  ASSUME DirInv, Restart
  PROVE  DirInv'
<1> USE Constants
<1>1. req' = [c \in Clients |-> IdleReq]
  BY DEF Restart
<1>2. req' \in [Clients -> ReqShape] /\ \A x \in Clients : ReqOK(req'[x], account')
  BY <1>1 DEF ReqOK, IdleReq
<1>3. UNCHANGED <<dept, links>> /\ EnsureSeedUser
  BY DEF Restart
<1>4. /\ account \in [Users -> {"none", "active", "inactive"}]
      /\ super \subseteq {v \in Users : account[v] # "none"}
  BY DEF DirInv, DirTypeOK
<1>5. /\ account' \in [Users -> {"none", "active", "inactive"}]
      /\ \A u \in Users : account[u] # "none" => account'[u] # "none"
      /\ account'[Seed] # "none"
  BY <1>3, <1>4 DEF EnsureSeedUser
<1>6. super' \subseteq {v \in Users : account'[v] # "none"}
  BY <1>3, <1>4, <1>5 DEF EnsureSeedUser
<1>7. member' \in [Depts -> [Users -> Roles]]
  BY <1>3, RowFacts DEF EnsureSeedUser, Roles
<1>8. \A d \in Depts, u \in Users :
        member'[d][u] # "none" => dept'[d] = "live" /\ account'[u] # "none"
  BY <1>3, <1>5, RowFacts DEF EnsureSeedUser, Live
<1>9. DirTypeOK'
  BY <1>3, <1>5, <1>6, <1>7, <1>8 DEF DirInv, DirTypeOK, Live, Roles
<1> QED
  BY <1>2, <1>3, <1>9 DEF DirInv

LEMMA InvDoomed ==
  ASSUME DirInv, NEW c \in Clients, Doomed(c) \/ KeepDept(c)
  PROVE  DirInv'
<1>1. Done(c) /\ UNCHANGED <<account, super, dept, member, links>>
  BY DEF Doomed, KeepDept, Refused
<1> QED
  BY <1>1, RowFacts, InvDone, InvRows

LEMMA DirInvStep == DirInv /\ [DirNext]_dirVars => DirInv'
<1> SUFFICES ASSUME DirInv, [DirNext]_dirVars PROVE DirInv'
  OBVIOUS
<1>1. CASE UNCHANGED dirVars
  BY <1>1 DEF dirVars, DirInv, DirTypeOK, Live, ReqOK
<1>2. ASSUME NEW c \in Clients, AskSome(c) PROVE DirInv'
  BY <1>2, AskIsAsked, InvAsk
<1>3. ASSUME NEW c \in Clients, DirStep(c), ~AskSome(c) PROVE DirInv'
  BY <1>3, InvMember, InvCount, InvUser, InvCreateDept, InvLinks, InvDoomed
     DEF DirStep
<1> QED
  BY <1>1, <1>2, <1>3, InvDrop, InvDoomed, InvRestart DEF DirNext

LEMMA DirInvAlways == DirSpec => []DirInv
  BY DirInvInit, DirInvStep, PTL DEF DirSpec

\* Memberships and framework rows are of departments and users that exist,
\* whatever requests overlap and wherever the process ends.
THEOREM DirTypeCorrect == DirSpec => []DirTypeOK
<1>1. DirInv => DirTypeOK
  BY DEF DirInv
<1> QED
  BY <1>1, DirInvAlways, PTL

-----------------------------------------------------------------------------
(* Frameworks                                                              *)

LEMMA DefaultInit == DirInit => OneDefault
<1> SUFFICES ASSUME DirInit PROVE OneDefault
  OBVIOUS
<1>1. \A d \in Live : links[d] = AllFrameworks
  BY DEF DirInit, Live
<1>2. Verdict \in AllFrameworks.on /\ AllFrameworks.default = {Verdict}
  BY Constants DEF AllFrameworks
<1> QED
  BY <1>1, <1>2 DEF OneDefault

\* A step that leaves the rows alone, and the creations under way.
LEMMA DefaultKept ==
  ASSUME OneDefault, UNCHANGED <<scope, links>>,
         \A d \in Depts : dept'[d] = "live" => dept[d] = "live",
         \A x \in Clients : req[x].pc = "enable" => req'[x] = req[x]
  PROVE  OneDefault'
  BY DEF OneDefault, Live

LEMMA OtherCreations ==
  ASSUME DirInv, NEW c \in Clients, req[c].pc # "enable", NEW r,
         req' = [req EXCEPT ![c] = r]
  PROVE  \A x \in Clients : req[x].pc = "enable" => req'[x] = req[x]
  BY DEF DirInv

LEMMA DefaultQuiet ==
  ASSUME DirInv, OneDefault, NEW c \in Clients,
         \/ AskSome(c) \/ Add(c) \/ Count(c) \/ Change(c) \/ CreateUser(c)
         \/ Deactivate(c) \/ Doomed(c) \/ KeepDept(c)
  PROVE  OneDefault'
<1>1. UNCHANGED <<scope, dept, links>> /\ req[c].pc # "enable"
      /\ \E r : req' = [req EXCEPT ![c] = r]
  <2>1. CASE AskSome(c)
    <3>1. req[c].pc = "idle"
      BY <2>1 DEF AskSome, Free
    <3>2. PICK r : Ask(c, r)
      BY <2>1, AskIsAsked
    <3> QED
      BY <3>1, <3>2 DEF Ask
  <2>2. CASE Count(c)
    BY <2>2 DEF Count, Done
  <2>3. CASE Add(c) \/ Change(c) \/ CreateUser(c) \/ Deactivate(c) \/ Doomed(c)
             \/ KeepDept(c)
    BY <2>3 DEF Add, Change, CreateUser, Deactivate, Doomed, KeepDept, Refused, Done
  <2> QED
    BY <2>1, <2>2, <2>3
<1> QED
  BY <1>1, OtherCreations, DefaultKept

LEMMA DefaultCreate ==
  ASSUME DirInv, OneDefault, NEW c \in Clients, CreateDept(c)
  PROVE  OneDefault'
<1> DEFINE d == req[c].dept
<1>1. UNCHANGED <<scope, links>> /\ req[c].pc = "create"
  BY DEF CreateDept
<1>2. CASE UNCHANGED dept /\ Done(c)
  BY <1>1, <1>2, OtherCreations, DefaultKept DEF Done
<1>3. CASE /\ dept[d] = "new" /\ dept' = [dept EXCEPT ![d] = "live"]
           /\ req' = [req EXCEPT ![c].pc = "enable"]
  <2>1. \A x \in Clients : req[x].pc = "enable" => req'[x] = req[x]
    BY <1>1, <1>3, OtherCreations
  <2>2. d \in Depts /\ req'[c].pc = "enable" /\ req'[c].dept = d
    BY <1>3, RowFacts DEF ReqShape, DirInv
  <2>3. links[d].on = {}
    BY <1>3, <2>2, RowFacts DEF NoRows
  <2>4. Live' = Live \union {d} /\ d \notin Live
    BY <1>3, <2>2, RowFacts DEF Live
  <2> QED
    BY <1>1, <2>1, <2>2, <2>3, <2>4 DEF OneDefault
<1> QED
  BY <1>2, <1>3 DEF CreateDept

LEMMA DefaultLinks ==
  ASSUME DirInv, OneDefault, NEW c \in Clients, Enable(c) \/ Replace(c)
  PROVE  OneDefault'
<1> DEFINE d == req[c].dept
<1>1. d \in Depts /\ UNCHANGED <<scope, dept>>
  BY RowFacts DEF ReqShape, Enable, Replace
<1>2. ASSUME NEW w \in LinkShape, \E f \in w.on : w.default = {f},
             links' = [links EXCEPT ![d] = w], Doom(d, c),
             req[c].pc = "enable" \/ req[c].pc = "replace"
      PROVE  OneDefault'
  <2>1. links'[d] = w /\ \A x \in Depts \ {d} : links'[x] = links[x]
    BY <1>1, <1>2, RowFacts
  <2>2. \A x \in Clients : req[x].pc = "enable" /\ req[x].dept # d => req'[x] = req[x]
    BY <1>2 DEF Doom
  <2>3. Live' = Live /\ Live \subseteq Depts
    BY <1>1 DEF Live
  <2> QED
    BY <1>1, <1>2, <2>1, <2>2, <2>3 DEF OneDefault
<1>3. CASE Replace(c)
  <2>1. CASE d \in Live
    <3>1. links' = [links EXCEPT ![d] = req[c].want] /\ Doom(d, c) /\ req[c].pc = "replace"
      BY <1>3, <2>1 DEF Replace
    <3>2. req[c].want \in LinkShape /\ \E f \in req[c].want.on : req[c].want.default = {f}
      BY <3>1, RowFacts DEF ReqShape, ReqOK
    <3> QED
      BY <1>2, <3>1, <3>2
  <2>2. CASE d \notin Live
    BY <1>1, <1>3, <2>2, OtherCreations, DefaultKept DEF Replace, Done
  <2> QED
    BY <2>1, <2>2
<1>4. CASE Enable(c)
  <2>1. CASE d \in Live /\ links[d].on = {}
    <3>1. links' = [links EXCEPT ![d] = AllFrameworks] /\ Doom(d, c) /\ req[c].pc = "enable"
      BY <1>4, <2>1 DEF Enable
    <3>2. AllFrameworks \in LinkShape
          /\ \E f \in AllFrameworks.on : AllFrameworks.default = {f}
      BY Constants DEF AllFrameworks
    <3> QED
      BY <1>2, <3>1, <3>2
  <2>2. CASE ~(d \in Live /\ links[d].on = {})
    <3>1. Done(c) /\ UNCHANGED links
      BY <1>4, <2>2 DEF Enable
    <3>2. \A x \in Clients \ {c} : req'[x] = req[x]
      BY <3>1 DEF Done, DirInv
    <3> QED
      BY <1>1, <2>2, <3>1, <3>2 DEF OneDefault, Live
  <2> QED
    BY <2>1, <2>2
<1> QED
  BY <1>3, <1>4

LEMMA DefaultDrop ==
  ASSUME DirInv, OneDefault, NEW c \in Clients, Drop(c)
  PROVE  OneDefault'
<1> DEFINE d == req[c].dept
<1>1. d \in Depts /\ req[c].pc = "drop" /\ UNCHANGED scope
  BY RowFacts DEF ReqShape, Drop
<1>2. \A x \in Clients : req[x].pc = "enable" => req'[x] = req[x]
  BY <1>1, OtherCreations DEF Drop, Done
<1>3. \A x \in Live' : x \in Live /\ links'[x] = links[x]
  BY <1>1, RowFacts DEF Drop, Live
<1> QED
  BY <1>1, <1>2, <1>3 DEF OneDefault

LEMMA DefaultRestart ==
  ASSUME DirInv, OneDefault, Restart
  PROVE  OneDefault'
<1>1. "crash" \in scope /\ UNCHANGED <<scope, dept, links>>
  BY DEF Restart
<1>2. ASSUME NEW c \in Clients, req[c].pc = "enable" PROVE req[c].dept \notin Founded
  BY <1>2, RowFacts DEF ReqOK
<1> QED
  BY <1>1, <1>2 DEF OneDefault, Live

LEMMA DefaultStep == DirInv /\ OneDefault /\ [DirNext]_dirVars => OneDefault'
<1> SUFFICES ASSUME DirInv, OneDefault, [DirNext]_dirVars PROVE OneDefault'
  OBVIOUS
<1>1. CASE UNCHANGED dirVars
  BY <1>1 DEF dirVars, OneDefault, Live
<1>2. ASSUME NEW c \in Clients, DirStep(c) PROVE OneDefault'
  BY <1>2, DefaultQuiet, DefaultCreate, DefaultLinks DEF DirStep
<1> QED
  BY <1>1, <1>2, DefaultQuiet, DefaultDrop, DefaultRestart DEF DirNext

\* A live department with frameworks has one default among them, however the
\* creation of departments, replacements of the set, deletions and restarts
\* interleave; and only a creation that is not over or was cut short leaves a
\* department without frameworks.
THEOREM DefaultIsOne == DirSpec => []OneDefault
  BY DirInvAlways, DefaultInit, DefaultStep, PTL DEF DirSpec

-----------------------------------------------------------------------------
(* Requests one at a time                                                  *)

Sequential == "overlap" \notin scope

Alone ==
    Sequential =>
        \A c, x \in Clients : req[c].pc # "idle" /\ req[x].pc # "idle" => c = x

\* What a step does to the requests of others.
LEMMA StepOfOne ==
  ASSUME DirInv, NEW c \in Clients, DirStep(c) \/ Drop(c) \/ KeepDept(c)
  PROVE  /\ UNCHANGED scope
         /\ req[c].pc # "idle" \/ Free(c)
         /\ \A x \in Clients \ {c} :
              \/ req'[x] = req[x]
              \/ req[x].pc = "replace" /\ req'[x].pc = "doomed"
<1>0. req \in [Clients -> ReqShape]
  BY DEF DirInv
<1>1. CASE AskSome(c)
  <2>1. PICK r : Ask(c, r)
    BY <1>1, AskIsAsked
  <2>2. Free(c)
    BY <1>1 DEF AskSome
  <2> QED
    BY <1>0, <2>1, <2>2 DEF Ask
<1>2. CASE Add(c) \/ Change(c) \/ CreateUser(c) \/ Deactivate(c) \/ Doomed(c) \/ Drop(c)
         \/ KeepDept(c)
  BY <1>0, <1>2 DEF Add, Change, CreateUser, Deactivate, Doomed, Drop, KeepDept,
                    Refused, Done
<1>3. CASE Count(c)
  BY <1>0, <1>3 DEF Count, Done
<1>4. CASE CreateDept(c)
  BY <1>0, <1>4 DEF CreateDept, Done
<1>5. CASE Enable(c) \/ Replace(c)
  <2>1. UNCHANGED scope /\ req[c].pc # "idle" /\ (Done(c) \/ Doom(req[c].dept, c))
    BY <1>5 DEF Enable, Replace
  <2>2. ASSUME NEW x \in Clients \ {c}
        PROVE  \/ req'[x] = req[x]
               \/ req[x].pc = "replace" /\ req'[x].pc = "doomed"
    <3>1. req[x] \in ReqShape
      BY <1>0
    <3>2. CASE Done(c)
      BY <1>0, <3>2 DEF Done
    <3>3. CASE Doom(req[c].dept, c)
      BY <3>1, <3>3 DEF Doom, ReqShape
    <3> QED
      BY <2>1, <3>2, <3>3
  <2> QED
    BY <2>1, <2>2
<1> QED
  BY <1>1, <1>2, <1>3, <1>4, <1>5 DEF DirStep

\* One at a time, the others are idle and stay so.
LEMMA OthersIdle ==
  ASSUME DirInv, Alone, Sequential, NEW c \in Clients, DirStep(c) \/ Drop(c) \/ KeepDept(c)
  PROVE  \A x \in Clients \ {c} : req[x].pc = "idle" /\ req'[x] = req[x]
<1>1. \A x \in Clients \ {c} : req[x].pc = "idle"
  BY StepOfOne DEF Alone, Free, Sequential
<1> QED
  BY <1>1, StepOfOne

LEMMA AloneStep == DirInv /\ Alone /\ [DirNext]_dirVars => Alone'
<1> SUFFICES ASSUME DirInv, Alone, [DirNext]_dirVars PROVE Alone'
  OBVIOUS
<1>1. CASE UNCHANGED dirVars
  BY <1>1 DEF dirVars, Alone, Sequential
<1>2. CASE Restart
  BY <1>2 DEF Restart, Alone, IdleReq
<1>3. ASSUME NEW c \in Clients, DirStep(c) \/ Drop(c) \/ KeepDept(c) PROVE Alone'
  <2>1. UNCHANGED scope
    BY <1>3, StepOfOne
  <2>2. Sequential => \A x \in Clients \ {c} : req'[x].pc = "idle"
    BY <1>3, OthersIdle
  <2> QED
    BY <2>1, <2>2 DEF Alone, Sequential
<1> QED
  BY <1>1, <1>2, <1>3 DEF DirNext

LEMMA AloneAlways == DirSpec => []Alone
<1>1. DirInit => Alone
  BY DEF DirInit, Alone, IdleReq
<1> QED
  BY <1>1, AloneStep, DirInvAlways, PTL DEF DirSpec

\* Whoever is about to be deactivated is not the only active superadmin.
AdminInv ==
    Sequential =>
        /\ \E u \in Users : SuperAdmin(u)
        /\ \A c \in Clients : req[c].pc = "deactivate" =>
             \E by \in Users \ {req[c].who} : SuperAdmin(by)

LEMMA AdminInit == DirInit => AdminInv
<1> SUFFICES ASSUME DirInit PROVE AdminInv
  OBVIOUS
<1>1. Seed \in Staff /\ Seed \in Users
  BY UsersAssumption
<1>2. SuperAdmin(Seed)
  BY <1>1 DEF DirInit, SuperAdmin, CurrentUser
<1> QED
  BY <1>1, <1>2 DEF DirInit, AdminInv, IdleReq

\* Admins stay, and nobody new is about to be deactivated.
LEMMA AdminKept ==
  ASSUME AdminInv, UNCHANGED scope,
         \A u \in Users : SuperAdmin(u) => SuperAdmin(u)',
         \A x \in Clients : req'[x].pc = "deactivate" => req'[x] = req[x]
  PROVE  AdminInv'
<1> SUFFICES ASSUME Sequential' PROVE /\ \E u \in Users : SuperAdmin(u)'
                                      /\ \A c \in Clients : req'[c].pc = "deactivate" =>
                                           \E by \in Users \ {req'[c].who} : SuperAdmin(by)'
  BY DEF AdminInv
<1>1. Sequential
  BY DEF Sequential
<1> QED
  BY <1>1 DEF AdminInv

LEMMA AdminStep == DirInv /\ Alone /\ AdminInv /\ [DirNext]_dirVars => AdminInv'
<1> SUFFICES ASSUME DirInv, Alone, AdminInv, [DirNext]_dirVars
             PROVE  AdminInv'
  OBVIOUS
<1> SUFFICES ASSUME Sequential
             PROVE  AdminInv'
  <2>1. CASE Sequential
    BY <2>1
  <2>2. CASE ~Sequential
    <3>1. UNCHANGED scope
      <4>1. CASE UNCHANGED dirVars
        BY <4>1 DEF dirVars
      <4>2. CASE Restart
        BY <4>2 DEF Restart
      <4>3. ASSUME NEW c \in Clients, DirStep(c) \/ Drop(c) \/ KeepDept(c) PROVE UNCHANGED scope
        BY <4>3, StepOfOne
      <4> QED
        BY <4>1, <4>2, <4>3 DEF DirNext
    <3> QED
      BY <2>2, <3>1 DEF AdminInv, Sequential
  <2> QED
    BY <2>1, <2>2
<1>0. req \in [Clients -> ReqShape]
  BY DEF DirInv
<1>1. CASE UNCHANGED dirVars
  BY <1>1, AdminKept DEF dirVars, SuperAdmin, CurrentUser
<1>2. CASE Restart
  <2>1. \A u \in Users : SuperAdmin(u) => SuperAdmin(u)'
    BY <1>2 DEF Restart, EnsureSeedUser, SuperAdmin, CurrentUser, DirInv, DirTypeOK
  <2>2. \A x \in Clients : req'[x].pc = "idle"
    BY <1>2 DEF Restart, IdleReq
  <2> QED
    BY <1>2, <2>1, <2>2, AdminKept DEF Restart
<1>3. ASSUME NEW c \in Clients, AskSome(c) PROVE AdminInv'
  <2>1. PICK r : Asked(r) /\ Ask(c, r)
    BY <1>3, AskIsAsked
  <2>2. req' = [req EXCEPT ![c] = r] /\ UNCHANGED <<scope, account, super>>
    BY <2>1 DEF Ask
  <2>3. r.pc = "deactivate" => \E by \in Users \ {r.who} : SuperAdmin(by)
    BY <2>1 DEF Asked
  <2> QED
    BY <1>0, <2>2, <2>3 DEF AdminInv, SuperAdmin, CurrentUser, Sequential
<1>4. ASSUME NEW c \in Clients, Deactivate(c) PROVE AdminInv'
  <2>1. \A x \in Clients \ {c} : req[x].pc = "idle" /\ req'[x] = req[x]
    BY <1>4, OthersIdle DEF DirStep
  <2>2. req'[c].pc = "idle"
    BY <1>0, <1>4 DEF Deactivate, Done, IdleReq
  <2>3. req[c].pc = "deactivate" /\ UNCHANGED <<scope, super>>
        /\ account' = [account EXCEPT ![req[c].who] = "inactive"]
    BY <1>4 DEF Deactivate
  <2>4. PICK by \in Users \ {req[c].who} : SuperAdmin(by)
    BY <2>3 DEF AdminInv
  <2>5. SuperAdmin(by)'
    BY <2>3, <2>4 DEF SuperAdmin, CurrentUser, DirInv, DirTypeOK
  <2> QED
    BY <2>1, <2>2, <2>5 DEF AdminInv
<1>5. ASSUME NEW c \in Clients, DirStep(c) \/ Drop(c) \/ KeepDept(c), ~AskSome(c), ~Deactivate(c)
      PROVE  AdminInv'
  <2>1. \A x \in Clients \ {c} : req'[x] = req[x]
    BY <1>5, OthersIdle
  <2>2. req'[c].pc # "deactivate"
    <3>0. req[c] \in ReqShape
      BY <1>0
    <3>1. CASE Done(c)
      BY <1>0, <3>1 DEF Done, IdleReq
    <3>2. CASE Count(c)
      BY <1>0, <3>0, <3>2 DEF Count, Done, IdleReq, ReqShape
    <3>3. CASE CreateDept(c)
      BY <1>0, <3>0, <3>3 DEF CreateDept, Done, IdleReq, ReqShape
    <3>4. CASE Enable(c) \/ Replace(c)
      BY <1>0, <3>4 DEF Enable, Replace, Done, Doom, IdleReq
    <3> QED
      BY <1>5, <3>1, <3>2, <3>3, <3>4
         DEF DirStep, Add, Change, CreateUser, Drop, Doomed, KeepDept, Refused
  <2>3. \A u \in Users : SuperAdmin(u) => SuperAdmin(u)'
    <3>1. CASE CreateUser(c)
      BY <3>1 DEF CreateUser, SuperAdmin, CurrentUser, DirInv, DirTypeOK
    <3>2. CASE ~CreateUser(c)
      <4>1. UNCHANGED <<account, super>>
        BY <1>5, <3>2 DEF DirStep, Add, Count, Change, CreateDept, Enable, Replace,
                          Doomed, KeepDept, Refused, Drop
      <4> QED
        BY <4>1 DEF SuperAdmin, CurrentUser
    <3> QED
      BY <3>1, <3>2
  <2>4. UNCHANGED scope
    BY <1>5, StepOfOne
  <2> QED
    BY <2>1, <2>2, <2>3, <2>4, AdminKept
<1> QED
  BY <1>1, <1>2, <1>3, <1>4, <1>5 DEF DirNext, DirStep

\* With requests one at a time the rule that nobody deactivates themselves is
\* enough: some superadmin is always active, and so can always log in, for any
\* number of users and through restarts.
THEOREM AdminAlwaysRemains == DirSpec => []AdminRemains
<1>1. AdminInv => AdminRemains
  BY DEF AdminInv, AdminRemains, Sequential
<1> QED
  BY <1>1, AdminInit, AdminStep, AloneAlways, DirInvAlways, PTL DEF DirSpec

\* One at a time, a change finds the membership it read, and takes the role of
\* a lead only where there is another one.
LeadOK(r, m) ==
    /\ r.pc \in {"count", "change"} => r.seen = m[r.dept][r.who]
    /\ (r.pc = "change" /\ r.seen = "dept_lead" /\ r.role # "dept_lead") =>
         \E v \in Users : v # r.who /\ m[r.dept][v] = "dept_lead"

LeadInv == Sequential => \A c \in Clients : LeadOK(req[c], member)

LEMMA AnotherLead ==
  ASSUME NEW d, NEW u \in Users, ~(Cardinality(Leads(d)) <= 1)
  PROVE  \E v \in Users : v # u /\ member[d][v] = "dept_lead"
<1> SUFFICES ASSUME Leads(d) \subseteq {u} PROVE FALSE
  BY DEF Leads
<1>1. IsFiniteSet({u}) /\ Cardinality({u}) = 1
  BY FS_Singleton
<1>2. Cardinality(Leads(d)) <= Cardinality({u})
  BY <1>1, FS_Subset
<1> QED
  BY <1>1, <1>2

LEMMA LeadInvStep == DirInv /\ Alone /\ LeadInv /\ [DirNext]_dirVars => LeadInv'
<1> SUFFICES ASSUME DirInv, Alone, LeadInv, [DirNext]_dirVars, Sequential'
             PROVE  \A x \in Clients : LeadOK(req'[x], member')
  BY DEF LeadInv
<1>0. req \in [Clients -> ReqShape]
  BY DEF DirInv
<1>1. CASE UNCHANGED dirVars
  BY <1>1 DEF dirVars, LeadInv, Sequential
<1>2. CASE Restart
  BY <1>2 DEF Restart, IdleReq, LeadOK
<1>3. ASSUME NEW c \in Clients, DirStep(c) \/ Drop(c) \/ KeepDept(c)
      PROVE  \A x \in Clients : LeadOK(req'[x], member')
  <2>1. Sequential
    BY <1>3, StepOfOne DEF Sequential
  <2>2. \A x \in Clients \ {c} : req'[x].pc = "idle"
    BY <1>3, <2>1, OthersIdle
  <2>3. \A x \in Clients \ {c} : LeadOK(req'[x], member')
    BY <2>2 DEF LeadOK
  <2>4. req[c] \in ReqShape /\ LeadOK(req[c], member)
    BY <1>0, <2>1 DEF LeadInv
  <2>5. LeadOK(req'[c], member')
    <3>1. CASE AskSome(c)
      <4>1. PICK r : Asked(r) /\ Ask(c, r)
        BY <3>1, AskIsAsked
      <4>2. req'[c] = r /\ UNCHANGED member
        BY <1>0, <4>1 DEF Ask
      <4> QED
        BY <4>1, <4>2 DEF Asked, LeadOK
    <3>2. CASE Done(c)
      BY <1>0, <3>2 DEF Done, IdleReq, LeadOK
    <3>3. CASE Count(c) /\ ~Done(c)
      <4> DEFINE r == req[c]
                 n == [r EXCEPT !.pc = "change"]
      <4>1. /\ ~(Cardinality(Leads(r.dept)) <= 1)
            /\ req' = [req EXCEPT ![c].pc = "change"]
            /\ UNCHANGED member /\ r.pc = "count"
        BY <3>3 DEF Count
      <4>2. req'[c] = n
        BY <1>0, <4>1
      <4>3. n.seen = r.seen /\ n.dept = r.dept /\ n.who = r.who /\ r.who \in Users
        BY <2>4 DEF ReqShape
      <4>4. \E v \in Users : v # r.who /\ member[r.dept][v] = "dept_lead"
        BY <4>1, <4>3, AnotherLead
      <4>5. r.seen = member[r.dept][r.who]
        BY <2>4, <4>1 DEF LeadOK
      <4> QED
        BY <4>1, <4>2, <4>3, <4>4, <4>5 DEF LeadOK
    <3>4. CASE CreateDept(c) /\ ~Done(c)
      <4>1. req'[c].pc = "enable"
        BY <1>0, <2>4, <3>4 DEF CreateDept, ReqShape
      <4> QED
        BY <4>1 DEF LeadOK
    <3>5. CASE Enable(c) \/ Replace(c)
      <4>1. req'[c].pc = "idle"
        BY <1>0, <3>5 DEF Enable, Replace, Done, Doom, IdleReq
      <4> QED
        BY <4>1 DEF LeadOK
    <3> QED
      BY <1>3, <3>1, <3>2, <3>3, <3>4, <3>5
         DEF DirStep, Add, Change, CreateUser, Deactivate, Drop, Doomed, KeepDept,
             Refused
  <2> QED
    BY <2>3, <2>5
<1> QED
  BY <1>1, <1>2, <1>3 DEF DirNext

LEMMA LeadInvAlways == DirSpec => []LeadInv
<1>1. DirInit => LeadInv
  BY DEF DirInit, LeadInv, LeadOK, IdleReq
<1> QED
  BY <1>1, LeadInvStep, AloneAlways, DirInvAlways, PTL DEF DirSpec

LEMMA LeadStays ==
  ASSUME DirInv, LeadInv, [DirNext]_dirVars, NEW d \in Live, Leads(d) # {},
         Sequential, dept'[d] = "live"
  PROVE  Leads(d)' # {}
<1>0. d \in Depts /\ member \in [Depts -> [Users -> Roles]]
  BY RowFacts DEF Live
<1>1. CASE UNCHANGED member
  BY <1>1 DEF Leads
<1>2. CASE Restart
  BY <1>0, <1>2 DEF Restart, EnsureSeedUser, Leads
<1>3. ASSUME NEW c \in Clients, Drop(c) PROVE Leads(d)' # {}
  <2>1. d # req[c].dept
    BY <1>0, <1>3, RowFacts DEF Drop
  <2>2. member'[d] = member[d]
    BY <1>0, <1>3, <2>1 DEF Drop
  <2> QED
    BY <2>2 DEF Leads
<1>4. ASSUME NEW c \in Clients, Add(c) \/ Change(c), ~UNCHANGED member
      PROVE  Leads(d)' # {}
  <2> DEFINE x == req[c].dept
             u == req[c].who
  <2>0. x \in Depts /\ u \in Users
    BY RowFacts DEF ReqShape
  <2>1. member' = [member EXCEPT ![x][u] = req[c].role]
    BY <1>4 DEF Add, Change
  <2>2. CASE x # d
    <3>1. member'[d] = member[d]
      BY <1>0, <2>1, <2>2
    <3> QED
      BY <3>1 DEF Leads
  <2>3. CASE x = d
    <3>1. \A v \in Users : v # u => member'[d][v] = member[d][v]
      BY <1>0, <2>1, <2>3
    <3>2. member'[d][u] = req[c].role
      BY <1>0, <2>0, <2>1, <2>3
    <3>3. CASE member[d][u] # "dept_lead"
      BY <3>1, <3>3 DEF Leads
    <3>4. CASE req[c].role = "dept_lead"
      BY <2>0, <3>2, <3>4 DEF Leads
    <3>5. CASE member[d][u] = "dept_lead" /\ req[c].role # "dept_lead"
      <4>1. req[c].pc = "change"
        BY <1>4, <2>3, <3>5 DEF Add, Change
      <4>2. LeadOK(req[c], member)
        BY DEF LeadInv
      <4>3. \E v \in Users : v # u /\ member[d][v] = "dept_lead"
        BY <2>3, <3>5, <4>1, <4>2 DEF LeadOK
      <4> QED
        BY <3>1, <4>3 DEF Leads
    <3> QED
      BY <3>3, <3>4, <3>5
  <2> QED
    BY <2>2, <2>3
<1>5. ASSUME NEW c \in Clients, DirStep(c), ~Add(c), ~Change(c)
      PROVE  UNCHANGED member
  <2>1. AskSome(c) => UNCHANGED member
    BY AskIsAsked DEF Ask
  <2> QED
    BY <1>5, <2>1
       DEF DirStep, Count, CreateUser, Deactivate, CreateDept, Enable, Replace,
           Doomed, Refused
<1>6. CASE UNCHANGED dirVars \/ \E c \in Clients : KeepDept(c)
  BY <1>1, <1>6 DEF dirVars, KeepDept, Refused
<1> QED
  BY <1>1, <1>2, <1>3, <1>4, <1>5, <1>6 DEF DirNext

\* With requests one at a time, counting the leads before the role of one is
\* taken is enough: a live department that has a lead keeps one.
THEOREM LeadIsKept == DirSpec => LeadKept
<1>1. DirInv /\ LeadInv /\ [DirNext]_dirVars =>
        [\A d \in Live :
           (Leads(d) # {} /\ "overlap" \notin scope /\ dept'[d] = "live")
              => Leads(d)' # {}]_dirVars
  BY LeadStays DEF Sequential
<1> QED
  BY <1>1, DirInvAlways, LeadInvAlways, PTL DEF DirSpec, LeadKept

=============================================================================
