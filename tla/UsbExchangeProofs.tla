--------------------------- MODULE UsbExchangeProofs ---------------------------
(***************************************************************************)
(* What the USB tab reports is true and what is complete is not written     *)
(* again: a proof of TypeOK, ReportsAreTrue and SavedUnderNewNames of        *)
(* UsbExchange, for any visits, files, names and actions, however many      *)
(* visits are at work at once.                                              *)
(*                                                                          *)
(* An action keeps a list of the copies it prepares.  The invariant says    *)
(* what is at the path of each: nothing, as long as the copy has not begun, *)
(* then a partial file, then the whole of it.  It says so of every action   *)
(* that no other one has crossed; that one is alone on its folder.          *)
(***************************************************************************)
EXTENDS UsbExchange, SequenceTheorems, FiniteSetTheorems, TLAPS

-----------------------------------------------------------------------------
(* Directories and free paths *)

\* A file is written at p, and the others stay as they are.
LEMMA Written ==
    ASSUME NEW dir, NEW p, NEW x
    PROVE  /\ DOMAIN WriteFile(dir, p, x) = DOMAIN dir \cup {p} /\ WriteFile(dir, p, x)[p] = x
           /\ \A q \in DOMAIN dir \ {p} : WriteFile(dir, p, x)[q] = dir[q]
BY DEF WriteFile

\* A nonempty set of numbers has a least one, and Min chooses it.
LEMMA MinIsMember ==
    ASSUME NEW K \in SUBSET Nat, K # {}
    PROVE  Min(K) \in K
<1> DEFINE R == {pair \in Nat \X Nat : pair[1] < pair[2]}
<1>1. IsWellFoundedOn(R, Nat)
  BY NatLessThanWellFounded DEF OpToRel
<1>2. PICK k \in K : \A i \in K : <<i, k>> \notin R
  <2> HIDE DEF R
  <2> QED BY <1>1, WFMin
<1>3. \A i \in K : k <= i
  <2> SUFFICES ASSUME NEW i \in K, i < k PROVE FALSE
    OBVIOUS
  <2>1. <<i, k>> \in Nat \X Nat /\ <<i, k>>[1] < <<i, k>>[2]
    OBVIOUS
  <2> QED BY <1>2, <2>1
<1> QED BY <1>3 DEF Min

\* One more candidate than there are paths is enough to find one that is free.
LEMMA SomeIsFree ==
    ASSUME NEW taken, IsFiniteSet(taken), NEW f \in [1..(Cardinality(taken) + 1) -> Paths],
           \A i, j \in 1..(Cardinality(taken) + 1) : i # j => f[i] # f[j]
    PROVE  LET k == Min({i \in 1..(Cardinality(taken) + 1) : f[i] \notin taken})
           IN  k \in Nat \ {0} /\ k \in 1..(Cardinality(taken) + 1) /\ f[k] \notin taken
<1> DEFINE n == Cardinality(taken) + 1
           K == {i \in 1..n : f[i] \notin taken}
<1>1. Cardinality(taken) \in Nat
  BY FS_CardinalityType
<1>2. IsFiniteSet(1..n) /\ Cardinality(1..n) = n
  BY <1>1, FS_Interval
<1>3. K # {}
  <2> SUFFICES ASSUME \A i \in 1..n : f[i] \in taken PROVE FALSE
    OBVIOUS
  <2>1. f \in [1..n -> taken]
    OBVIOUS
  <2>2. Cardinality(taken) < Cardinality(1..n)
    BY <1>1, <1>2
  <2> QED BY <1>2, <2>1, <2>2, FS_PigeonHole, ZenonT(40)
<1>4. K \subseteq Nat
  BY <1>1
<1>5. Min(K) \in K
  BY <1>3, <1>4, MinIsMember
<1> QED BY <1>1, <1>5

\* The path that is found for a name is a path and does not exist.
LEMMA FreePathIsFree ==
    ASSUME NEW dir, IsFiniteSet(DOMAIN dir), NEW n \in Names
    PROVE  FreePath(dir, n) \in Paths /\ FreePath(dir, n) \notin DOMAIN dir
<1> DEFINE taken == DOMAIN dir
           f == [k \in 1..(Cardinality(taken) + 1) |-> <<n, k, 1>>]
           k0 == Min({i \in 1..(Cardinality(taken) + 1) : f[i] \notin taken})
<1>1. Cardinality(taken) \in Nat
  BY FS_CardinalityType
<1>2. f \in [1..(Cardinality(taken) + 1) -> Paths]
  BY <1>1 DEF Paths
<1>3. \A i, j \in 1..(Cardinality(taken) + 1) : i # j => f[i] # f[j]
  OBVIOUS
<1>4. k0 \in Nat \ {0} /\ k0 \in 1..(Cardinality(taken) + 1) /\ f[k0] \notin taken
  <2> HIDE DEF f
  <2> QED BY <1>2, <1>3, SomeIsFree
<1>5. {i \in 1..(Cardinality(taken) + 1) : f[i] \notin taken}
         = {k \in 1..(Cardinality(DOMAIN dir) + 1) : <<n, k, 1>> \notin DOMAIN dir}
  OBVIOUS
<1>6. FreePath(dir, n) = <<n, k0, 1>>
  BY <1>5 DEF FreePath
<1>7. f[k0] = <<n, k0, 1>>
  BY <1>4
<1> QED BY <1>4, <1>6, <1>7 DEF Paths

\* So is the one that is found among paths that are not reserved either.
LEMMA FreeReservedIsFree ==
    ASSUME NEW dir, IsFiniteSet(DOMAIN dir), NEW n \in Names, NEW reserved, IsFiniteSet(reserved)
    PROVE  /\ FreeReservedPath(dir, n, reserved) \in Paths
           /\ FreeReservedPath(dir, n, reserved) \notin DOMAIN dir
           /\ FreeReservedPath(dir, n, reserved) \notin reserved
<1> DEFINE taken == DOMAIN dir \cup reserved
           free == FreePath(dir, n)
           Nth(k) == IF free[2] = 1 THEN <<n, k, 1>> ELSE <<n, free[2], k>>
           f == [k \in 1..(Cardinality(taken) + 1) |-> Nth(k)]
           k0 == Min({i \in 1..(Cardinality(taken) + 1) : f[i] \notin taken})
<1>1. IsFiniteSet(taken) /\ Cardinality(taken) \in Nat
  BY FS_Union, FS_CardinalityType
<1>2. free[2] \in Nat \ {0}
  BY FreePathIsFree DEF Paths
<1> HIDE DEF free
<1>3. f \in [1..(Cardinality(taken) + 1) -> Paths]
  BY <1>1, <1>2 DEF Paths
<1>4. \A i, j \in 1..(Cardinality(taken) + 1) : i # j => f[i] # f[j]
  OBVIOUS
<1>5. k0 \in Nat \ {0} /\ k0 \in 1..(Cardinality(taken) + 1) /\ f[k0] \notin taken
  <2> HIDE DEF f
  <2> QED BY <1>1, <1>3, <1>4, SomeIsFree
<1>6. {i \in 1..(Cardinality(taken) + 1) : f[i] \notin taken}
         = {k \in 1..(Cardinality(taken) + 1) : Nth(k) \notin taken}
  OBVIOUS
<1>7. FreeReservedPath(dir, n, reserved) = Nth(k0)
  BY <1>6 DEF FreeReservedPath, free
<1>8. f[k0] = Nth(k0) /\ f[k0] \in Paths
  BY <1>3, <1>5
<1> QED BY <1>5, <1>7, <1>8

\* An order of a finite set has its members, and there is one if it has one.
LEMMA OrdersAreComplete ==
    ASSUME NEW S, IsFiniteSet(S), NEW order \in SetToSeqs(S)
    PROVE  order \in Seq(S) /\ (S # {} => order # <<>>)
<1>1. Cardinality(S) \in Nat /\ (S # {} => Cardinality(S) # 0)
  BY FS_CardinalityType, FS_EmptySet
<1>2. order \in [1..Cardinality(S) -> S]
  BY DEF SetToSeqs
<1>3. order \in Seq(S) /\ Len(order) = Cardinality(S)
  BY <1>1, <1>2
<1> QED BY <1>1, <1>3

-----------------------------------------------------------------------------
(* Type correctness *)

Content == Names \cup PcFiles \cup {Partial}
Copy == [what : Names \cup PcFiles, path : Paths]
AllPlaces == {"idle", "refresh", "detect", "mkdir", "list", "name", "pick",
              "write", "stat", "get", "put", "scan", "clear"}

\* An action is only at the places it passes through.
Places(j) ==
    CASE j = "none"    -> {"idle"}
      [] j = "refresh" -> {"refresh"}
      [] j = "detect"  -> {"detect"}
      [] j = "pull"    -> {"detect", "mkdir", "list", "name", "get", "refresh"}
      [] j = "push"    -> {"detect", "pick", "write", "stat", "mkdir", "put", "refresh"}
      [] j = "export"  -> {"pick", "write", "refresh"}
      [] j = "clear"   -> {"scan", "clear", "refresh"}

\* A visit with action j at place a: what it has still to look at (l), the copies it
\* prepares (s) and how many are through (n), whether one is under way (o) and
\* whether there was an error (f).
VisitOK(j, a, l, s, n, o, f) ==
    /\ j \in Jobs \cup {"none"} /\ a \in Places(j) \cup {"idle"}
    /\ a = "idle" => l = <<>> /\ s = <<>> /\ n = 0 /\ ~o /\ ~f
    /\ l \in Seq(Names \cup PcFiles \cup Paths)
    /\ s \in Seq(Copy) /\ n \in 0..Len(s)
    /\ o \in BOOLEAN /\ (o => a \in {"get", "put"} /\ n < Len(s))
    /\ f \in BOOLEAN
    /\ (a = "detect" /\ j = "push") \/ a = "pick" => l \in Seq(PcFiles) /\ l # <<>>
    /\ a = "write" => l \in Seq(PcFiles) /\ s # <<>>
    /\ a = "name" => l \in Seq(Names) /\ l # <<>>
    /\ a = "clear" => l \in Seq(Paths)
    /\ a = "stat" => n < Len(s)
    /\ a \in {"detect", "mkdir", "list", "name", "pick", "write"} => n = 0
    /\ a \in {"detect", "mkdir", "list", "name", "pick", "write", "stat"} => ~f
    /\ a \in {"detect", "list"} \/ (a = "mkdir" /\ j = "pull") => s = <<>>

VisitsOK ==
    \A t \in Tabs : VisitOK(job[t], at[t], todo[t], script[t], done[t], open[t], failed[t])

\* The folders and the visits that have not begun.
Folders ==
    /\ phoneOut \in SUBSET Names
    /\ IsDirectory(phoneIn) /\ IsDirectory(inbox) /\ IsDirectory(outbox)
    /\ IsFiniteSet(DOMAIN inbox) /\ IsFiniteSet(DOMAIN outbox)

Visited ==
    /\ visits \in 0..NTabs /\ tab \in 0..visits /\ jobs \in 0..MaxJobs
    /\ \A t \in Tabs : t > visits => job[t] = "none"
    /\ \A t \in Tabs : at[t] = "idle" /\ tab = t => job[t] = "none"

Results == {"none", "empty", "pulled", "pushed", "error"}

Functions ==
    /\ job \in [Tabs -> Jobs \cup {"none"}] /\ at \in [Tabs -> AllPlaces]
    /\ crossed \in [Tabs -> BOOLEAN]
    /\ todo \in [Tabs -> Seq(Names \cup PcFiles \cup Paths)] /\ script \in [Tabs -> Seq(Copy)]
    /\ done \in [Tabs -> Nat] /\ open \in [Tabs -> BOOLEAN] /\ failed \in [Tabs -> BOOLEAN]
    /\ result \in [Tabs -> Results]

TypeInv == Folders /\ Visited /\ Functions /\ VisitsOK

LEMMA PlacesOfJobs ==
    /\ \A j \in Jobs \cup {"none"} : Places(j) \subseteq AllPlaces
    /\ "idle" \in AllPlaces /\ Places("none") = {"idle"}
BY DEF Places, AllPlaces, Jobs

LEMMA TypeInvImpliesTypeOK == TypeInv => TypeOK
<1> SUFFICES ASSUME TypeInv PROVE TypeOK
  OBVIOUS
<1>1. \A t \in Tabs : /\ job[t] = "none" => at[t] = "idle"
                      /\ at[t] = "idle" /\ tab = t => job[t] = "none"
  BY PlacesOfJobs DEF TypeInv, VisitsOK, VisitOK, Visited
<1>2. \A t \in Tabs : done[t] <= Len(script[t])
  BY DEF TypeInv, VisitsOK, VisitOK, Functions
<1>3. \A t \in Tabs : open[t] => at[t] \in {"get", "put"}
  BY DEF TypeInv, VisitsOK, VisitOK
<1>4. tab \in 0..NTabs
  BY UsbAssumption DEF TypeInv, Visited, UsbAssumption
<1> QED BY <1>1, <1>2, <1>3, <1>4
      DEF TypeInv, Folders, Visited, Functions, TypeOK, AllPlaces, Copy, Results

LEMMA TypeInit == ASSUME Init PROVE TypeInv
<1> USE UsbAssumption DEF UsbAssumption
<1>1. <<>> \in Seq(Names \cup PcFiles \cup Paths) /\ <<>> \in Seq(Copy) /\ Len(<<>>) = 0
  BY EmptySeq
<1>2. Folders
  <2>1. DOMAIN EmptyDir = {}
    BY DEF EmptyDir
  <2> QED BY <2>1, FS_EmptySet DEF Init, Folders, IsDirectory
<1>3. Visited
  BY DEF Init, Visited
<1>4. Functions
  BY <1>1 DEF Init, Functions, AllPlaces, Results
<1>5. VisitsOK
  BY <1>1 DEF Init, VisitsOK, VisitOK, Places, Jobs
<1> QED BY <1>2, <1>3, <1>4, <1>5 DEF TypeInv

\* What a step makes of visit t.
Becomes(t, j, a, l, s, n, o, f, r) ==
    /\ job' = [job EXCEPT ![t] = j] /\ at' = [at EXCEPT ![t] = a]
    /\ todo' = [todo EXCEPT ![t] = l] /\ script' = [script EXCEPT ![t] = s]
    /\ done' = [done EXCEPT ![t] = n] /\ open' = [open EXCEPT ![t] = o]
    /\ failed' = [failed EXCEPT ![t] = f] /\ result' = [result EXCEPT ![t] = r]

LEMMA Same ==
    ASSUME Functions, NEW t \in Tabs
    PROVE  /\ job = [job EXCEPT ![t] = job[t]] /\ at = [at EXCEPT ![t] = at[t]]
           /\ todo = [todo EXCEPT ![t] = todo[t]] /\ script = [script EXCEPT ![t] = script[t]]
           /\ done = [done EXCEPT ![t] = done[t]] /\ open = [open EXCEPT ![t] = open[t]]
           /\ failed = [failed EXCEPT ![t] = failed[t]] /\ result = [result EXCEPT ![t] = result[t]]
BY DEF Functions

\* The new values of visit t, and those of the others.
LEMMA Values ==
    ASSUME Functions, NEW t \in Tabs, NEW j, NEW a, NEW l, NEW s, NEW n, NEW o, NEW f, NEW r,
           Becomes(t, j, a, l, s, n, o, f, r)
    PROVE  /\ job'[t] = j /\ at'[t] = a /\ todo'[t] = l /\ script'[t] = s
           /\ done'[t] = n /\ open'[t] = o /\ failed'[t] = f /\ result'[t] = r
           /\ \A u \in Tabs \ {t} :
                 /\ job'[u] = job[u] /\ at'[u] = at[u] /\ todo'[u] = todo[u] /\ script'[u] = script[u]
                 /\ done'[u] = done[u] /\ open'[u] = open[u] /\ failed'[u] = failed[u]
BY DEF Functions, Becomes

\* One visit is enough to look at.
LEMMA VisitType ==
    ASSUME TypeInv, NEW t \in Tabs, NEW j, NEW a, NEW l, NEW s, NEW n, NEW o, NEW f, NEW r \in Results,
           Becomes(t, j, a, l, s, n, o, f, r), VisitOK(j, a, l, s, n, o, f),
           crossed' \in [Tabs -> BOOLEAN]
    PROVE  Functions' /\ VisitsOK'
<1>1. Functions'
  <2>1. a \in AllPlaces /\ n \in Nat
    BY PlacesOfJobs DEF VisitOK
  <2> QED BY <2>1 DEF Becomes, VisitOK, TypeInv, Functions
<1>2. VisitsOK'
  <2> SUFFICES ASSUME NEW u \in Tabs
               PROVE  VisitOK(job'[u], at'[u], todo'[u], script'[u], done'[u], open'[u], failed'[u])
    BY DEF VisitsOK
  <2>1. CASE u = t
    BY <2>1, Values DEF TypeInv
  <2>2. CASE u # t
    <3>1. VisitOK(job[u], at[u], todo[u], script[u], done[u], open[u], failed[u])
      BY DEF TypeInv, VisitsOK
    <3> QED BY <2>2, <3>1, Values DEF TypeInv
  <2> QED BY <2>1, <2>2
<1> QED BY <1>1, <1>2

\* A step of an action leads from types to types if the visit it is of is as it should be.
LEMMA StepType ==
    ASSUME TypeInv, NEW t \in Tabs, at[t] # "idle",
           NEW j, NEW a, NEW l, NEW s, NEW n, NEW o, NEW f, NEW r \in Results,
           Becomes(t, j, a, l, s, n, o, f, r), VisitOK(j, a, l, s, n, o, f),
           crossed' = crossed \/ crossed' = [crossed EXCEPT ![t] = FALSE],
           a = "idle" /\ tab = t => j = "none",
           UNCHANGED <<tabVars, jobs>>, Folders'
    PROVE  TypeInv'
<1>1. Functions' /\ VisitsOK'
  <2>1. crossed' \in [Tabs -> BOOLEAN]
    BY DEF TypeInv, Functions
  <2> QED BY <2>1, VisitType
<1>2. Visited'
  <2>1. job[t] # "none"
    BY PlacesOfJobs DEF TypeInv, VisitsOK, VisitOK
  <2>2. \A u \in Tabs : job[u] = "none" => job'[u] = "none"
    BY <2>1, Values DEF TypeInv
  <2>3. \A u \in Tabs : at'[u] = "idle" /\ tab = u => job'[u] = "none"
    <3> SUFFICES ASSUME NEW u \in Tabs, at'[u] = "idle", tab = u PROVE job'[u] = "none"
      OBVIOUS
    <3>1. CASE u = t
      BY <3>1, Values DEF TypeInv
    <3>2. CASE u # t
      BY <3>2, Values DEF TypeInv, Visited
    <3> QED BY <3>1, <3>2
  <2> QED BY <2>2, <2>3 DEF TypeInv, Visited, tabVars
<1> QED BY <1>1, <1>2 DEF TypeInv

LEMMA FoldersStay == ASSUME Folders, UNCHANGED dirVars PROVE Folders'
BY DEF Folders, IsDirectory, dirVars

LEMMA Shown ==
    ASSUME Functions, NEW t \in Tabs, NEW r, Show(t, r)
    PROVE  result' = [result EXCEPT ![t] = IF tab = t THEN r ELSE result[t]]
BY Same DEF Show

\* An action that ends, and one that fails.
LEMMA EndsType ==
    ASSUME TypeInv, NEW t \in Tabs, at[t] # "idle", Ends(t),
           NEW r \in Results, result' = [result EXCEPT ![t] = r],
           UNCHANGED <<tabVars, jobs>>, Folders'
    PROVE  TypeInv'
<1> DEFINE j == IF tab = t THEN "none" ELSE job[t]
<1>1. Becomes(t, j, "idle", <<>>, <<>>, 0, FALSE, FALSE, r)
  BY Same DEF Ends, Goto, Forgets, Becomes, TypeInv
<1>2. VisitOK(j, "idle", <<>>, <<>>, 0, FALSE, FALSE)
  <2>1. VisitOK(job[t], at[t], todo[t], script[t], done[t], open[t], failed[t])
    BY DEF TypeInv, VisitsOK
  <2>2. <<>> \in Seq(Names \cup PcFiles \cup Paths) /\ <<>> \in Seq(Copy) /\ Len(<<>>) = 0
    BY EmptySeq
  <2> QED BY <2>1, <2>2 DEF VisitOK
<1>3. (tab = t => j = "none") /\ crossed' = [crossed EXCEPT ![t] = FALSE]
  BY DEF Ends, Forgets
<1> QED BY <1>1, <1>2, <1>3, StepType

LEMMA FailsType ==
    ASSUME TypeInv, NEW t \in Tabs, at[t] # "idle", Fails(t),
           UNCHANGED <<tabVars, jobs>>, Folders'
    PROVE  TypeInv'
<1>1. CASE /\ job[t] \in {"export", "clear"} /\ Goto(t, "refresh")
           /\ UNCHANGED <<workVars, result>>
  <2>1. VisitOK(job[t], at[t], todo[t], script[t], done[t], open[t], failed[t])
    BY DEF TypeInv, VisitsOK
  <2>2. VisitOK(job[t], "refresh", todo[t], script[t], done[t], open[t], failed[t])
    BY <1>1, <2>1 DEF VisitOK, Places
  <2>3. Becomes(t, job[t], "refresh", todo[t], script[t], done[t], open[t], failed[t], result[t])
    BY <1>1, Same DEF Goto, Becomes, TypeInv, workVars
  <2>4. result[t] \in Results
    BY DEF TypeInv, Functions
  <2> QED BY <1>1, <2>2, <2>3, <2>4, StepType DEF workVars
<1>2. CASE Ends(t) /\ Show(t, "error")
  <2>1. (IF tab = t THEN "error" ELSE result[t]) \in Results
    BY DEF TypeInv, Functions, Results
  <2> QED BY <1>2, <2>1, Shown, EndsType DEF TypeInv
<1> QED BY <1>1, <1>2 DEF Fails

\* What is known of a visit, and what an action shows.
LEMMA VisitNow ==
    ASSUME TypeInv, NEW t \in Tabs
    PROVE  /\ VisitOK(job[t], at[t], todo[t], script[t], done[t], open[t], failed[t])
           /\ result[t] \in Results
           /\ \A r \in Results : (IF tab = t THEN r ELSE result[t]) \in Results
BY DEF TypeInv, VisitsOK, Functions

LEMMA DetectedType == ASSUME TypeInv, NEW t \in Tabs, Detected(t) PROVE TypeInv'
<1> DEFINE r == IF tab = t THEN "none" ELSE result[t]
           a == IF job[t] = "pull" THEN "mkdir" ELSE "pick"
<1>1. at[t] = "detect" /\ Folders' /\ result' = [result EXCEPT ![t] = r] /\ r \in Results
  BY Shown, FoldersStay, VisitNow DEF Detected, TypeInv, Results
<1>2. CASE Ends(t)
  BY <1>1, <1>2, EndsType DEF Detected
<1>3. CASE job[t] # "detect" /\ Goto(t, a) /\ UNCHANGED workVars
  <2>1. VisitOK(job[t], a, todo[t], script[t], done[t], open[t], failed[t])
    BY <1>1, <1>3, VisitNow DEF VisitOK, Places, Jobs
  <2>2. Becomes(t, job[t], a, todo[t], script[t], done[t], open[t], failed[t], r)
    BY <1>1, <1>3, Same DEF Detected, Goto, Becomes, TypeInv, workVars
  <2> QED BY <1>1, <1>3, <2>1, <2>2, StepType DEF Detected, workVars
<1> QED BY <1>2, <1>3 DEF Detected

LEMMA FolderReadyType == ASSUME TypeInv, NEW t \in Tabs, FolderReady(t) PROVE TypeInv'
<1> DEFINE a == IF job[t] = "pull" THEN "list" ELSE "put"
<1>1. VisitOK(job[t], a, todo[t], script[t], done[t], open[t], failed[t])
  BY VisitNow DEF FolderReady, VisitOK, Places, Jobs
<1>2. Becomes(t, job[t], a, todo[t], script[t], done[t], open[t], failed[t], result[t])
  BY Same DEF FolderReady, Goto, Becomes, TypeInv
<1> QED BY <1>1, <1>2, StepType, FoldersStay, VisitNow DEF FolderReady, TypeInv

LEMMA ListedType == ASSUME TypeInv, NEW t \in Tabs, Listed(t) PROVE TypeInv'
<1> DEFINE r == IF tab = t THEN "empty" ELSE result[t]
<1>1. at[t] = "list" /\ Folders' /\ UNCHANGED <<tabVars, jobs>>
  BY FoldersStay DEF Listed, TypeInv
<1>2. CASE phoneOut = {} /\ Show(t, "empty") /\ Goto(t, "refresh") /\ UNCHANGED todo
  <2>1. VisitOK(job[t], "refresh", todo[t], script[t], done[t], open[t], failed[t])
    BY <1>1, VisitNow DEF VisitOK, Places, Jobs
  <2>2. Becomes(t, job[t], "refresh", todo[t], script[t], done[t], open[t], failed[t], r)
    BY <1>2, Same, Shown DEF Listed, Goto, Becomes, TypeInv
  <2>3. r \in Results
    BY VisitNow DEF Results
  <2> QED BY <1>1, <2>1, <2>2, <2>3, StepType DEF Listed
<1>3. CASE phoneOut # {} /\ (\E order \in SetToSeqs(phoneOut) : todo' = [todo EXCEPT ![t] = order])
           /\ Goto(t, "name") /\ UNCHANGED result
  <2>1. PICK order \in SetToSeqs(phoneOut) : todo' = [todo EXCEPT ![t] = order]
    BY <1>3
  <2>2. phoneOut \in SUBSET Names /\ IsFiniteSet(phoneOut)
    BY FS_Subset, UsbAssumption DEF TypeInv, Folders, UsbAssumption
  <2>3. order \in Seq(phoneOut) /\ order # <<>>
    BY <1>3, <2>2, OrdersAreComplete
  <2>4. order \in Seq(Names) /\ order \in Seq(Names \cup PcFiles \cup Paths)
    BY <2>2, <2>3
  <2>5. VisitOK(job[t], "name", order, script[t], done[t], open[t], failed[t])
    BY <1>1, <2>3, <2>4, VisitNow DEF VisitOK, Places, Jobs
  <2>6. Becomes(t, job[t], "name", order, script[t], done[t], open[t], failed[t], result[t])
    BY <1>3, <2>1, Same DEF Listed, Goto, Becomes, TypeInv
  <2> QED BY <1>1, <2>5, <2>6, StepType, VisitNow DEF Listed
<1> QED BY <1>2, <1>3 DEF Listed

LEMMA CopiesAreFinite == ASSUME TypeInv, NEW t \in Tabs PROVE IsFiniteSet(Copies(t))
<1>1. script[t] \in Seq(Copy)
  BY DEF TypeInv, Functions
<1>2. Len(script[t]) \in Nat
  BY <1>1, LenProperties
<1> DEFINE I == 1..Len(script[t])
           g == [i \in I |-> script[t][i].path]
<1>3. IsFiniteSet(I)
  BY <1>2, FS_Interval
<1>4. Copies(t) = {g[i] : i \in I}
  BY DEF Copies
<1>5. g \in Surjection(I, Copies(t))
  BY <1>4 DEF Surjection
<1> HIDE DEF I
<1> QED BY <1>3, <1>5, FS_Surjection

\* A list grows at its end and is worked off from its head.
LEMMA ListSteps ==
    ASSUME NEW S, NEW l \in Seq(S)
    PROVE  /\ \A x \in S : /\ Append(l, x) \in Seq(S) /\ Append(l, x) # <<>>
                           /\ Len(Append(l, x)) = Len(l) + 1
                           /\ Append(l, x)[Len(l) + 1] = x
                           /\ \A i \in 1..Len(l) : Append(l, x)[i] = l[i]
           /\ l # <<>> => /\ Head(l) \in S /\ Tail(l) \in Seq(S) /\ Len(l) # 0
                          /\ Len(l) # 1 => Tail(l) # <<>>
           /\ Len(l) \in Nat /\ \A i \in 1..Len(l) : l[i] \in S
<1>1. ASSUME NEW x \in S
      PROVE  /\ Append(l, x) \in Seq(S) /\ Append(l, x) # <<>>
             /\ Len(Append(l, x)) = Len(l) + 1
             /\ Append(l, x)[Len(l) + 1] = x
             /\ \A i \in 1..Len(l) : Append(l, x)[i] = l[i]
  BY AppendProperties
<1>2. ASSUME l # <<>>
      PROVE  /\ Head(l) \in S /\ Tail(l) \in Seq(S) /\ Len(l) # 0
             /\ Len(l) # 1 => Tail(l) # <<>>
  <2>1. Head(l) \in S /\ Tail(l) \in Seq(S) /\ Len(Tail(l)) = Len(l) - 1
    BY <1>2, HeadTailProperties
  <2>2. Len(l) \in Nat \ {0}
    BY <1>2, EmptySeq
  <2>3. Tail(l) = <<>> => Len(Tail(l)) = 0
    BY EmptySeq
  <2> QED BY <2>1, <2>2, <2>3
<1>3. Len(l) \in Nat /\ \A i \in 1..Len(l) : l[i] \in S
  BY LenProperties, ElementOfSeq
<1> QED BY <1>1, <1>2, <1>3

LEMMA LocalNameType == ASSUME TypeInv, NEW t \in Tabs, LocalName(t) PROVE TypeInv'
<1> DEFINE x == [what |-> Head(todo[t]),
                 path |-> FreeReservedPath(inbox, Safe[Head(todo[t])], Copies(t))]
           a == IF Len(todo[t]) = 1 THEN "get" ELSE "name"
<1>1. /\ todo[t] \in Seq(Names) /\ todo[t] # <<>> /\ script[t] \in Seq(Copy) /\ at[t] = "name"
      /\ todo[t] \in Seq(Names \cup PcFiles \cup Paths)
  BY VisitNow DEF VisitOK, LocalName
<1>2. Head(todo[t]) \in Names /\ (a = "name" => Tail(todo[t]) # <<>>) /\ Tail(todo[t]) \in Seq(Names)
      /\ Tail(todo[t]) \in Seq(Names \cup PcFiles \cup Paths)
  BY <1>1, ListSteps
<1>3. x \in Copy
  <2>1. Safe[Head(todo[t])] \in Names
    BY <1>2, UsbAssumption DEF UsbAssumption
  <2>2. FreeReservedPath(inbox, Safe[Head(todo[t])], Copies(t)) \in Paths
    BY <2>1, CopiesAreFinite, FreeReservedIsFree DEF TypeInv, Folders
  <2> QED BY <1>2, <2>2 DEF Copy
<1> HIDE DEF x
<1>4. VisitOK(job[t], a, Tail(todo[t]), Append(script[t], x), done[t], open[t], failed[t])
  <2>1. Append(script[t], x) \in Seq(Copy) /\ Len(Append(script[t], x)) = Len(script[t]) + 1
        /\ Len(script[t]) \in Nat
    BY <1>1, <1>3, ListSteps
  <2> QED BY <1>1, <1>2, <2>1, VisitNow DEF VisitOK, Places, Jobs
<1>5. Becomes(t, job[t], a, Tail(todo[t]), Append(script[t], x), done[t], open[t], failed[t], result[t])
  BY Same DEF LocalName, Goto, Becomes, TypeInv, Functions, x
<1> QED BY <1>1, <1>4, <1>5, StepType, FoldersStay, VisitNow DEF LocalName, TypeInv

LEMMA OutboxNameType == ASSUME TypeInv, NEW t \in Tabs, OutboxName(t) PROVE TypeInv'
<1> DEFINE x == [what |-> Head(todo[t]), path |-> FreePath(outbox, Safe[NameOf[Head(todo[t])]])]
<1>1. /\ todo[t] \in Seq(PcFiles) /\ todo[t] # <<>> /\ script[t] \in Seq(Copy) /\ at[t] = "pick"
      /\ todo[t] \in Seq(Names \cup PcFiles \cup Paths)
  BY VisitNow DEF VisitOK, OutboxName
<1>2. /\ Head(todo[t]) \in PcFiles /\ Tail(todo[t]) \in Seq(PcFiles)
      /\ Tail(todo[t]) \in Seq(Names \cup PcFiles \cup Paths)
  BY <1>1, ListSteps
<1>3. x \in Copy
  <2>1. Safe[NameOf[Head(todo[t])]] \in Names
    BY <1>2, UsbAssumption DEF UsbAssumption
  <2>2. FreePath(outbox, Safe[NameOf[Head(todo[t])]]) \in Paths
    BY <2>1, FreePathIsFree DEF TypeInv, Folders
  <2> QED BY <1>2, <2>2 DEF Copy
<1> HIDE DEF x
<1>4. VisitOK(job[t], "write", Tail(todo[t]), Append(script[t], x), done[t], open[t], failed[t])
  <2>1. Append(script[t], x) \in Seq(Copy) /\ Len(Append(script[t], x)) = Len(script[t]) + 1
        /\ Len(script[t]) \in Nat /\ Append(script[t], x) # <<>>
    BY <1>1, <1>3, ListSteps
  <2> QED BY <1>1, <1>2, <2>1, VisitNow DEF VisitOK, Places, Jobs
<1>5. Becomes(t, job[t], "write", Tail(todo[t]), Append(script[t], x), done[t], open[t], failed[t],
              result[t])
  BY Same DEF OutboxName, Goto, Becomes, TypeInv, Functions, x
<1> QED BY <1>1, <1>4, <1>5, StepType, FoldersStay, VisitNow DEF OutboxName, TypeInv

\* A file is written into a folder.
LEMMA DirectoryWritten ==
    ASSUME NEW dir, IsDirectory(dir), NEW p \in Paths, NEW x \in Content
    PROVE  /\ IsDirectory(WriteFile(dir, p, x))
           /\ IsFiniteSet(DOMAIN dir) => IsFiniteSet(DOMAIN WriteFile(dir, p, x))
<1>1. DOMAIN WriteFile(dir, p, x) = DOMAIN dir \cup {p}
  BY Written
<1>2. \A q \in DOMAIN WriteFile(dir, p, x) : WriteFile(dir, p, x)[q] \in Content
  <2>1. WriteFile(dir, p, x)[p] = x /\ \A q \in DOMAIN dir \ {p} : WriteFile(dir, p, x)[q] = dir[q]
    BY DEF WriteFile
  <2>2. \A q \in DOMAIN dir : dir[q] \in Content
    BY DEF IsDirectory, Content
  <2> QED BY <1>1, <2>1, <2>2
<1>3. IsFiniteSet(DOMAIN dir) => IsFiniteSet(DOMAIN dir \cup {p})
  BY FS_AddElement
<1> QED BY <1>1, <1>2, <1>3 DEF IsDirectory, Content

LEMMA OutboxWrittenType == ASSUME TypeInv, NEW t \in Tabs, OutboxWritten(t) PROVE TypeInv'
<1> DEFINE copy == Last(script[t])
           a == CASE todo[t] # <<>> -> "pick" [] job[t] = "push" -> "stat" [] OTHER -> "refresh"
<1>1. /\ script[t] \in Seq(Copy) /\ script[t] # <<>> /\ at[t] = "write"
      /\ todo[t] \in Seq(PcFiles) /\ job[t] \in {"push", "export"}
      /\ UNCHANGED <<tabVars, jobs>>
  BY VisitNow DEF VisitOK, OutboxWritten, Places, Jobs
<1>2. copy \in Copy /\ Len(script[t]) # 0 /\ Len(script[t]) \in Nat
  BY <1>1, ListSteps DEF Last
<1>3. ASSUME NEW x \in Content, outbox' = WriteFile(outbox, copy.path, x)
      PROVE  Folders'
  BY <1>2, <1>3, DirectoryWritten DEF OutboxWritten, TypeInv, Folders, Copy, IsDirectory
<1>4. CASE /\ outbox' = WriteFile(outbox, copy.path, copy.what) /\ Goto(t, a)
           /\ UNCHANGED <<workVars, result>>
  <2>1. Folders'
    BY <1>2, <1>3, <1>4 DEF Copy, Content
  <2>2. VisitOK(job[t], a, todo[t], script[t], done[t], open[t], failed[t])
    BY <1>1, <1>2, VisitNow DEF VisitOK, Places, Jobs
  <2>3. Becomes(t, job[t], a, todo[t], script[t], done[t], open[t], failed[t], result[t])
    BY <1>4, Same DEF OutboxWritten, Goto, Becomes, TypeInv, workVars
  <2> QED BY <1>1, <1>4, <2>1, <2>2, <2>3, StepType, VisitNow DEF workVars
<1>5. CASE outbox' = WriteFile(outbox, copy.path, Partial) /\ Fails(t)
  <2>1. Folders'
    BY <1>3, <1>5 DEF Content
  <2> QED BY <1>1, <1>5, <2>1, FailsType DEF OutboxWritten
<1> QED BY <1>4, <1>5 DEF OutboxWritten

LEMMA CheckedType == ASSUME TypeInv, NEW t \in Tabs, Checked(t) PROVE TypeInv'
<1> DEFINE last == done[t] + 1 = Len(script[t])
           n == IF last THEN 0 ELSE done[t] + 1
           a == IF last THEN "mkdir" ELSE "stat"
<1>1. /\ at[t] = "stat" /\ UNCHANGED <<tabVars, jobs>> /\ Folders'
      /\ script[t] \in Seq(Copy) /\ Len(script[t]) \in Nat
      /\ done[t] \in Nat /\ done[t] < Len(script[t]) /\ job[t] = "push"
  BY VisitNow, FoldersStay, ListSteps DEF VisitOK, Checked, Places, Jobs, TypeInv
<1>2. CASE Fails(t)
  BY <1>1, <1>2, FailsType
<1>3. CASE /\ done' = [done EXCEPT ![t] = n] /\ Goto(t, a)
           /\ UNCHANGED <<job, crossed, todo, script, open, failed, result>>
  <2>1. VisitOK(job[t], a, todo[t], script[t], n, open[t], failed[t])
    BY <1>1, VisitNow DEF VisitOK, Places, Jobs
  <2>2. Becomes(t, job[t], a, todo[t], script[t], n, open[t], failed[t], result[t])
    BY <1>3, Same DEF Checked, Goto, Becomes, TypeInv
  <2> QED BY <1>1, <1>3, <2>1, <2>2, StepType, VisitNow
<1>4. n = (IF last THEN 0 ELSE done[t] + 1) /\ a = (IF last THEN "mkdir" ELSE "stat")
  OBVIOUS
<1> HIDE DEF n, a
<1>5. Checked(t) => \/ Fails(t)
                    \/ /\ done' = [done EXCEPT ![t] = n] /\ Goto(t, a)
                       /\ UNCHANGED <<job, crossed, todo, script, open, failed, result>>
  <2>1. [done EXCEPT ![t] = IF last THEN 0 ELSE @ + 1] = [done EXCEPT ![t] = n]
    BY <1>4 DEF TypeInv, Functions
  <2> QED BY <1>4, <2>1 DEF Checked
<1> QED BY <1>2, <1>3, <1>5

\* The copy that is next, or under way.
LEMMA CopyingType ==
    ASSUME TypeInv, NEW t \in Tabs, Copying(t)
    PROVE  /\ at[t] \in {"get", "put"} /\ script[t] \in Seq(Copy) /\ Len(script[t]) \in Nat
           /\ done[t] \in Nat /\ done[t] + 1 \in 1..Len(script[t])
           /\ script[t][done[t] + 1] \in Copy
<1>1. /\ at[t] \in {"get", "put"} /\ script[t] \in Seq(Copy) /\ Len(script[t]) \in Nat
      /\ done[t] \in Nat /\ done[t] < Len(script[t])
  BY VisitNow, ListSteps DEF Copying, VisitOK
<1>2. done[t] + 1 \in 1..Len(script[t])
  BY <1>1
<1> QED BY <1>1, <1>2, ListSteps

\* The tool has written to its target: one of the two folders.
LEMMA TargetType ==
    ASSUME TypeInv, NEW t, NEW copy \in Copy, NEW x \in Content, Target(t, copy, x),
           UNCHANGED <<phoneOut, outbox>>
    PROVE  Folders'
<1>1. copy.path \in Paths
  BY DEF Copy
<1>2. CASE inbox' = WriteFile(inbox, copy.path, x) /\ UNCHANGED phoneIn
  BY <1>1, <1>2, DirectoryWritten DEF TypeInv, Folders, IsDirectory
<1>3. CASE phoneIn' = WriteFile(phoneIn, copy.path, x) /\ UNCHANGED inbox
  BY <1>1, <1>3, DirectoryWritten DEF TypeInv, Folders, IsDirectory
<1> QED BY <1>2, <1>3 DEF Target

LEMMA SourcesType == ASSUME TypeInv, NEW t, NEW copy PROVE Sources(t, copy) \subseteq Content
BY DEF TypeInv, Folders, IsDirectory, Sources, Content

LEMMA CopyRefusedType == ASSUME TypeInv, NEW t \in Tabs, CopyRefused(t) PROVE TypeInv'
<1>1. Copying(t) /\ Folders' /\ UNCHANGED <<tabVars, jobs>>
  BY FoldersStay DEF CopyRefused, TypeInv
<1>2. VisitOK(job[t], at[t], todo[t], script[t], done[t] + 1, FALSE, TRUE)
  BY <1>1, CopyingType, VisitNow DEF VisitOK
<1>3. Becomes(t, job[t], at[t], todo[t], script[t], done[t] + 1, FALSE, TRUE, result[t])
  BY Same DEF CopyRefused, Becomes, TypeInv, Functions
<1> QED BY <1>1, <1>2, <1>3, CopyingType, StepType, VisitNow DEF CopyRefused

LEMMA CopyBeginsType == ASSUME TypeInv, NEW t \in Tabs, CopyBegins(t) PROVE TypeInv'
<1>1. Copying(t) /\ UNCHANGED <<tabVars, jobs>>
  BY DEF CopyBegins
<1>2. Folders'
  BY <1>1, CopyingType, TargetType DEF CopyBegins, Content
<1>3. VisitOK(job[t], at[t], todo[t], script[t], done[t], TRUE, failed[t])
  BY <1>1, CopyingType, VisitNow DEF VisitOK
<1>4. Becomes(t, job[t], at[t], todo[t], script[t], done[t], TRUE, failed[t], result[t])
  BY Same DEF CopyBegins, Becomes, TypeInv
<1> QED BY <1>1, <1>2, <1>3, <1>4, CopyingType, StepType, VisitNow DEF CopyBegins

LEMMA CopyEndsType == ASSUME TypeInv, NEW t \in Tabs, CopyEnds(t) PROVE TypeInv'
<1>1. Copying(t) /\ UNCHANGED <<tabVars, jobs>> /\ UNCHANGED <<phoneOut, outbox>>
  BY DEF CopyEnds
<1>2. Folders'
  <2>1. PICK x \in Sources(t, script[t][done[t] + 1]) : Target(t, script[t][done[t] + 1], x)
    BY DEF CopyEnds
  <2>2. x \in Content
    BY <2>1, SourcesType
  <2> QED BY <1>1, <2>1, <2>2, CopyingType, TargetType
<1>3. VisitOK(job[t], at[t], todo[t], script[t], done[t] + 1, FALSE, failed[t])
  BY <1>1, CopyingType, VisitNow DEF VisitOK
<1>4. Becomes(t, job[t], at[t], todo[t], script[t], done[t] + 1, FALSE, failed[t], result[t])
  BY Same DEF CopyEnds, Becomes, TypeInv, Functions
<1> QED BY <1>1, <1>2, <1>3, <1>4, CopyingType, StepType, VisitNow DEF CopyEnds

LEMMA ToolExitsType == ASSUME TypeInv, NEW t \in Tabs, ToolExits(t) PROVE TypeInv'
<1> DEFINE m == IF job[t] = "pull" THEN "pulled" ELSE "pushed"
           r == IF tab = t THEN m ELSE result[t]
<1>1. at[t] \in {"get", "put"} /\ Folders' /\ UNCHANGED <<tabVars, jobs>>
  BY FoldersStay DEF ToolExits, TypeInv
<1>2. CASE Show(t, m) /\ Goto(t, "refresh") /\ UNCHANGED workVars /\ done[t] = Len(script[t])
  <2>1. VisitOK(job[t], "refresh", todo[t], script[t], done[t], open[t], failed[t])
    BY <1>1, <1>2, VisitNow DEF VisitOK, Places, Jobs
  <2>2. result' = [result EXCEPT ![t] = r] /\ r \in Results
    BY <1>2, Shown, VisitNow DEF TypeInv, Results
  <2>3. Becomes(t, job[t], "refresh", todo[t], script[t], done[t], open[t], failed[t], r)
    BY <1>2, <2>2, Same DEF ToolExits, Goto, Becomes, TypeInv, workVars
  <2> QED BY <1>1, <1>2, <2>1, <2>2, <2>3, StepType DEF workVars
<1>3. CASE Fails(t)
  BY <1>1, <1>3, FailsType DEF ToolExits
<1> QED BY <1>2, <1>3 DEF ToolExits

LEMMA ToolFailsType == ASSUME TypeInv, NEW t \in Tabs, ToolFails(t) PROVE TypeInv'
BY FoldersStay, FailsType DEF ToolFails, TypeInv

LEMMA ScannedType == ASSUME TypeInv, NEW t \in Tabs, Scanned(t) PROVE TypeInv'
<1>1. at[t] = "scan" /\ Folders' /\ UNCHANGED <<tabVars, jobs>>
  BY FoldersStay DEF Scanned, TypeInv
<1>2. PICK order \in SetToSeqs(DOMAIN outbox) : todo' = [todo EXCEPT ![t] = order]
  BY DEF Scanned
<1>3. order \in Seq(DOMAIN outbox) /\ DOMAIN outbox \subseteq Paths
  BY OrdersAreComplete DEF TypeInv, Folders, IsDirectory
<1>4. order \in Seq(Paths) /\ order \in Seq(Names \cup PcFiles \cup Paths)
  BY <1>3
<1>5. VisitOK(job[t], "clear", order, script[t], done[t], open[t], failed[t])
  BY <1>1, <1>4, VisitNow DEF VisitOK, Places, Jobs
<1>6. Becomes(t, job[t], "clear", order, script[t], done[t], open[t], failed[t], result[t])
  BY <1>2, Same DEF Scanned, Goto, Becomes, TypeInv
<1> QED BY <1>1, <1>5, <1>6, StepType, VisitNow DEF Scanned

LEMMA ClearedType == ASSUME TypeInv, NEW t \in Tabs, Cleared(t) PROVE TypeInv'
<1>1. at[t] = "clear" /\ UNCHANGED <<tabVars, jobs>>
  BY DEF Cleared
<1>2. ASSUME UNCHANGED outbox PROVE Folders'
  BY <1>2 DEF Cleared, TypeInv, Folders, IsDirectory
<1>3. CASE /\ todo[t] # <<>> /\ outbox' = Restrict(outbox, DOMAIN outbox \ {Head(todo[t])})
           /\ todo' = [todo EXCEPT ![t] = Tail(@)]
           /\ UNCHANGED <<job, at, crossed, script, done, open, failed, result>>
  <2>1. DOMAIN outbox' \subseteq DOMAIN outbox /\ \A p \in DOMAIN outbox' : outbox'[p] = outbox[p]
    BY <1>3 DEF Restrict
  <2>2. IsDirectory(outbox)' /\ IsFiniteSet(DOMAIN outbox')
    BY <2>1, FS_Subset DEF TypeInv, Folders, IsDirectory
  <2>3. Folders'
    BY <2>2 DEF Cleared, TypeInv, Folders, IsDirectory
  <2>4. Tail(todo[t]) \in Seq(Paths) /\ Tail(todo[t]) \in Seq(Names \cup PcFiles \cup Paths)
    BY <1>1, <1>3, VisitNow, ListSteps DEF VisitOK
  <2>5. VisitOK(job[t], at[t], Tail(todo[t]), script[t], done[t], open[t], failed[t])
    BY <1>1, <2>4, VisitNow DEF VisitOK
  <2>6. Becomes(t, job[t], at[t], Tail(todo[t]), script[t], done[t], open[t], failed[t], result[t])
    BY <1>3, Same DEF Cleared, Becomes, TypeInv, Functions
  <2> QED BY <1>1, <1>3, <2>3, <2>5, <2>6, StepType, VisitNow
<1>4. CASE Goto(t, "refresh") /\ UNCHANGED <<outbox, workVars, result>>
  <2>1. VisitOK(job[t], "refresh", todo[t], script[t], done[t], open[t], failed[t])
    BY <1>1, VisitNow DEF VisitOK, Places, Jobs
  <2>2. Becomes(t, job[t], "refresh", todo[t], script[t], done[t], open[t], failed[t], result[t])
    BY <1>4, Same DEF Cleared, Goto, Becomes, TypeInv, workVars
  <2> QED BY <1>1, <1>2, <1>4, <2>1, <2>2, StepType, VisitNow DEF workVars
<1>5. CASE Fails(t) /\ UNCHANGED outbox
  BY <1>1, <1>2, <1>5, FailsType DEF Cleared
<1> QED BY <1>3, <1>4, <1>5 DEF Cleared

LEMMA RefreshedType == ASSUME TypeInv, NEW t \in Tabs, Refreshed(t) PROVE TypeInv'
<1>1. result' = [result EXCEPT ![t] = result[t]]
  BY Same DEF Refreshed, TypeInv
<1> QED BY <1>1, FoldersStay, EndsType, VisitNow DEF Refreshed, TypeInv

LEMMA JobStepType == ASSUME TypeInv, NEW t \in Tabs, JobStep(t) PROVE TypeInv'
BY DetectedType, FolderReadyType, ListedType, LocalNameType, OutboxNameType, OutboxWrittenType,
   CheckedType, CopyRefusedType, CopyBeginsType, CopyEndsType, ToolExitsType, ToolFailsType,
   ScannedType, ClearedType, RefreshedType DEF JobStep

\* The steps of the user.
LEMMA EnterType == ASSUME TypeInv, Enter PROVE TypeInv'
<1> DEFINE t == visits + 1
<1>1. visits \in Nat /\ NTabs \in Nat /\ t \in Tabs
  BY UsbAssumption DEF Enter, TypeInv, Visited, UsbAssumption, Tabs
<1>2. job[t] = "none" /\ at[t] = "idle"
  BY <1>1, VisitNow, PlacesOfJobs DEF TypeInv, Visited, VisitOK
<1>3. VisitOK("refresh", "refresh", todo[t], script[t], done[t], open[t], failed[t])
  BY <1>1, <1>2, VisitNow, PlacesOfJobs DEF VisitOK, Places, Jobs
<1>4. Becomes(t, "refresh", "refresh", todo[t], script[t], done[t], open[t], failed[t], result[t])
  BY <1>1, Same DEF Enter, Goto, Becomes, TypeInv
<1>5. Functions' /\ VisitsOK'
  <2>1. crossed' \in [Tabs -> BOOLEAN]
    BY DEF Enter, TypeInv, Functions
  <2> HIDE DEF t
  <2> QED BY <1>1, <1>3, <1>4, <2>1, VisitType, VisitNow
<1>6. Visited'
  <2>1. \A u \in Tabs \ {t} : job'[u] = job[u]
    BY <1>4 DEF Becomes, TypeInv, Functions
  <2>2. ASSUME NEW u \in Tabs, u > visits' PROVE job'[u] = "none"
    BY <1>1, <2>1, <2>2 DEF Enter, TypeInv, Visited, Tabs
  <2>3. tab' = t /\ at'[t] = "refresh"
    BY <1>4 DEF Enter, Becomes, TypeInv, Functions
  <2> QED BY <1>1, <2>2, <2>3 DEF Enter, TypeInv, Visited
<1>7. Folders'
  BY FoldersStay DEF Enter, TypeInv
<1> QED BY <1>5, <1>6, <1>7 DEF TypeInv

\* Who is at work on the same folder is crossed.
Others(j) == IF Folder(j) = "none" THEN {} ELSE AtWorkOn(Folder(j))

LEMMA StartCrosses ==
    ASSUME TypeInv, NEW t \in Tabs, NEW j \in Jobs, Start(t, j)
    PROVE  /\ crossed' \in [Tabs -> BOOLEAN]
           /\ ~crossed'[t] => Others(j) = {}
           /\ \A u \in Tabs \ {t} : ~crossed'[u] => ~crossed[u] /\ u \notin Others(j)
<1>1. PICK others : /\ others = Others(j)
                    /\ crossed' = [u \in Tabs |-> IF u = t THEN others # {}
                                                   ELSE crossed[u] \/ u \in others]
  BY DEF Start, Others
<1>2. crossed \in [Tabs -> BOOLEAN]
  BY DEF TypeInv, Functions
<1>3. \A u \in Tabs : (IF u = t THEN others # {} ELSE crossed[u] \/ u \in others) \in BOOLEAN
  BY <1>2, Zenon
<1>4. crossed' \in [Tabs -> BOOLEAN]
  BY <1>1, <1>3, Zenon
<1>5. \A u \in Tabs : crossed'[u] = (IF u = t THEN others # {} ELSE crossed[u] \/ u \in others)
  BY <1>1, Zenon
<1>6. ~crossed'[t] => Others(j) = {}
  BY <1>1, <1>5, Zenon
<1>7. \A u \in Tabs \ {t} : ~crossed'[u] => ~crossed[u] /\ u \notin Others(j)
  BY <1>1, <1>5, Zenon
<1> QED BY <1>4, <1>6, <1>7

LEMMA StartType == ASSUME TypeInv, NEW t \in Tabs, NEW j \in Jobs, Start(t, j) PROVE TypeInv'
<1> DEFINE a == CASE j = "refresh" -> "refresh" [] j = "export" -> "pick"
                  [] j = "clear" -> "scan" [] OTHER -> "detect"
<1>1. PICK l : /\ todo' = [todo EXCEPT ![t] = l] /\ l \in Seq(Names \cup PcFiles \cup Paths)
               /\ j \in {"push", "export"} => l \in Seq(PcFiles) /\ l # <<>>
  <2>1. CASE j \in {"push", "export"}
    <3>1. PICK selected \in (SUBSET PcFiles) \ {{}} :
             \E order \in SetToSeqs(selected) : todo' = [todo EXCEPT ![t] = order]
      BY <2>1 DEF Start
    <3>2. PICK order \in SetToSeqs(selected) : todo' = [todo EXCEPT ![t] = order]
      BY <3>1
    <3>3. IsFiniteSet(selected)
      BY FS_Subset, UsbAssumption DEF UsbAssumption
    <3>4. order \in Seq(selected) /\ order # <<>>
      BY <3>3, OrdersAreComplete
    <3>5. order \in Seq(PcFiles) /\ order \in Seq(Names \cup PcFiles \cup Paths)
      BY <3>4
    <3> QED BY <3>2, <3>4, <3>5
  <2>2. CASE j \notin {"push", "export"}
    <3>1. todo' = [todo EXCEPT ![t] = todo[t]]
      BY <2>2, Same DEF Start, TypeInv
    <3> QED BY <2>2, <3>1 DEF TypeInv, Functions
  <2> QED BY <2>1, <2>2
<1>2. /\ job[t] = "none" /\ at[t] = "idle" /\ tab = t
      /\ script[t] = <<>> /\ done[t] = 0 /\ failed[t] = FALSE
  BY VisitNow, PlacesOfJobs DEF Start, VisitOK
<1>3. VisitOK(j, a, l, <<>>, 0, open[t], FALSE)
  <2>1. <<>> \in Seq(Copy) /\ Len(<<>>) = 0
    BY EmptySeq
  <2> QED BY <1>1, <1>2, <2>1, VisitNow DEF VisitOK, Places, Jobs
<1>4. Becomes(t, j, a, l, <<>>, 0, open[t], FALSE, result[t])
  BY <1>1, <1>2, Same DEF Start, Goto, Becomes, TypeInv
<1>5. Functions' /\ VisitsOK'
  <2>1. crossed' \in [Tabs -> BOOLEAN]
    BY StartCrosses
  <2> QED BY <1>3, <1>4, <2>1, VisitType, VisitNow
<1>6. Visited'
  <2>1. \A u \in Tabs \ {t} : job'[u] = job[u]
    <3>1. job \in [Tabs -> Jobs \cup {"none"}] /\ job' = [job EXCEPT ![t] = j]
      BY <1>4 DEF TypeInv, Functions, Becomes
    <3> QED BY <3>1
  <2>2. t <= visits /\ jobs + 1 \in 0..MaxJobs
    BY <1>2, UsbAssumption DEF Start, TypeInv, Visited, UsbAssumption
  <2>3. ASSUME NEW u \in Tabs, u > visits PROVE job'[u] = "none"
    <3>1. u # t
      BY <2>2, <2>3, UsbAssumption DEF TypeInv, Visited, Tabs, UsbAssumption
    <3> QED BY <2>1, <2>3, <3>1 DEF TypeInv, Visited
  <2>4. at'[t] # "idle"
    BY <1>4 DEF Becomes, TypeInv, Functions
  <2>5. \A u \in Tabs : at'[u] = "idle" /\ tab' = u => job'[u] = "none"
    BY <1>2, <2>4 DEF Start, tabVars
  <2> QED BY <2>2, <2>3, <2>5 DEF Start, TypeInv, Visited, tabVars
<1>7. Folders'
  BY FoldersStay DEF Start, TypeInv
<1> QED BY <1>5, <1>6, <1>7 DEF TypeInv

LEMMA TypeStep == ASSUME TypeInv, [Next]_vars PROVE TypeInv'
<1>1. CASE \E t \in Tabs : JobStep(t)
  BY <1>1, JobStepType
<1>2. CASE Enter
  BY <1>2, EnterType
<1>3. CASE \E t \in Tabs, j \in Jobs : Start(t, j)
  BY <1>3, StartType
<1>4. CASE Leave
  <2>1. Functions' /\ VisitsOK' /\ Folders'
    BY <1>4, FoldersStay DEF Leave, TypeInv, workVars, Functions, VisitsOK, Results
  <2>2. Visited'
    BY <1>4, UsbAssumption DEF Leave, TypeInv, workVars, Visited, Tabs, UsbAssumption
  <2> QED BY <2>1, <2>2 DEF TypeInv
<1>5. CASE PhoneChanges
  <2>1. Functions' /\ VisitsOK' /\ Visited'
    BY <1>5 DEF PhoneChanges, TypeInv, jobVars, workVars, tabVars, Functions, VisitsOK, Visited
  <2>2. Folders'
    BY <1>5 DEF PhoneChanges, TypeInv, Folders, IsDirectory
  <2> QED BY <2>1, <2>2 DEF TypeInv
<1>6. CASE UNCHANGED vars
  <2>1. Functions' /\ VisitsOK' /\ Visited'
    BY <1>6 DEF vars, TypeInv, jobVars, workVars, tabVars, Functions, VisitsOK, Visited
  <2> QED BY <1>6, <2>1, FoldersStay DEF TypeInv, vars
<1> QED BY <1>1, <1>2, <1>3, <1>4, <1>5, <1>6 DEF Next, UserStep

\* The variables have their types, the visit on screen is busy exactly while its action is
\* somewhere, and only a tool at work has a file open; however many visits are at work at
\* once.
THEOREM TypeCorrect == Spec => []TypeOK
<1>1. Spec => []TypeInv
  BY TypeInit, TypeStep, PTL DEF Spec
<1> QED BY <1>1, TypeInvImpliesTypeOK, PTL

-----------------------------------------------------------------------------
(* The work of an action *)

\* The copies s of an action have paths of their own.
Distinct(s) == \A i, j \in 1..Len(s) : i # j => s[i].path # s[j].path

\* The copies of a pull: those to come have paths that do not exist, the one that
\* is under way is partial, and those that are through are here unless the tool has
\* printed an error.
Pulled(a, s, n, o, f, dir) ==
    /\ Distinct(s)
    /\ \A i \in 1..Len(s) :
          /\ i > n /\ ~(o /\ i = n + 1) => s[i].path \notin DOMAIN dir
          /\ o /\ i = n + 1 => s[i].path \in DOMAIN dir /\ dir[s[i].path] = Partial
          /\ ~f /\ i <= n /\ Safe[s[i].what] = s[i].what =>
                s[i].path \in DOMAIN dir /\ dir[s[i].path] = s[i].what
    /\ a = "refresh" => n = Len(s) /\ ~f

\* The files of a push or an export are complete in the local folder, but for the
\* one that is about to be written.
Exported(a, s, dir) ==
    /\ Distinct(s)
    /\ a \in {"pick", "write", "stat", "mkdir", "put"} =>
          \A i \in 1..Len(s) :
             IF a = "write" /\ i = Len(s) THEN s[i].path \notin DOMAIN dir
             ELSE s[i].path \in DOMAIN dir /\ dir[s[i].path] = s[i].what

\* The copies of a push that are through are on the phone unless the tool has
\* printed an error.
Pushed(a, s, n, f, dir) ==
    /\ a \in {"put", "refresh"} /\ ~f =>
          \A i \in 1..n : s[i].path \in DOMAIN dir /\ dir[s[i].path] = s[i].what
    /\ a = "refresh" => n = Len(s) /\ ~f

WorkOK(j, a, s, n, o, f, in, out, phone) ==
    a # "idle" => /\ j = "pull" => Pulled(a, s, n, o, f, in)
                  /\ j \in {"push", "export"} => Exported(a, s, out)
                  /\ j = "push" => Pushed(a, s, n, f, phone)

Work(t) == WorkOK(job[t], at[t], script[t], done[t], open[t], failed[t], inbox, outbox, phoneIn)

\* Two actions on one folder cross each other, and one that is not crossed does its work.
WorkInv ==
    /\ \A s, t \in Tabs :
          s # t /\ at[s] # "idle" /\ at[t] # "idle" /\ Folder(job[s]) = Folder(job[t])
             /\ Folder(job[t]) # "none" => crossed[t]
    /\ \A t \in Tabs : ~crossed[t] => Work(t)

\* An action that has prepared no copy yet.
LEMMA NoCopyYet ==
    ASSUME NEW j, NEW a, NEW o, NEW in, NEW out, NEW phone
    PROVE  WorkOK(j, a, <<>>, 0, o, FALSE, in, out, phone)
<1>1. Len(<<>>) = 0
  BY EmptySeq
<1> QED BY <1>1 DEF WorkOK, Pulled, Exported, Pushed, Distinct

LEMMA WorkInit == ASSUME Init PROVE WorkInv
BY DEF Init, WorkInv, Work, WorkOK

\* A step of an action changes no other visit, and can only end its own.
LEMMA JobStays ==
    ASSUME TypeInv, NEW t \in Tabs, JobStep(t)
    PROVE  /\ at[t] # "idle" /\ job[t] # "none" /\ tab' = tab
           /\ job' \in {job, [job EXCEPT ![t] = "none"]}
           /\ crossed' \in {crossed, [crossed EXCEPT ![t] = FALSE]}
           /\ \A u \in Tabs \ {t} :
                 /\ at'[u] = at[u] /\ script'[u] = script[u] /\ done'[u] = done[u]
                 /\ open'[u] = open[u] /\ failed'[u] = failed[u]
<1>1. at[t] # "idle" /\ tab' = tab
  BY DEF JobStep, Detected, FolderReady, Listed, LocalName, OutboxName, OutboxWritten, Checked,
         CopyRefused, CopyBegins, CopyEnds, Copying, ToolExits, ToolFails, Scanned, Cleared, Refreshed,
         tabVars
<1>2. job[t] # "none"
  BY <1>1, VisitNow, PlacesOfJobs DEF VisitOK
<1>3. /\ job' \in {job, [job EXCEPT ![t] = "none"]}
      /\ crossed' \in {crossed, [crossed EXCEPT ![t] = FALSE]}
  BY DEF JobStep, Detected, FolderReady, Listed, LocalName, OutboxName, OutboxWritten, Checked,
         CopyRefused, CopyBegins, CopyEnds, Copying, ToolExits, ToolFails, Scanned, Cleared, Refreshed,
         Ends, Fails, Forgets, workVars
<1>4. ASSUME NEW u \in Tabs \ {t}
      PROVE  /\ at'[u] = at[u] /\ script'[u] = script[u] /\ done'[u] = done[u]
             /\ open'[u] = open[u] /\ failed'[u] = failed[u]
  <2> USE DEF TypeInv, Functions, Goto, Ends, Fails, Forgets, workVars
  <2>1. CASE Detected(t)
    BY <1>4, <2>1 DEF Detected
  <2>2. CASE FolderReady(t)
    BY <1>4, <2>2 DEF FolderReady
  <2>3. CASE Listed(t)
    BY <1>4, <2>3 DEF Listed
  <2>4. CASE LocalName(t)
    BY <1>4, <2>4 DEF LocalName
  <2>5. CASE OutboxName(t)
    BY <1>4, <2>5 DEF OutboxName
  <2>6. CASE OutboxWritten(t)
    BY <1>4, <2>6 DEF OutboxWritten
  <2>7. CASE Checked(t)
    BY <1>4, <2>7 DEF Checked
  <2>8. CASE CopyRefused(t)
    BY <1>4, <2>8 DEF CopyRefused
  <2>9. CASE CopyBegins(t)
    BY <1>4, <2>9 DEF CopyBegins
  <2>10. CASE CopyEnds(t)
    BY <1>4, <2>10 DEF CopyEnds
  <2>11. CASE ToolExits(t)
    BY <1>4, <2>11 DEF ToolExits
  <2>12. CASE ToolFails(t)
    BY <1>4, <2>12 DEF ToolFails
  <2>13. CASE Scanned(t)
    BY <1>4, <2>13 DEF Scanned
  <2>14. CASE Cleared(t)
    BY <1>4, <2>14 DEF Cleared
  <2>15. CASE Refreshed(t)
    BY <1>4, <2>15 DEF Refreshed
  <2> QED BY <2>1, <2>2, <2>3, <2>4, <2>5, <2>6, <2>7, <2>8, <2>9, <2>10, <2>11, <2>12, <2>13, <2>14, <2>15 DEF JobStep
<1> QED BY <1>1, <1>2, <1>3, <1>4

\* An action touches no folder but its own, and the phone's with the local USB-Outbox.
LEMMA OtherFoldersStay ==
    ASSUME TypeInv, NEW t \in Tabs, JobStep(t)
    PROVE  /\ Folder(job[t]) # "inbox" => UNCHANGED inbox
           /\ Folder(job[t]) # "outbox" => UNCHANGED <<outbox, phoneIn>>
<1>1. CASE OutboxWritten(t) \/ Cleared(t)
  <2>1. job[t] \in {"push", "export", "clear"} /\ UNCHANGED <<inbox, phoneIn>>
    BY <1>1, VisitNow DEF OutboxWritten, Cleared, VisitOK, Places, Jobs
  <2> QED BY <2>1 DEF Folder
<1>2. CASE CopyBegins(t) \/ CopyEnds(t)
  <2>1. CASE at[t] = "get"
    <3>1. job[t] = "pull" /\ UNCHANGED <<outbox, phoneIn>>
      BY <1>2, <2>1, VisitNow DEF CopyBegins, CopyEnds, Target, VisitOK, Places, Jobs
    <3> QED BY <3>1 DEF Folder
  <2>2. CASE at[t] = "put"
    <3>1. job[t] = "push" /\ UNCHANGED inbox
      BY <1>2, <2>2, VisitNow DEF CopyBegins, CopyEnds, Target, VisitOK, Places, Jobs
    <3> QED BY <3>1 DEF Folder
  <2> QED BY <1>2, <2>1, <2>2 DEF CopyBegins, CopyEnds, Copying
<1>3. CASE \/ Detected(t) \/ FolderReady(t) \/ Listed(t) \/ LocalName(t) \/ OutboxName(t)
           \/ Checked(t) \/ CopyRefused(t) \/ ToolExits(t) \/ ToolFails(t) \/ Scanned(t)
           \/ Refreshed(t)
  BY <1>3 DEF Detected, FolderReady, Listed, LocalName, OutboxName, Checked, CopyRefused,
     ToolExits, ToolFails, Scanned, Refreshed, dirVars
<1> QED BY <1>1, <1>2, <1>3 DEF JobStep

\* The mark of an action goes only with the action.
LEMMA Crosses ==
    ASSUME TypeInv, NEW t \in Tabs, JobStep(t), at'[t] # "idle"
    PROVE  UNCHANGED crossed
<1>1. ~Ends(t)
  BY DEF Ends, Goto, TypeInv, Functions
<1> QED BY <1>1 DEF JobStep, Detected, FolderReady, Listed, LocalName, OutboxName, OutboxWritten,
         Checked, CopyRefused, CopyBegins, CopyEnds, ToolExits, ToolFails, Scanned, Cleared, Refreshed,
         Fails, workVars

\* So the visit whose action it is, is enough to look at.
LEMMA WorkOfOne ==
    ASSUME TypeInv, WorkInv, NEW t \in Tabs, JobStep(t), ~crossed[t] => Work(t)'
    PROVE  WorkInv'
<1>1. ASSUME NEW r \in Tabs, NEW u \in Tabs, r # u, at'[r] # "idle", at'[u] # "idle",
             Folder(job'[r]) = Folder(job'[u]), Folder(job'[u]) # "none"
      PROVE  crossed'[u]
  <2>1. /\ job \in [Tabs -> Jobs \cup {"none"}] /\ crossed \in [Tabs -> BOOLEAN]
        /\ at' \in [Tabs -> AllPlaces] /\ Functions'
    BY JobStepType DEF TypeInv, Functions
  <2>2. \A v \in Tabs : Folder(job'[v]) # "none" => job'[v] = job[v]
    BY <2>1, JobStays DEF Folder
  <2>3. \A v \in Tabs : at'[v] # "idle" => at[v] # "idle" /\ crossed'[v] = crossed[v]
    <3> SUFFICES ASSUME NEW v \in Tabs, at'[v] # "idle"
                 PROVE  at[v] # "idle" /\ crossed'[v] = crossed[v]
      OBVIOUS
    <3>1. CASE v = t
      BY <3>1, Crosses, JobStays
    <3>2. CASE v # t
      BY <2>1, <3>2, JobStays
    <3> QED BY <3>1, <3>2
  <2>4. job'[u] = job[u] /\ job'[r] = job[r]
    BY <1>1, <2>2
  <2> QED BY <1>1, <2>3, <2>4 DEF WorkInv
<1>2. ASSUME NEW u \in Tabs, ~crossed'[u] PROVE Work(u)'
  <2>1. CASE u = t
    <3>1. CASE at'[t] = "idle"
      BY <2>1, <3>1 DEF Work, WorkOK
    <3>2. CASE at'[t] # "idle"
      BY <1>2, <2>1, <3>2, Crosses
    <3> QED BY <3>1, <3>2
  <2>2. CASE u # t /\ at[u] = "idle"
    BY <2>2, JobStays DEF Work, WorkOK
  <2>3. CASE u # t /\ at[u] # "idle"
    <3>1. job'[u] = job[u] /\ crossed'[u] = crossed[u]
      BY <2>3, JobStays DEF TypeInv, Functions
    <3>2. Folder(job[u]) # "none" => Folder(job[t]) # Folder(job[u])
      BY <1>2, <2>3, <3>1, JobStays DEF WorkInv
    <3>3. Work(u)
      BY <1>2, <3>1 DEF WorkInv
    <3>4. /\ at'[u] = at[u] /\ script'[u] = script[u] /\ done'[u] = done[u]
          /\ open'[u] = open[u] /\ failed'[u] = failed[u]
      BY <2>3, JobStays
    <3>5. CASE job[u] = "pull"
      <4>1. UNCHANGED inbox
        BY <3>2, <3>5, OtherFoldersStay DEF Folder
      <4> QED BY <3>1, <3>3, <3>4, <3>5, <4>1 DEF Work, WorkOK
    <3>6. CASE job[u] \in {"push", "export"}
      <4>1. UNCHANGED <<outbox, phoneIn>>
        BY <3>2, <3>6, OtherFoldersStay DEF Folder
      <4> QED BY <3>1, <3>3, <3>4, <3>6, <4>1 DEF Work, WorkOK
    <3>7. CASE job[u] \notin {"pull", "push", "export"}
      BY <3>1, <3>7 DEF Work, WorkOK
    <3> QED BY <3>5, <3>6, <3>7
  <2> QED BY <2>1, <2>2, <2>3
<1> QED BY <1>1, <1>2 DEF WorkInv

\* The work of the visit before the step.
LEMMA WorkNow ==
    ASSUME WorkInv, NEW t \in Tabs, ~crossed[t], at[t] # "idle"
    PROVE  /\ job[t] = "pull" => Pulled(at[t], script[t], done[t], open[t], failed[t], inbox)
           /\ job[t] \in {"push", "export"} => Exported(at[t], script[t], outbox)
           /\ job[t] = "push" => Pushed(at[t], script[t], done[t], failed[t], phoneIn)
BY DEF WorkInv, Work, WorkOK

\* An action that has ended has nothing to keep.
LEMMA NothingAtWork ==
    ASSUME TypeInv, NEW t \in Tabs, Ends(t)
    PROVE  Work(t)'
<1>1. at'[t] = "idle"
  BY DEF Ends, Goto, TypeInv, Functions
<1> QED BY <1>1 DEF Work, WorkOK

\* Nor one that has failed: an export keeps only that its copies are distinct.
LEMMA FailedAtWork ==
    ASSUME TypeInv, WorkInv, NEW t \in Tabs, ~crossed[t], JobStep(t), Fails(t)
    PROVE  Work(t)'
<1>1. CASE /\ job[t] \in {"export", "clear"} /\ Goto(t, "refresh")
           /\ UNCHANGED <<workVars, result>>
  <2>1. at'[t] = "refresh" /\ job'[t] = job[t]
    BY <1>1 DEF Goto, TypeInv, Functions, workVars
  <2>2. at[t] # "idle"
    BY JobStays
  <2>3. job[t] = "export" => Exported("refresh", script[t], outbox')
    BY <2>2, WorkNow DEF Exported
  <2> QED BY <1>1, <2>1, <2>3 DEF Work, WorkOK, workVars
<1>2. CASE Ends(t)
  BY <1>2, NothingAtWork
<1> QED BY <1>1, <1>2 DEF Fails

\* Detecting the device and preparing the folder: no copy has been made.
LEMMA DetectedWork == ASSUME TypeInv, WorkInv, NEW t \in Tabs, ~crossed[t], Detected(t) PROVE Work(t)'
<1>1. JobStep(t)
  BY DEF JobStep
<1>2. CASE Ends(t)
  BY <1>1, <1>2, NothingAtWork
<1>3. CASE UNCHANGED workVars
  <2>1. script'[t] = <<>> /\ done'[t] = 0 /\ failed'[t] = FALSE
    BY <1>3, VisitNow DEF Detected, VisitOK, workVars
  <2> QED BY <1>1, <2>1, NoCopyYet DEF Work
<1> QED BY <1>2, <1>3 DEF Detected

LEMMA FolderReadyWork == ASSUME TypeInv, WorkInv, NEW t \in Tabs, ~crossed[t], FolderReady(t) PROVE Work(t)'
<1>1. JobStep(t)
  BY DEF JobStep
<1>2. at[t] = "mkdir" /\ at'[t] = (IF job[t] = "pull" THEN "list" ELSE "put") /\ done[t] = 0
      /\ job[t] \in {"pull", "push"}
  BY VisitNow DEF FolderReady, Goto, TypeInv, Functions, VisitOK, Places, Jobs
<1>3. WorkOK(job[t], at'[t], script[t], done[t], open[t], failed[t], inbox, outbox, phoneIn)
  <2>1. job[t] = "pull" => Pulled(at'[t], script[t], done[t], open[t], failed[t], inbox)
    BY <1>2, WorkNow DEF Pulled
  <2>2. job[t] = "push" => /\ Exported(at'[t], script[t], outbox)
                           /\ Pushed(at'[t], script[t], done[t], failed[t], phoneIn)
    BY <1>2, WorkNow DEF Exported, Pushed
  <2> QED BY <1>2, <2>1, <2>2 DEF WorkOK
<1> QED BY <1>1, <1>3 DEF Work, FolderReady, dirVars

LEMMA ListedWork == ASSUME TypeInv, WorkInv, NEW t \in Tabs, ~crossed[t], Listed(t) PROVE Work(t)'
<1>1. JobStep(t)
  BY DEF JobStep
<1>2. script'[t] = <<>> /\ done'[t] = 0 /\ failed'[t] = FALSE
  BY VisitNow DEF Listed, VisitOK
<1> QED BY <1>1, <1>2, NoCopyYet DEF Work

\* A file of a pull gets a path that neither exists nor is reserved.
LEMMA LocalNameWork == ASSUME TypeInv, WorkInv, NEW t \in Tabs, ~crossed[t], LocalName(t) PROVE Work(t)'
<1>1. JobStep(t) /\ at[t] = "name" /\ job[t] = "pull" /\ script[t] \in Seq(Copy) /\ done[t] = 0
      /\ ~open[t] /\ ~failed[t] /\ todo[t] \in Seq(Names) /\ todo[t] # <<>>
  BY VisitNow DEF JobStep, LocalName, VisitOK, Places, Jobs
<1>2. PICK x : x = [what |-> Head(todo[t]),
                    path |-> FreeReservedPath(inbox, Safe[Head(todo[t])], Copies(t))]
  OBVIOUS
<1>3. x \in Copy /\ x.path \notin DOMAIN inbox /\ x.path \notin Copies(t)
  <2>1. Head(todo[t]) \in Names /\ Safe[Head(todo[t])] \in Names
    BY <1>1, ListSteps, UsbAssumption DEF UsbAssumption
  <2>2. /\ FreeReservedPath(inbox, Safe[Head(todo[t])], Copies(t)) \in Paths
        /\ FreeReservedPath(inbox, Safe[Head(todo[t])], Copies(t)) \notin DOMAIN inbox
        /\ FreeReservedPath(inbox, Safe[Head(todo[t])], Copies(t)) \notin Copies(t)
    BY <2>1, CopiesAreFinite, FreeReservedIsFree DEF TypeInv, Folders
  <2> QED BY <1>2, <2>1, <2>2 DEF Copy
<1>4. PICK s : s = Append(script[t], x)
  OBVIOUS
<1>5. Len(s) = Len(script[t]) + 1 /\ s[Len(script[t]) + 1] = x /\ Len(script[t]) \in Nat
      /\ \A i \in 1..Len(script[t]) : s[i] = script[t][i]
  BY <1>1, <1>3, <1>4, ListSteps
<1>6. script'[t] = s /\ done'[t] = 0 /\ open'[t] = FALSE /\ failed'[t] = FALSE /\ job'[t] = "pull"
      /\ at'[t] # "refresh" /\ inbox' = inbox
  BY <1>1, <1>2, <1>4 DEF LocalName, Goto, TypeInv, Functions, dirVars
<1>7. Pulled(at'[t], s, 0, FALSE, FALSE, inbox)
  <2>1. Pulled("name", script[t], 0, FALSE, FALSE, inbox)
    BY <1>1, WorkNow DEF TypeInv, Functions
  <2>2. \A i \in 1..Len(script[t]) : script[t][i].path \notin DOMAIN inbox
                                     /\ script[t][i].path # x.path
    BY <1>3, <2>1 DEF Pulled, Copies
  <2>3. \A i \in 1..Len(s) : i \in 1..Len(script[t]) \/ i = Len(script[t]) + 1
    BY <1>5
  <2>4. Distinct(s)
    BY <1>5, <2>1, <2>2, <2>3 DEF Pulled, Distinct
  <2>5. \A i \in 1..Len(s) : s[i].path \notin DOMAIN inbox
    BY <1>3, <1>5, <2>2, <2>3
  <2> QED BY <1>6, <2>4, <2>5 DEF Pulled
<1> QED BY <1>1, <1>6, <1>7 DEF Work, WorkOK

\* A selected file gets a path that does not exist, so none of an earlier one.
LEMMA OutboxNameWork == ASSUME TypeInv, WorkInv, NEW t \in Tabs, ~crossed[t], OutboxName(t) PROVE Work(t)'
<1>1. JobStep(t) /\ at[t] = "pick" /\ job[t] \in {"push", "export"} /\ script[t] \in Seq(Copy)
      /\ todo[t] \in Seq(PcFiles) /\ todo[t] # <<>>
  BY VisitNow DEF JobStep, OutboxName, VisitOK, Places, Jobs
<1>2. PICK x : x = [what |-> Head(todo[t]),
                    path |-> FreePath(outbox, Safe[NameOf[Head(todo[t])]])]
  OBVIOUS
<1>3. x \in Copy /\ x.path \notin DOMAIN outbox
  <2>1. Head(todo[t]) \in PcFiles /\ Safe[NameOf[Head(todo[t])]] \in Names
    BY <1>1, ListSteps, UsbAssumption DEF UsbAssumption
  <2>2. /\ FreePath(outbox, Safe[NameOf[Head(todo[t])]]) \in Paths
        /\ FreePath(outbox, Safe[NameOf[Head(todo[t])]]) \notin DOMAIN outbox
    BY <2>1, FreePathIsFree DEF TypeInv, Folders
  <2> QED BY <1>2, <2>1, <2>2 DEF Copy
<1>4. PICK s : s = Append(script[t], x)
  OBVIOUS
<1>5. Len(s) = Len(script[t]) + 1 /\ s[Len(script[t]) + 1] = x /\ Len(script[t]) \in Nat
      /\ \A i \in 1..Len(script[t]) : s[i] = script[t][i]
  BY <1>1, <1>3, <1>4, ListSteps
<1>6. script'[t] = s /\ job'[t] = job[t] /\ at'[t] = "write" /\ outbox' = outbox
  BY <1>1, <1>2, <1>4 DEF OutboxName, Goto, TypeInv, Functions, dirVars
<1>7. Exported("write", s, outbox)
  <2>1. Exported("pick", script[t], outbox)
    BY <1>1, WorkNow
  <2>2. \A i \in 1..Len(script[t]) :
           /\ script[t][i].path \in DOMAIN outbox /\ outbox[script[t][i].path] = script[t][i].what
           /\ script[t][i].path # x.path
    BY <1>3, <2>1 DEF Exported
  <2>3. \A i \in 1..Len(s) : i \in 1..Len(script[t]) \/ i = Len(script[t]) + 1
    BY <1>5
  <2>4. Distinct(s)
    BY <1>5, <2>1, <2>2, <2>3 DEF Exported, Distinct
  <2>5. \A i \in 1..Len(s) : i # Len(s) => i \in 1..Len(script[t])
    BY <1>5
  <2> QED BY <1>3, <1>5, <2>2, <2>4, <2>5 DEF Exported
<1> QED BY <1>1, <1>6, <1>7 DEF Work, WorkOK, Pushed

\* A copy is written at a path that does not exist, so the earlier ones stay.
LEMMA OutboxWrittenWork == ASSUME TypeInv, WorkInv, NEW t \in Tabs, ~crossed[t], OutboxWritten(t) PROVE Work(t)'
<1>1. JobStep(t) /\ at[t] = "write" /\ job[t] \in {"push", "export"} /\ script[t] \in Seq(Copy)
      /\ script[t] # <<>>
  BY VisitNow DEF JobStep, OutboxWritten, VisitOK, Places, Jobs
<1>2. CASE Fails(t)
  BY <1>1, <1>2, FailedAtWork
<1>3. CASE /\ outbox' = WriteFile(outbox, Last(script[t]).path, Last(script[t]).what)
           /\ Goto(t, CASE todo[t] # <<>> -> "pick" [] job[t] = "push" -> "stat"
                        [] OTHER -> "refresh")
           /\ UNCHANGED <<workVars, result>>
  <2>1. PICK copy : copy = Last(script[t])
    OBVIOUS
  <2>2. Len(script[t]) \in Nat \ {0} /\ copy = script[t][Len(script[t])]
    BY <1>1, <2>1, EmptySeq DEF Last
  <2>3. /\ copy.path \in DOMAIN outbox' /\ outbox'[copy.path] = copy.what
        /\ \A q \in DOMAIN outbox : q \in DOMAIN outbox' /\ (q # copy.path => outbox'[q] = outbox[q])
    BY <1>3, <2>1 DEF WriteFile
  <2>4. Exported("write", script[t], outbox)
    BY <1>1, WorkNow
  <2>5. \A i \in 1..Len(script[t]) :
           script[t][i].path \in DOMAIN outbox' /\ outbox'[script[t][i].path] = script[t][i].what
    <3> SUFFICES ASSUME NEW i \in 1..Len(script[t])
                 PROVE  script[t][i].path \in DOMAIN outbox'
                        /\ outbox'[script[t][i].path] = script[t][i].what
      OBVIOUS
    <3>1. CASE i = Len(script[t])
      BY <2>2, <2>3, <3>1
    <3>2. CASE i # Len(script[t])
      <4>1. script[t][i].path \in DOMAIN outbox /\ outbox[script[t][i].path] = script[t][i].what
        BY <2>4, <3>2 DEF Exported
      <4>2. script[t][i].path # copy.path
        BY <2>2, <2>4, <3>2 DEF Exported, Distinct
      <4> QED BY <2>3, <4>1, <4>2
    <3> QED BY <3>1, <3>2
  <2>6. at'[t] \in {"pick", "stat", "refresh"} /\ (job[t] = "push" => at'[t] # "refresh")
    BY <1>3 DEF Goto, TypeInv, Functions
  <2>7. Exported(at'[t], script[t], outbox')
    BY <2>4, <2>5, <2>6 DEF Exported
  <2>8. job[t] = "push" => Pushed(at'[t], script[t], done'[t], failed'[t], phoneIn')
    BY <2>6 DEF Pushed
  <2> QED BY <1>1, <1>3, <2>7, <2>8 DEF Work, WorkOK, workVars
<1> QED BY <1>2, <1>3 DEF OutboxWritten

LEMMA CheckedWork == ASSUME TypeInv, WorkInv, NEW t \in Tabs, ~crossed[t], Checked(t) PROVE Work(t)'
<1>1. JobStep(t) /\ at[t] = "stat" /\ job[t] = "push" /\ UNCHANGED dirVars
  BY VisitNow DEF JobStep, Checked, VisitOK, Places, Jobs
<1>2. CASE Fails(t)
  BY <1>1, <1>2, FailedAtWork
<1>3. CASE Goto(t, IF done[t] + 1 = Len(script[t]) THEN "mkdir" ELSE "stat")
           /\ UNCHANGED <<job, script>>
  <2>1. at'[t] \in {"mkdir", "stat"}
    BY <1>3 DEF Goto, TypeInv, Functions
  <2>2. Exported(at'[t], script[t], outbox')
    BY <1>1, <2>1, WorkNow DEF Exported, dirVars
  <2>3. Pushed(at'[t], script[t], done'[t], failed'[t], phoneIn')
    BY <2>1 DEF Pushed
  <2> QED BY <1>1, <1>3, <2>2, <2>3 DEF Work, WorkOK
<1> QED BY <1>2, <1>3 DEF Checked

\* What holds while the tool works off its script.
LEMMA Tooling ==
    ASSUME TypeInv, WorkInv, NEW t \in Tabs, ~crossed[t], at[t] \in {"get", "put"}
    PROVE  /\ at[t] = "get" => /\ job[t] = "pull"
                               /\ Pulled("get", script[t], done[t], open[t], failed[t], inbox)
           /\ at[t] = "put" => /\ job[t] = "push"
                               /\ Exported("put", script[t], outbox)
                               /\ Pushed("put", script[t], done[t], failed[t], phoneIn)
           /\ Len(script[t]) \in Nat /\ done[t] \in 0..Len(script[t]) /\ failed[t] \in BOOLEAN
<1>1. /\ at[t] = "get" => job[t] = "pull" 
      /\ at[t] = "put" => job[t] = "push"
  BY VisitNow DEF VisitOK, Places, Jobs
<1>2. Len(script[t]) \in Nat /\ done[t] \in 0..Len(script[t]) /\ failed[t] \in BOOLEAN
  BY VisitNow, ListSteps DEF VisitOK
<1> QED BY <1>1, <1>2, WorkNow

LEMMA CopyRefusedWork == ASSUME TypeInv, WorkInv, NEW t \in Tabs, ~crossed[t], CopyRefused(t) PROVE Work(t)'
<1>1. JobStep(t) /\ at[t] \in {"get", "put"} /\ UNCHANGED <<script, dirVars, job, at>>
  BY DEF JobStep, CopyRefused, Copying
<1>2. done'[t] = done[t] + 1 /\ open'[t] = FALSE /\ failed'[t] = TRUE
  BY DEF CopyRefused, TypeInv, Functions
<1>3. at[t] = "get" => Pulled("get", script[t], done[t] + 1, FALSE, TRUE, inbox)
  BY <1>1, Tooling DEF Pulled
<1>4. at[t] = "put" => Pushed("put", script[t], done[t] + 1, TRUE, phoneIn)
  BY DEF Pushed
<1> QED BY <1>1, <1>2, <1>3, <1>4, Tooling DEF Work, WorkOK, dirVars

\* The target is begun at a path of its own: what is through stays.
LEMMA CopyBeginsWork == ASSUME TypeInv, WorkInv, NEW t \in Tabs, ~crossed[t], CopyBegins(t) PROVE Work(t)'
<1>1. JobStep(t) /\ at[t] \in {"get", "put"} /\ UNCHANGED <<script, outbox, job, at, done, failed>>
      /\ ~open[t]
  BY DEF JobStep, CopyBegins, Copying
<1>2. PICK k : k = done[t] + 1
  OBVIOUS
<1>3. k \in 1..Len(script[t]) /\ \A i \in 1..Len(script[t]) : i > done[t] /\ i # k => i > k
  BY <1>1, <1>2, CopyingType DEF CopyBegins
<1>4. open'[t] = TRUE /\ Target(t, script[t][k], Partial)
  BY <1>2 DEF CopyBegins, TypeInv, Functions
<1>5. CASE at[t] = "get"
  <2>1. inbox' = WriteFile(inbox, script[t][k].path, Partial)
    BY <1>4, <1>5 DEF Target
  <2>2. /\ script[t][k].path \in DOMAIN inbox' /\ inbox'[script[t][k].path] = Partial
        /\ \A q : q # script[t][k].path =>
              (q \in DOMAIN inbox' <=> q \in DOMAIN inbox) /\ (q \in DOMAIN inbox => inbox'[q] = inbox[q])
    BY <2>1 DEF WriteFile
  <2>3. Pulled("get", script[t], done[t], open[t], failed[t], inbox) /\ job[t] = "pull"
    BY <1>5, Tooling
  <2>4. \A i \in 1..Len(script[t]) : i # k => script[t][i].path # script[t][k].path
    BY <1>3, <2>3 DEF Pulled, Distinct
  <2>5. Pulled("get", script[t], done[t], TRUE, failed[t], inbox')
    <3> SUFFICES ASSUME NEW i \in 1..Len(script[t])
                 PROVE  /\ i > done[t] /\ i # k => script[t][i].path \notin DOMAIN inbox'
                        /\ i = k => script[t][i].path \in DOMAIN inbox'
                                    /\ inbox'[script[t][i].path] = Partial
                        /\ ~failed[t] /\ i <= done[t] /\ Safe[script[t][i].what] = script[t][i].what =>
                              /\ script[t][i].path \in DOMAIN inbox'
                              /\ inbox'[script[t][i].path] = script[t][i].what
      BY <1>2, <2>3 DEF Pulled
    <3>1. i <= done[t] => i # k
      BY <1>1, <1>2, Tooling
    <3> QED BY <1>1, <2>2, <2>3, <2>4, <3>1 DEF Pulled
  <2> QED BY <1>1, <1>4, <1>5, <2>3, <2>5 DEF Work, WorkOK
<1>6. CASE at[t] = "put"
  <2>1. phoneIn' = WriteFile(phoneIn, script[t][k].path, Partial)
    BY <1>4, <1>6 DEF Target
  <2>2. /\ job[t] = "push" /\ Exported("put", script[t], outbox)
        /\ Pushed("put", script[t], done[t], failed[t], phoneIn)
    BY <1>6, Tooling
  <2>3. Pushed("put", script[t], done[t], failed[t], phoneIn')
    <3> SUFFICES ASSUME NEW i \in 1..done[t], ~failed[t]
                 PROVE  script[t][i].path \in DOMAIN phoneIn'
                        /\ phoneIn'[script[t][i].path] = script[t][i].what
      BY DEF Pushed
    <3>1. i \in 1..Len(script[t]) /\ i # k
      BY <1>1, <1>2, Tooling
    <3>2. script[t][i].path # script[t][k].path
      BY <1>3, <2>2, <3>1 DEF Exported, Distinct
    <3> QED BY <2>1, <2>2, <3>2 DEF Pushed, WriteFile
  <2> QED BY <1>1, <1>6, <2>2, <2>3 DEF Work, WorkOK
<1> QED BY <1>1, <1>5, <1>6

\* The target is completed: a pull asks for the safe name, a push for the local copy.
LEMMA CopyEndsWork == ASSUME TypeInv, WorkInv, NEW t \in Tabs, ~crossed[t], CopyEnds(t) PROVE Work(t)'
<1>1. JobStep(t) /\ at[t] \in {"get", "put"} /\ UNCHANGED <<script, outbox, job, at, failed>>
      /\ open[t]
  BY DEF JobStep, CopyEnds, Copying
<1>2. PICK k : k = done[t] + 1
  OBVIOUS
<1>3. k \in 1..Len(script[t])
  BY <1>1, <1>2, CopyingType DEF CopyEnds
<1>4. done'[t] = k /\ open'[t] = FALSE
  BY <1>2 DEF CopyEnds, TypeInv, Functions
<1>5. PICK x \in Sources(t, script[t][k]) : Target(t, script[t][k], x)
  BY <1>2 DEF CopyEnds
<1>6. CASE at[t] = "get"
  <2>1. inbox' = WriteFile(inbox, script[t][k].path, x) /\ x = Safe[script[t][k].what]
    BY <1>5, <1>6 DEF Target, Sources
  <2>2. /\ script[t][k].path \in DOMAIN inbox' /\ inbox'[script[t][k].path] = x
        /\ \A q : q # script[t][k].path =>
              (q \in DOMAIN inbox' <=> q \in DOMAIN inbox) /\ (q \in DOMAIN inbox => inbox'[q] = inbox[q])
    BY <2>1 DEF WriteFile
  <2>3. Pulled("get", script[t], done[t], open[t], failed[t], inbox) /\ job[t] = "pull"
    BY <1>6, Tooling
  <2>4. \A i \in 1..Len(script[t]) : i # k => script[t][i].path # script[t][k].path
    BY <1>3, <2>3 DEF Pulled, Distinct
  <2>5. Pulled("get", script[t], k, FALSE, failed[t], inbox')
    <3> SUFFICES ASSUME NEW i \in 1..Len(script[t])
                 PROVE  /\ i > k => script[t][i].path \notin DOMAIN inbox'
                        /\ ~failed[t] /\ i <= k /\ Safe[script[t][i].what] = script[t][i].what =>
                              /\ script[t][i].path \in DOMAIN inbox'
                              /\ inbox'[script[t][i].path] = script[t][i].what
      BY <2>3 DEF Pulled
    <3>1. CASE i = k
      <4>1. ~(i > k)
        BY <1>3, <3>1
      <4>2. script[t][i].path = script[t][k].path /\ script[t][i].what = script[t][k].what
        BY <3>1
      <4> QED BY <2>1, <2>2, <4>1, <4>2
    <3>2. CASE i # k
      <4>1. (i > k => i > done[t] /\ i # done[t] + 1) /\ (i <= k => i <= done[t])
        BY <1>1, <1>2, <3>2, Tooling
      <4> QED BY <2>2, <2>3, <2>4, <3>2, <4>1 DEF Pulled
    <3> QED BY <3>1, <3>2
  <2> QED BY <1>1, <1>4, <1>6, <2>3, <2>5 DEF Work, WorkOK
<1>7. CASE at[t] = "put"
  <2>1. /\ job[t] = "push" /\ Exported("put", script[t], outbox)
        /\ Pushed("put", script[t], done[t], failed[t], phoneIn)
    BY <1>7, Tooling
  <2>2. phoneIn' = WriteFile(phoneIn, script[t][k].path, x) /\ x = script[t][k].what
    <3>1. x = outbox[script[t][k].path]
      BY <1>5, <1>7 DEF Sources
    <3> QED BY <1>3, <1>5, <1>7, <2>1, <3>1 DEF Target, Exported
  <2>3. Pushed("put", script[t], k, failed[t], phoneIn')
    <3> SUFFICES ASSUME NEW i \in 1..k, ~failed[t]
                 PROVE  script[t][i].path \in DOMAIN phoneIn'
                        /\ phoneIn'[script[t][i].path] = script[t][i].what
      BY DEF Pushed
    <3>1. CASE i = k
      BY <2>2, <3>1 DEF WriteFile
    <3>2. CASE i # k
      <4>1. i \in 1..Len(script[t]) /\ i \in 1..done[t]
        BY <1>1, <1>2, <1>3, <3>2, Tooling
      <4>2. script[t][i].path # script[t][k].path
        BY <1>3, <2>1, <3>2, <4>1 DEF Exported, Distinct
      <4> QED BY <2>1, <2>2, <4>1, <4>2 DEF Pushed, WriteFile
    <3> QED BY <3>1, <3>2
  <2> QED BY <1>1, <1>4, <1>7, <2>1, <2>3 DEF Work, WorkOK
<1> QED BY <1>1, <1>6, <1>7

LEMMA ToolExitsWork == ASSUME TypeInv, WorkInv, NEW t \in Tabs, ~crossed[t], ToolExits(t) PROVE Work(t)'
<1>1. JobStep(t) /\ at[t] \in {"get", "put"} /\ UNCHANGED dirVars
      /\ done[t] = Len(script[t])
  BY DEF JobStep, ToolExits
<1>2. CASE Fails(t)
  BY <1>1, <1>2, FailedAtWork
<1>3. CASE ~failed[t] /\ Goto(t, "refresh") /\ UNCHANGED workVars
  <2>1. at'[t] = "refresh"
    BY <1>3 DEF Goto, TypeInv, Functions
  <2>2. ASSUME at[t] = "get" PROVE Pulled("refresh", script[t], done[t], open[t], failed[t], inbox)
    BY <1>1, <1>3, <2>2, Tooling DEF Pulled
  <2>3. ASSUME at[t] = "put"
        PROVE  /\ Exported("refresh", script[t], outbox)
               /\ Pushed("refresh", script[t], done[t], failed[t], phoneIn)
    BY <1>1, <1>3, <2>3, Tooling DEF Exported, Pushed
  <2> QED BY <1>1, <1>3, <2>1, <2>2, <2>3, Tooling DEF Work, WorkOK, dirVars, workVars
<1> QED BY <1>2, <1>3 DEF ToolExits

\* Clearing and refreshing keep nothing of a pull or a push.
LEMMA OtherWork ==
    ASSUME TypeInv, WorkInv, NEW t \in Tabs, ~crossed[t],
           ToolFails(t) \/ Scanned(t) \/ Cleared(t) \/ Refreshed(t)
    PROVE  Work(t)'
<1>1. JobStep(t)
  BY DEF JobStep
<1>2. CASE ToolFails(t)
  BY <1>1, <1>2, FailedAtWork DEF ToolFails
<1>3. CASE Refreshed(t)
  BY <1>1, <1>3, NothingAtWork DEF Refreshed
<1>4. CASE Scanned(t) \/ Cleared(t)
  <2>1. job[t] = "clear"
    BY <1>4, VisitNow DEF Scanned, Cleared, VisitOK, Places, Jobs
  <2>2. job'[t] \in {"clear", "none"}
    BY <1>1, <2>1, JobStays DEF TypeInv, Functions
  <2> QED BY <1>1, <2>2 DEF Work, WorkOK
<1> QED BY <1>2, <1>3, <1>4

\* A new visit only reads the folders.
LEMMA EnterWork == ASSUME TypeInv, WorkInv, Enter PROVE WorkInv'
<1>1. \A t \in Tabs : t # tab' => job'[t] = job[t] /\ at'[t] = at[t]
  BY DEF Enter, Goto, TypeInv, Functions
<1>2. tab' \in Tabs => job'[tab'] = "refresh"
  BY DEF Enter, TypeInv, Functions
<1>3. \A t \in Tabs : Folder(job'[t]) # "none" => t # tab'
  BY <1>2 DEF Folder
<1>4. \A t \in Tabs : ~crossed'[t] => Work(t)'
  <2> SUFFICES ASSUME NEW t \in Tabs, ~crossed'[t] PROVE Work(t)'
    OBVIOUS
  <2>1. CASE t = tab'
    BY <1>2, <2>1 DEF Work, WorkOK
  <2>2. CASE t # tab'
    BY <1>1, <2>2 DEF Enter, dirVars, WorkInv, Work
  <2> QED BY <2>1, <2>2
<1>5. \A s, t \in Tabs :
         s # t /\ at'[s] # "idle" /\ at'[t] # "idle" /\ Folder(job'[s]) = Folder(job'[t])
            /\ Folder(job'[t]) # "none" => crossed'[t]
  <2> SUFFICES ASSUME NEW s \in Tabs, NEW t \in Tabs, s # t, at'[s] # "idle", at'[t] # "idle",
                      Folder(job'[s]) = Folder(job'[t]), Folder(job'[t]) # "none"
               PROVE  crossed'[t]
    OBVIOUS
  <2>1. s # tab' /\ t # tab'
    BY <1>3
  <2>2. job'[s] = job[s] /\ at'[s] = at[s] /\ job'[t] = job[t] /\ at'[t] = at[t] /\ crossed' = crossed
    BY <1>1, <2>1 DEF Enter
  <2> QED BY <2>2 DEF WorkInv
<1> QED BY <1>4, <1>5 DEF WorkInv

\* An action that begins has done nothing yet; whoever is at work on its folder is crossed.
LEMMA StartWork ==
    ASSUME TypeInv, WorkInv, NEW t \in Tabs, NEW j \in Jobs, Start(t, j) PROVE WorkInv'
<1>1. /\ script'[t] = <<>> /\ done'[t] = 0 /\ failed'[t] = FALSE
      /\ UNCHANGED <<script, done, open, failed, inbox, outbox, phoneIn>>
      /\ job'[t] = j /\ at[t] = "idle"
      /\ \A u \in Tabs \ {t} : job'[u] = job[u] /\ at'[u] = at[u]
  BY VisitNow, PlacesOfJobs DEF Start, Goto, TypeInv, Functions, dirVars, VisitOK
<1>2. /\ ~crossed'[t] => Others(j) = {}
      /\ \A u \in Tabs \ {t} : ~crossed'[u] => ~crossed[u] /\ u \notin Others(j)
  BY StartCrosses
<1>3. ASSUME NEW r \in Tabs, NEW u \in Tabs, r # u, at'[r] # "idle", at'[u] # "idle",
             Folder(job'[r]) = Folder(job'[u]), Folder(job'[u]) # "none", ~crossed'[u]
      PROVE  FALSE
  <2>1. CASE u = t
    <3>1. r \in AtWorkOn(Folder(j))
      BY <1>1, <1>3, <2>1 DEF AtWorkOn
    <3> QED BY <1>1, <1>2, <1>3, <2>1, <3>1 DEF Others
  <2>2. CASE u # t /\ r = t
    <3>1. Folder(j) = Folder(job[u]) /\ at[u] # "idle"
      BY <1>1, <1>3, <2>2 DEF AtWorkOn
    <3> QED BY <1>1, <1>2, <1>3, <2>2, <3>1 DEF Others, AtWorkOn
  <2>3. CASE u # t /\ r # t
    BY <1>1, <1>2, <1>3, <2>3 DEF WorkInv
  <2> QED BY <2>1, <2>2, <2>3
<1>4. ASSUME NEW u \in Tabs, ~crossed'[u] PROVE Work(u)'
  <2>1. CASE u = t
    BY <1>1, <2>1, NoCopyYet DEF Work
  <2>2. CASE u # t
    BY <1>1, <1>2, <1>4, <2>2 DEF WorkInv, Work
  <2> QED BY <2>1, <2>2
<1> QED BY <1>3, <1>4 DEF WorkInv

LEMMA WorkStep == ASSUME TypeInv, WorkInv, [Next]_vars PROVE WorkInv'
<1>1. ASSUME NEW t \in Tabs, JobStep(t) PROVE WorkInv'
  <2>1. ~crossed[t] => Work(t)'
    BY <1>1, DetectedWork, FolderReadyWork, ListedWork, LocalNameWork, OutboxNameWork,
       OutboxWrittenWork, CheckedWork, CopyRefusedWork, CopyBeginsWork, CopyEndsWork, ToolExitsWork,
       OtherWork DEF JobStep
  <2> QED BY <1>1, <2>1, WorkOfOne
<1>2. CASE Enter
  BY <1>2, EnterWork
<1>3. CASE \E t \in Tabs, j \in Jobs : Start(t, j)
  BY <1>3, StartWork
<1>4. CASE Leave \/ PhoneChanges \/ UNCHANGED vars
  <2>1. UNCHANGED <<at, job, crossed, script, done, open, failed, inbox, outbox, phoneIn>>
    BY <1>4 DEF Leave, PhoneChanges, vars, dirVars, jobVars, workVars
  <2> QED BY <2>1 DEF WorkInv, Work
<1> QED BY <1>1, <1>2, <1>3, <1>4 DEF Next, UserStep

LEMMA WorkHolds == Spec => [](TypeInv /\ WorkInv)
<1>1. TypeInv /\ WorkInv /\ [Next]_vars => (TypeInv /\ WorkInv)'
  BY TypeStep, WorkStep
<1>2. Init => TypeInv /\ WorkInv
  BY TypeInit, WorkInit
<1> QED BY <1>1, <1>2, PTL DEF Spec

-----------------------------------------------------------------------------
(* Theorems *)

LEMMA WorkIsReported == TypeInv /\ WorkInv => ReportsAreTrue
<1> SUFFICES ASSUME TypeInv, WorkInv, NEW t \in Tabs, at[t] = "refresh", ~crossed[t]
             PROVE  /\ job[t] = "pull" =>
                          \A i \in 1..Len(script[t]) :
                             Safe[script[t][i].what] = script[t][i].what =>
                                 /\ script[t][i].path \in DOMAIN inbox
                                 /\ inbox[script[t][i].path] = script[t][i].what
                    /\ job[t] = "push" =>
                          \A i \in 1..Len(script[t]) :
                             /\ script[t][i].path \in DOMAIN phoneIn
                             /\ phoneIn[script[t][i].path] = script[t][i].what
  BY DEF ReportsAreTrue, PulledIsHere, PushedIsOnPhone, Reports
<1>1. Len(script[t]) \in Nat
  BY VisitNow, ListSteps DEF VisitOK
<1>2. job[t] = "pull" => Pulled("refresh", script[t], done[t], open[t], failed[t], inbox)
  BY WorkNow
<1>3. job[t] = "push" => Pushed("refresh", script[t], done[t], failed[t], phoneIn)
  BY WorkNow
<1> QED BY <1>1, <1>2, <1>3 DEF Pulled, Pushed

\* A success message of a pull or a push is true of every file it counts, for any number
\* of visits at work at once, unless another action has worked on its local folder.
THEOREM ReportsHold == Spec => []ReportsAreTrue
BY WorkHolds, WorkIsReported, PTL

\* A complete file keeps its path and content in a step, if no two actions cross.
SavedStay ==
    /\ Uncrossed("inbox") => \A p \in DOMAIN inbox : inbox[p] \in Names =>
           p \in DOMAIN inbox' /\ inbox'[p] = inbox[p]
    /\ Uncrossed("outbox") => \A p \in DOMAIN outbox \cap DOMAIN outbox' :
           outbox[p] \in PcFiles => outbox'[p] = outbox[p]

LEMMA BothStay == ASSUME UNCHANGED <<inbox, outbox>> PROVE SavedStay
BY DEF SavedStay

LEMMA JobStepSaves == ASSUME TypeInv, WorkInv, NEW t \in Tabs, JobStep(t) PROVE SavedStay
<1>1. CASE OutboxWritten(t)
  <2>1. at[t] = "write" /\ job[t] \in {"push", "export"} /\ script[t] \in Seq(Copy) /\ script[t] # <<>>
        /\ UNCHANGED inbox
    BY <1>1, VisitNow DEF OutboxWritten, VisitOK, Places, Jobs
  <2>2. PICK copy : copy = Last(script[t])
    OBVIOUS
  <2>3. \E x : outbox' = WriteFile(outbox, copy.path, x)
    BY <1>1, <2>2 DEF OutboxWritten
  <2>4. Len(script[t]) \in 1..Len(script[t]) /\ copy = script[t][Len(script[t])]
    BY <2>1, <2>2, EmptySeq DEF Last
  <2>5. Uncrossed("outbox") => ~crossed[t]
    BY <2>1 DEF Uncrossed, AtWorkOn, Folder
  <2>6. Uncrossed("outbox") => \A p \in DOMAIN outbox : outbox'[p] = outbox[p]
    <3>1. ~crossed[t] => copy.path \notin DOMAIN outbox
      BY <2>1, <2>4, WorkNow DEF Exported
    <3> QED BY <2>3, <2>5, <3>1 DEF WriteFile
  <2> QED BY <2>1, <2>6 DEF SavedStay
<1>2. CASE Cleared(t)
  BY <1>2 DEF Cleared, Restrict, SavedStay
<1>3. CASE CopyBegins(t) \/ CopyEnds(t)
  <2>1. at[t] \in {"get", "put"} /\ UNCHANGED outbox
    BY <1>3 DEF CopyBegins, CopyEnds, Copying
  <2>2. PICK k : k = done[t] + 1
    OBVIOUS
  <2>3. k \in 1..Len(script[t])
    BY <1>3, <2>2, CopyingType DEF CopyBegins, CopyEnds
  <2>4. CASE at[t] = "put"
    BY <1>3, <2>1, <2>4 DEF CopyBegins, CopyEnds, Target, SavedStay
  <2>5. CASE at[t] = "get" /\ crossed[t]
    <3>1. t \in AtWorkOn("inbox")
      BY <2>5, VisitNow DEF AtWorkOn, Folder, VisitOK, Places, Jobs
    <3> QED BY <2>1, <2>5, <3>1 DEF SavedStay, Uncrossed
  <2>6. CASE at[t] = "get" /\ ~crossed[t]
    <3>1. Pulled("get", script[t], done[t], open[t], failed[t], inbox)
      BY <2>6, Tooling
    <3>2. script[t][k].path \notin DOMAIN inbox \/ inbox[script[t][k].path] = Partial
      <4>1. CASE ~open[t]
        BY <2>1, <2>2, <2>3, <2>6, <3>1, <4>1, Tooling DEF Pulled
      <4>2. CASE open[t]
        BY <2>2, <2>3, <3>1, <4>2 DEF Pulled
      <4> QED BY <4>1, <4>2
    <3>3. \E x : inbox' = WriteFile(inbox, script[t][k].path, x)
      BY <1>3, <2>2, <2>6 DEF CopyBegins, CopyEnds, Target
    <3>4. \A p \in DOMAIN inbox : inbox[p] \in Names => p # script[t][k].path
      BY <3>2, UsbAssumption DEF UsbAssumption
    <3>5. \A p \in DOMAIN inbox : inbox[p] \in Names => p \in DOMAIN inbox' /\ inbox'[p] = inbox[p]
      BY <3>3, <3>4 DEF WriteFile
    <3> QED BY <2>1, <3>5 DEF SavedStay
  <2> QED BY <2>1, <2>4, <2>5, <2>6
<1>4. CASE \/ Detected(t) \/ FolderReady(t) \/ Listed(t) \/ LocalName(t) \/ OutboxName(t)
           \/ Checked(t) \/ CopyRefused(t) \/ ToolExits(t) \/ ToolFails(t) \/ Scanned(t)
           \/ Refreshed(t)
  BY <1>4, BothStay DEF Detected, FolderReady, Listed, LocalName, OutboxName, Checked, CopyRefused,
     ToolExits, ToolFails, Scanned, Refreshed, dirVars
<1> QED BY <1>1, <1>2, <1>3, <1>4 DEF JobStep

LEMMA StepSaves == ASSUME TypeInv, WorkInv, [Next]_vars PROVE SavedStay
<1>1. CASE \E t \in Tabs : JobStep(t)
  BY <1>1, JobStepSaves
<1>2. CASE UserStep \/ UNCHANGED vars
  BY <1>2, BothStay DEF UserStep, Enter, Leave, PhoneChanges, Start, vars, dirVars
<1> QED BY <1>1, <1>2 DEF Next

\* A file that is complete in a local folder is not written again, unless two actions
\* work on that folder at once: those could choose the same free path.
THEOREM SavedFilesStay == Spec => SavedUnderNewNames
<1>1. TypeInv /\ WorkInv /\ [Next]_vars => [SavedStay]_vars
  BY StepSaves
<1> QED BY <1>1, WorkHolds, PTL DEF Spec, SavedUnderNewNames, SavedStay

===============================================================================
