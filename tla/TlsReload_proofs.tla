-------------------------- MODULE TlsReload_proofs --------------------------
(***************************************************************************)
(* Proofs about the rotation of TLS material, for any number of loads that *)
(* a reloader could have under way.                                        *)
(*                                                                         *)
(* In each step of the rollover a file changes once, from what it held at  *)
(* the end of the step before to what it is to hold at the end of this     *)
(* one.  The invariant says of every file of every reloader which of the   *)
(* two the file, the material in use and a load under way may hold, and    *)
(* that neither the material nor a load is ahead of the file or a load     *)
(* behind the material.                                                    *)
(***************************************************************************)
EXTENDS TlsReload, TLAPS

-----------------------------------------------------------------------------
(* The invariant                                                           *)

\* What the files held when the step began.
Before ==
  CASE step = "overlap" -> Material("old", "old")
    [] step = "switch" -> Material("old", "both")
    [] step = "retire" -> Material("new", "both")
    [] step = "done" -> Material("new", "new")

OneAtATime == \A p \in Reloaders : \A l, m \in InFlight(p) : l = m

\* A load of file f of p under way, given what the file is to hold and held.
LoadInv(p, f, l) ==
  loads[p][l] # NoLoad =>
    /\ loads[p][l][f] \in {"unread", Before[p][f], Goal[p][f]}
    /\ loads[p][l][f] = Goal[p][f] => files[p][f] = Goal[p][f]
    /\ current[p][f] = Goal[p][f] => loads[p][l][f] \in {"unread", Goal[p][f]}

FileInv(p, f) ==
  /\ files[p][f] \in {Before[p][f], Goal[p][f], "broken"}
  /\ current[p][f] \in {Before[p][f], Goal[p][f]}
  /\ current[p][f] = Goal[p][f] => files[p][f] = Goal[p][f]
  /\ \A l \in Loads : LoadInv(p, f, l)

ReloadInv ==
  /\ TypeOK
  /\ OneAtATime
  /\ \A p \in Reloaders, f \in Files : FileInv(p, f)
  /\ \A p \in Reloaders : current[p]["certificate"] = current[p]["privateKey"]
  /\ context = current["listener"]

-----------------------------------------------------------------------------
(* Operators                                                               *)

Whole == Contents \ {"broken"}

\* One entry of a table is replaced.
LEMMA TableUpdate ==
  ASSUME NEW A, NEW B, NEW C, NEW t \in [A -> [B -> C]], NEW a \in A, NEW b \in B, NEW c \in C,
         NEW u, u = [t EXCEPT ![a][b] = c]
  PROVE  /\ u \in [A -> [B -> C]]
         /\ \A x \in A, y \in B : u[x][y] = IF x = a /\ y = b THEN c ELSE t[x][y]
<1> DEFINE row == [t[a] EXCEPT ![b] = c]
<1>1. row \in [B -> C] /\ \A y \in B : row[y] = IF y = b THEN c ELSE t[a][y]
  OBVIOUS
<1>2. u = [t EXCEPT ![a] = row]
  OBVIOUS
<1> HIDE DEF row
<1>3. u \in [A -> [B -> C]] /\ \A x \in A : u[x] = IF x = a THEN row ELSE t[x]
  BY <1>1, <1>2
<1> QED
  BY <1>1, <1>3

\* What a step of the rollover makes of a file.
LEMMA MaterialIs ==
  ASSUME NEW leaf \in Whole, NEW authority \in Whole
  PROVE  /\ Material(leaf, authority) \in [Reloaders -> [Files -> Whole]]
         /\ \A p \in Reloaders :
              /\ Material(leaf, authority)[p]["certificate"] = leaf
              /\ Material(leaf, authority)[p]["privateKey"] = leaf
              /\ Material(leaf, authority)[p]["authority"] =
                   IF p = "listener" THEN "none" ELSE authority
BY DEF Material, Whole, Contents, Reloaders, Files, FilesOf

\* No step of the rollover takes a file back.
LEMMA StepGoals ==
  ASSUME step \in {"overlap", "switch", "retire", "done"}
  PROVE  /\ Before \in [Reloaders -> [Files -> Whole]]
         /\ Goal \in [Reloaders -> [Files -> Whole]]
         /\ \A p \in Reloaders, f \in Files : Rank(Before[p][f]) <= Rank(Goal[p][f])
         /\ \A p \in Reloaders, f \in Files :
              Rank(Before[p][f]) \in Nat /\ Rank(Goal[p][f]) \in Nat
<1>1. {"none", "old", "both", "new"} = Whole
  BY DEF Whole, Contents
<1>2. ASSUME NEW l1 \in {"old", "new"}, NEW a1 \in {"old", "both", "new"},
             NEW l2 \in {"old", "new"}, NEW a2 \in {"old", "both", "new"},
             Before = Material(l1, a1), Goal = Material(l2, a2),
             Rank(l1) <= Rank(l2), Rank(a1) <= Rank(a2)
      PROVE  /\ Before \in [Reloaders -> [Files -> Whole]]
             /\ Goal \in [Reloaders -> [Files -> Whole]]
             /\ \A p \in Reloaders, f \in Files : Rank(Before[p][f]) <= Rank(Goal[p][f])
             /\ \A p \in Reloaders, f \in Files :
                  Rank(Before[p][f]) \in Nat /\ Rank(Goal[p][f]) \in Nat
  <2>1. \A w \in Whole : Rank(w) \in Nat
    BY <1>1 DEF Rank
  <2>2. l1 \in Whole /\ a1 \in Whole /\ l2 \in Whole /\ a2 \in Whole
    BY <1>1
  <2>3. /\ Before \in [Reloaders -> [Files -> Whole]]
        /\ \A p \in Reloaders :
             /\ Before[p]["certificate"] = l1 /\ Before[p]["privateKey"] = l1
             /\ Before[p]["authority"] = IF p = "listener" THEN "none" ELSE a1
    BY <1>2, <2>2, MaterialIs
  <2>4. /\ Goal \in [Reloaders -> [Files -> Whole]]
        /\ \A p \in Reloaders :
             /\ Goal[p]["certificate"] = l2 /\ Goal[p]["privateKey"] = l2
             /\ Goal[p]["authority"] = IF p = "listener" THEN "none" ELSE a2
    BY <1>2, <2>2, MaterialIs
  <2>5. Rank("none") <= Rank("none")
    BY DEF Rank
  <2>6. ASSUME NEW p \in Reloaders, NEW f \in Files
        PROVE  Rank(Before[p][f]) <= Rank(Goal[p][f])
    BY <1>2, <2>3, <2>4, <2>5 DEF Files
  <2> QED
    BY <2>1, <2>3, <2>4, <2>6
<1>3. /\ Rank("old") <= Rank("old") /\ Rank("old") <= Rank("both")
      /\ Rank("old") <= Rank("new") /\ Rank("both") <= Rank("both")
      /\ Rank("both") <= Rank("new") /\ Rank("new") <= Rank("new")
  BY DEF Rank
<1>4. CASE step = "overlap"
  <2>1. Before = Material("old", "old") /\ Goal = Material("old", "both")
    BY <1>4 DEF Before, Goal
  <2> QED
    BY <1>2, <1>3, <2>1
<1>5. CASE step = "switch"
  <2>1. Before = Material("old", "both") /\ Goal = Material("new", "both")
    BY <1>5 DEF Before, Goal
  <2> QED
    BY <1>2, <1>3, <2>1
<1>6. CASE step = "retire"
  <2>1. Before = Material("new", "both") /\ Goal = Material("new", "new")
    BY <1>6 DEF Before, Goal
  <2> QED
    BY <1>2, <1>3, <2>1
<1>7. CASE step = "done"
  <2>1. Before = Material("new", "new") /\ Goal = Material("new", "new")
    BY <1>7 DEF Before, Goal
  <2> QED
    BY <1>2, <1>3, <2>1
<1> QED
  BY <1>4, <1>5, <1>6, <1>7

-----------------------------------------------------------------------------
(* The steps                                                               *)

LoadContents == Contents \cup {"idle", "unread"}

\* Goals belong to the operator's step.
LEMMA GoalsStay ==
  ASSUME step' = step
  PROVE  Goal' = Goal /\ Before' = Before
BY DEF Goal, Before

\* What a load consists of.
LEMMA LoadIsTyped ==
  ASSUME TypeOK, NEW p \in Reloaders, NEW l \in Loads
  PROVE  /\ loads[p][l] \in [Files -> LoadContents]
         /\ NoLoad \in [Files -> LoadContents]
         /\ Files # {}
BY DEF TypeOK, LoadContents, NoLoad, Files

\* At first everything is where the first step begins.
LEMMA ReloadInvInit ==
  ASSUME Init
  PROVE  ReloadInv
<1> USE DEF Init
<1>1. "old" \in Whole /\ "both" \in Whole
  BY DEF Whole, Contents
<1>2. files = Before /\ current = Before /\ Before = Material("old", "old")
  BY DEF Before
<1>3. Goal = Material("old", "both")
  BY DEF Goal
<1>4. /\ Before \in [Reloaders -> [Files -> Whole]]
      /\ Before["listener"] \in [Files -> Whole]
      /\ \A p \in Reloaders : Before[p]["certificate"] = Before[p]["privateKey"]
  BY <1>1, <1>2, MaterialIs DEF Reloaders
<1>5. \A p \in Reloaders, l \in Loads : loads[p][l] = NoLoad
  OBVIOUS
<1>6. TypeOK
  <2>1. loads \in [Reloaders -> [Loads -> [Files -> Contents \cup {"idle", "unread"}]]]
    BY DEF NoLoad
  <2>2. \A w \in Whole : w \in Contents
    BY DEF Whole
  <2>3. files \in [Reloaders -> [Files -> Contents]]
    BY <1>2, <1>4, <2>2
  <2> QED
    BY <1>2, <1>4, <2>1, <2>3 DEF TypeOK, Whole
<1>7. OneAtATime
  BY <1>5 DEF OneAtATime, InFlight
<1>8. ASSUME NEW p \in Reloaders, NEW f \in Files PROVE FileInv(p, f)
  BY <1>2, <1>5 DEF FileInv, LoadInv
<1> QED
  BY <1>2, <1>4, <1>6, <1>7, <1>8 DEF ReloadInv

\* A file is written: nothing was ahead of it.
LEMMA WriteKeeps ==
  ASSUME ReloadInv, NEW p \in Reloaders, NEW f \in Files, Write(p, f)
  PROVE  ReloadInv'
<1> USE DEF Write
<1>1. Goal' = Goal /\ Before' = Before
  BY GoalsStay
<1>2. Goal \in [Reloaders -> [Files -> Whole]]
  BY StepGoals DEF ReloadInv, TypeOK
<1>3. PICK c \in {Goal[p][f], "broken"} : files' = [files EXCEPT ![p][f] = c]
  OBVIOUS
<1>4. c \in Contents
  BY <1>2 DEF Whole, Contents
<1>5. /\ files' \in [Reloaders -> [Files -> Contents]]
      /\ \A q \in Reloaders, g \in Files :
           files'[q][g] = IF q = p /\ g = f THEN c ELSE files[q][g]
  <2>1. files \in [Reloaders -> [Files -> Contents]]
    BY DEF ReloadInv, TypeOK
  <2> QED
    BY <1>3, <1>4, <2>1, TableUpdate
<1>6. TypeOK'
  BY <1>5 DEF ReloadInv, TypeOK
<1>7. OneAtATime'
  BY DEF ReloadInv, OneAtATime, InFlight
<1>8. ASSUME NEW q \in Reloaders, NEW g \in Files PROVE FileInv(q, g)'
  <2>1. FileInv(q, g)
    BY DEF ReloadInv
  <2>2. CASE q = p /\ g = f
    <3>1. files'[q][g] = c /\ files[q][g] # Goal[q][g]
      BY <1>5, <2>2
    <3> QED
      BY <1>1, <1>3, <2>1, <2>2, <3>1 DEF FileInv, LoadInv
  <2>3. CASE ~(q = p /\ g = f)
    <3>1. files'[q][g] = files[q][g]
      BY <1>5, <2>3
    <3> QED
      BY <1>1, <2>1, <3>1 DEF FileInv, LoadInv
  <2> QED
    BY <2>2, <2>3
<1> QED
  BY <1>6, <1>7, <1>8 DEF ReloadInv

\* The operator goes on: everything is where the next step begins.
LEMMA NextStepKeeps ==
  ASSUME ReloadInv, NextStep
  PROVE  ReloadInv'
<1> USE DEF NextStep
<1>1. Before' = Goal /\ step' \in {"overlap", "switch", "retire", "done"}
  BY DEF Before, Goal, ReloadInv, TypeOK
<1>2. TypeOK'
  BY <1>1 DEF ReloadInv, TypeOK
<1>3. OneAtATime'
  BY DEF ReloadInv, OneAtATime, InFlight
<1>4. ASSUME NEW q \in Reloaders, NEW g \in Files PROVE FileInv(q, g)'
  <2>1. FileInv(q, g) /\ files[q][g] = Goal[q][g] /\ current[q][g] = Goal[q][g]
    BY DEF ReloadInv
  <2>2. \A l \in Loads : loads[q][l] # NoLoad => loads[q][l][g] \in {"unread", Goal[q][g]}
    BY <2>1 DEF FileInv, LoadInv
  <2>3. /\ Before'[q][g] = Goal[q][g] /\ files' = files /\ current' = current /\ loads' = loads
    BY <1>1
  <2>4. Goal'[q][g] # "unread"
    <3>1. Goal' \in [Reloaders -> [Files -> Whole]]
      <4>1. StepGoals!1' => StepGoals!2'
        BY StepGoals, PTL
      <4> QED
        BY <1>1, <4>1
    <3> QED
      BY <3>1 DEF Whole, Contents
  <2> QED
    BY <2>1, <2>2, <2>3, <2>4 DEF FileInv, LoadInv
<1> QED
  BY <1>2, <1>3, <1>4 DEF ReloadInv

\* A load of p begins, continues or ends, with the files and the material as
\* they were: the rest of the invariant is about that load alone.
LEMMA LoadKeeps ==
  ASSUME ReloadInv, UNCHANGED <<files, step, current, context>>,
         NEW p \in Reloaders, NEW l \in Loads, NEW m \in [Files -> LoadContents],
         loads' = [loads EXCEPT ![p][l] = m],
         m # NoLoad =>
           /\ loads[p][l] # NoLoad \/ InFlight(p) = {}
           /\ \A f \in Files :
                /\ m[f] \in {"unread", Before[p][f], Goal[p][f]}
                /\ m[f] = Goal[p][f] => files[p][f] = Goal[p][f]
                /\ current[p][f] = Goal[p][f] => m[f] \in {"unread", Goal[p][f]}
  PROVE  ReloadInv'
<1>1. Goal' = Goal /\ Before' = Before
  BY GoalsStay
<1>2. /\ loads' \in [Reloaders -> [Loads -> [Files -> LoadContents]]]
      /\ \A q \in Reloaders, k \in Loads :
           loads'[q][k] = IF q = p /\ k = l THEN m ELSE loads[q][k]
  <2>1. loads \in [Reloaders -> [Loads -> [Files -> LoadContents]]]
    BY DEF ReloadInv, TypeOK, LoadContents
  <2> QED
    BY <2>1, TableUpdate
<1>3. TypeOK'
  BY <1>2 DEF ReloadInv, TypeOK, LoadContents
<1>4. OneAtATime'
  <2> SUFFICES ASSUME NEW q \in Reloaders, NEW j \in InFlight(q)', NEW k \in InFlight(q)'
               PROVE  j = k
    BY DEF OneAtATime
  <2>1. j \in Loads /\ k \in Loads /\ loads'[q][j] # NoLoad /\ loads'[q][k] # NoLoad
    BY DEF InFlight, NoLoad
  <2>2. \A a, b \in Loads : loads[q][a] # NoLoad /\ loads[q][b] # NoLoad => a = b
    BY DEF ReloadInv, OneAtATime, InFlight
  <2>3. CASE q # p
    BY <1>2, <2>1, <2>2, <2>3
  <2>4. CASE q = p
    <3>1. m # NoLoad => loads[p][l] # NoLoad \/ \A a \in Loads : loads[p][a] = NoLoad
      BY DEF InFlight
    <3> QED
      BY <1>2, <2>1, <2>2, <2>4, <3>1
  <2> QED
    BY <2>3, <2>4
<1>5. ASSUME NEW q \in Reloaders, NEW g \in Files PROVE FileInv(q, g)'
  <2>1. FileInv(q, g)
    BY DEF ReloadInv
  <2>2. ASSUME NEW k \in Loads PROVE LoadInv(q, g, k)'
    <3>1. NoLoad' = NoLoad
      BY DEF NoLoad
    <3>2. CASE q = p /\ k = l
      BY <1>1, <1>2, <3>1, <3>2 DEF LoadInv
    <3>3. CASE ~(q = p /\ k = l)
      <4>1. loads'[q][k] = loads[q][k] /\ LoadInv(q, g, k)
        BY <1>2, <2>1, <3>3 DEF FileInv
      <4> QED
        BY <1>1, <3>1, <4>1 DEF LoadInv
    <3> QED
      BY <3>2, <3>3
  <2> QED
    BY <1>1, <2>1, <2>2 DEF FileInv
<1> QED
  BY <1>3, <1>4, <1>5 DEF ReloadInv

\* A reload starts only when none is under way.
LEMMA StartReloadKeeps ==
  ASSUME ReloadInv, NEW p \in Reloaders, StartReload(p)
  PROVE  ReloadInv'
<1> DEFINE free == CHOOSE l \in Loads : loads[p][l] = NoLoad
           m == [f \in Files |-> IF f \in FilesOf(p) THEN "unread" ELSE "none"]
<1>1. free \in Loads /\ InFlight(p) = {} /\ loads' = [loads EXCEPT ![p][free] = m]
      /\ UNCHANGED <<files, step, current, context>>
  BY DEF StartReload
<1> HIDE DEF free
<1>2. m \in [Files -> LoadContents]
  BY DEF LoadContents, Contents
<1>3. ASSUME NEW f \in Files, f \notin FilesOf(p)
      PROVE  Before[p][f] = "none" /\ Goal[p][f] = "none"
  <2>1. p = "listener" /\ f = "authority"
    BY <1>3 DEF FilesOf, Files
  <2>2. "old" \in Whole /\ "both" \in Whole /\ "new" \in Whole
    BY DEF Whole, Contents
  <2>3. \A a, b \in Whole : Material(a, b)[p][f] = "none"
    BY <2>1, MaterialIs
  <2>4. step \in {"overlap", "switch", "retire", "done"}
    BY DEF ReloadInv, TypeOK
  <2> QED
    BY <2>2, <2>3, <2>4 DEF Before, Goal
<1>4. ASSUME NEW f \in Files
      PROVE  /\ m[f] \in {"unread", Before[p][f], Goal[p][f]}
             /\ m[f] = Goal[p][f] => files[p][f] = Goal[p][f]
             /\ current[p][f] = Goal[p][f] => m[f] \in {"unread", Goal[p][f]}
  <2>1. FileInv(p, f) /\ Goal[p][f] # "unread"
    <3>1. Goal \in [Reloaders -> [Files -> Whole]]
      BY StepGoals DEF ReloadInv, TypeOK
    <3>2. Goal[p][f] \in Whole
      BY <3>1
    <3> QED
      BY <3>2 DEF ReloadInv, Whole, Contents
  <2>2. CASE f \in FilesOf(p)
    BY <2>1, <2>2
  <2>3. CASE f \notin FilesOf(p)
    BY <1>3, <2>1, <2>3 DEF FileInv
  <2> QED
    BY <2>2, <2>3
<1> HIDE DEF m
<1> QED
  BY <1>1, <1>2, <1>4, LoadKeeps

\* A file is read: what it holds is not behind the material in use.
LEMMA ReadKeeps ==
  ASSUME ReloadInv, NEW p \in Reloaders, NEW l \in Loads, NEW f \in Files, Read(p, l, f)
  PROVE  ReloadInv'
<1> DEFINE old == loads[p][l]
           m == IF Readable(files[p][f]) THEN [old EXCEPT ![f] = files[p][f]] ELSE NoLoad
<1>1. /\ loads' = [loads EXCEPT ![p][l] = m] /\ UNCHANGED <<files, step, current, context>>
      /\ old[f] = "unread"
  BY DEF Read, MayRead, Unread
<1>2. old \in [Files -> LoadContents] /\ NoLoad \in [Files -> LoadContents]
  BY LoadIsTyped DEF ReloadInv
<1>3. old # NoLoad
  BY <1>1 DEF NoLoad
<1>4. files[p][f] \in LoadContents
  BY DEF ReloadInv, TypeOK, LoadContents
<1>5. m \in [Files -> LoadContents]
  BY <1>2, <1>4
<1>6. ASSUME m # NoLoad, NEW g \in Files
      PROVE  /\ m[g] \in {"unread", Before[p][g], Goal[p][g]}
             /\ m[g] = Goal[p][g] => files[p][g] = Goal[p][g]
             /\ current[p][g] = Goal[p][g] => m[g] \in {"unread", Goal[p][g]}
  <2>1. FileInv(p, g) /\ LoadInv(p, g, l)
    BY DEF ReloadInv, FileInv
  <2>2. files[p][f] # "broken" /\ m = [old EXCEPT ![f] = files[p][f]]
    BY <1>6 DEF Readable
  <2>3. m[g] = IF g = f THEN files[p][f] ELSE old[g]
    BY <1>2, <2>2
  <2> HIDE DEF m
  <2>4. CASE g = f
    BY <2>1, <2>2, <2>3, <2>4 DEF FileInv
  <2>5. CASE g # f
    BY <1>3, <2>1, <2>3, <2>5 DEF LoadInv
  <2> QED
    BY <2>4, <2>5
<1> HIDE DEF m
<1> QED
  BY <1>1, <1>3, <1>5, <1>6, LoadKeeps

\* Material is rejected or is already in use.
LEMMA KeepKeeps ==
  ASSUME ReloadInv, NEW p \in Reloaders, NEW l \in Loads, Keep(p, l)
  PROVE  ReloadInv'
<1>1. /\ loads' = [loads EXCEPT ![p][l] = NoLoad]
      /\ UNCHANGED <<files, step, current, context>>
  BY DEF Keep, EndLoad
<1>2. NoLoad \in [Files -> LoadContents]
  BY LoadIsTyped DEF ReloadInv
<1> QED
  BY <1>1, <1>2, LoadKeeps

\* What a complete load holds.
LEMMA CompleteLoad ==
  ASSUME ReloadInv, NEW p \in Reloaders, NEW l \in Loads, Loaded(loads[p][l])
  PROVE  /\ loads[p][l] \in [Files -> Whole]
         /\ \A f \in Files :
              /\ loads[p][l][f] \in {Before[p][f], Goal[p][f]}
              /\ loads[p][l][f] = Goal[p][f] => files[p][f] = Goal[p][f]
              /\ current[p][f] = Goal[p][f] => loads[p][l][f] = Goal[p][f]
<1> DEFINE m == loads[p][l]
<1>1. m # NoLoad /\ \A f \in Files : m[f] # "unread"
  BY DEF Loaded, Unread
<1>2. m \in [Files -> LoadContents]
  BY LoadIsTyped DEF ReloadInv
<1>3. Before \in [Reloaders -> [Files -> Whole]] /\ Goal \in [Reloaders -> [Files -> Whole]]
  BY StepGoals DEF ReloadInv, TypeOK
<1>4. \A f \in Files : LoadInv(p, f, l)
  BY DEF ReloadInv, FileInv
<1>5. \A f \in Files :
        /\ m[f] \in {Before[p][f], Goal[p][f]}
        /\ m[f] = Goal[p][f] => files[p][f] = Goal[p][f]
        /\ current[p][f] = Goal[p][f] => m[f] = Goal[p][f]
  BY <1>1, <1>4 DEF LoadInv
<1>6. \A f \in Files : m[f] \in Whole
  BY <1>3, <1>5
<1> HIDE DEF m
<1>7. m \in [Files -> Whole]
  BY <1>2, <1>6
<1> QED
  BY <1>5, <1>7 DEF m

\* Material is replaced by what was just loaded, which no other load can have
\* overtaken.
LEMMA ReplaceKeeps ==
  ASSUME ReloadInv, NEW p \in Reloaders, NEW l \in Loads, Replace(p, l)
  PROVE  ReloadInv'
<1> DEFINE m == loads[p][l]
<1>1. /\ loads' = [loads EXCEPT ![p][l] = NoLoad] /\ UNCHANGED <<files, step>>
      /\ m["certificate"] = m["privateKey"]
      /\ current' = [current EXCEPT ![p] = m]
      /\ context' = IF p = "listener" THEN m ELSE context
      /\ Loaded(m)
  BY DEF Replace, EndLoad, Apply, Validates
<1>2. /\ m \in [Files -> Whole]
      /\ \A f \in Files :
           /\ m[f] \in {Before[p][f], Goal[p][f]}
           /\ m[f] = Goal[p][f] => files[p][f] = Goal[p][f]
           /\ current[p][f] = Goal[p][f] => m[f] = Goal[p][f]
  BY <1>1, CompleteLoad
<1>3. m # NoLoad
  BY <1>1 DEF Loaded
<1>4. Goal' = Goal /\ Before' = Before
  BY <1>1, GoalsStay
<1> HIDE DEF m
<1>5. /\ loads' \in [Reloaders -> [Loads -> [Files -> LoadContents]]]
      /\ \A q \in Reloaders, k \in Loads :
           loads'[q][k] = IF q = p /\ k = l THEN NoLoad ELSE loads[q][k]
  <2>1. loads \in [Reloaders -> [Loads -> [Files -> LoadContents]]]
    BY DEF ReloadInv, TypeOK, LoadContents
  <2>2. NoLoad \in [Files -> LoadContents]
    BY LoadIsTyped DEF ReloadInv
  <2> QED
    BY <1>1, <2>1, <2>2, TableUpdate
<1>6. /\ current' \in [Reloaders -> [Files -> Whole]]
      /\ \A q \in Reloaders : current'[q] = IF q = p THEN m ELSE current[q]
  BY <1>1, <1>2 DEF ReloadInv, TypeOK, Whole
<1>7. context' = current'["listener"] /\ context' \in [Files -> Whole]
  BY <1>1, <1>2, <1>6 DEF ReloadInv, TypeOK, Whole, Reloaders
<1>8. TypeOK'
  BY <1>1, <1>5, <1>6, <1>7 DEF ReloadInv, TypeOK, LoadContents, Whole
<1>9. OneAtATime'
  <2> SUFFICES ASSUME NEW q \in Reloaders, NEW j \in InFlight(q)', NEW k \in InFlight(q)'
               PROVE  j = k
    BY DEF OneAtATime
  <2>1. j \in Loads /\ k \in Loads /\ loads'[q][j] # NoLoad /\ loads'[q][k] # NoLoad
    BY DEF InFlight, NoLoad
  <2>2. \A a, b \in Loads : loads[q][a] # NoLoad /\ loads[q][b] # NoLoad => a = b
    BY DEF ReloadInv, OneAtATime, InFlight
  <2> QED
    BY <1>5, <2>1, <2>2
<1>10. \A q \in Reloaders : current'[q]["certificate"] = current'[q]["privateKey"]
  BY <1>1, <1>6 DEF ReloadInv
<1>11. ASSUME NEW q \in Reloaders, NEW g \in Files PROVE FileInv(q, g)'
  <2>1. FileInv(q, g) /\ NoLoad' = NoLoad
    BY DEF ReloadInv, NoLoad
  <2>2. CASE q # p
    <3>1. current'[q] = current[q] /\ \A k \in Loads : loads'[q][k] = loads[q][k]
      BY <1>5, <1>6, <2>2
    <3> QED
      BY <1>1, <1>4, <2>1, <3>1 DEF FileInv, LoadInv
  <2>3. CASE q = p
    <3>1. current'[q][g] = m[g]
      BY <1>6, <2>3
    <3>2. \A k \in Loads : loads'[q][k] = NoLoad
      <4>1. \A a, b \in Loads : loads[q][a] # NoLoad /\ loads[q][b] # NoLoad => a = b
        BY DEF ReloadInv, OneAtATime, InFlight
      <4> QED
        BY <1>3, <1>5, <2>3, <4>1 DEF m
    <3> QED
      BY <1>1, <1>2, <1>4, <2>1, <2>3, <3>1, <3>2 DEF FileInv, LoadInv
  <2> QED
    BY <2>2, <2>3
<1> QED
  BY <1>7, <1>8, <1>9, <1>10, <1>11 DEF ReloadInv

\* Every step of the operator and the reloaders preserves the invariant.
LEMMA ReloadInvNext ==
  ASSUME ReloadInv, [Next]_vars
  PROVE  ReloadInv'
<1>1. CASE UNCHANGED vars
  <2>1. Goal' = Goal /\ Before' = Before /\ NoLoad' = NoLoad
    BY <1>1, GoalsStay DEF vars, NoLoad
  <2>2. ASSUME NEW p \in Reloaders, NEW f \in Files PROVE FileInv(p, f)'
    BY <1>1, <2>1 DEF vars, ReloadInv, FileInv, LoadInv
  <2> QED
    BY <1>1, <2>2 DEF vars, ReloadInv, TypeOK, OneAtATime, InFlight
<1>2. ASSUME NEW p \in Reloaders, NEW f \in Files, Write(p, f) PROVE ReloadInv'
  BY <1>2, WriteKeeps
<1>3. CASE NextStep
  BY <1>3, NextStepKeeps
<1>4. ASSUME NEW p \in Reloaders, StartReload(p) PROVE ReloadInv'
  BY <1>4, StartReloadKeeps
<1>5. ASSUME NEW p \in Reloaders, NEW l \in Loads, Keep(p, l) PROVE ReloadInv'
  BY <1>5, KeepKeeps
<1>6. ASSUME NEW p \in Reloaders, NEW l \in Loads, Replace(p, l) PROVE ReloadInv'
  BY <1>6, ReplaceKeeps
<1>7. ASSUME NEW p \in Reloaders, NEW l \in Loads, NEW f \in Files, Read(p, l, f)
      PROVE  ReloadInv'
  BY <1>7, ReadKeeps
<1> QED
  BY <1>1, <1>2, <1>3, <1>4, <1>5, <1>6, <1>7 DEF Next

LEMMA ReloadInvHolds == Spec => []ReloadInv
<1>1. Init => ReloadInv
  BY ReloadInvInit
<1>2. ReloadInv /\ [Next]_vars => ReloadInv'
  BY ReloadInvNext
<1> QED
  BY <1>1, <1>2, PTL DEF Spec

-----------------------------------------------------------------------------
(* What holds of the rotation                                              *)

\* The state of the reloaders has its types; the material in use is never made
\* of a file that a loader rejects.
THEOREM ReloadTypeCorrect == Spec => []TypeOK
<1>1. ReloadInv => TypeOK
  BY DEF ReloadInv
<1> QED
  BY <1>1, ReloadInvHolds, PTL

\* The rollover has no outage, however its writes and the reloaders' reads are
\* interleaved: leaf and key belong together at both ends and each end trusts
\* the other's issuer.
THEOREM RolloverHasNoOutage == Spec => []NoOutage
<1>1. ASSUME ReloadInv PROVE NoOutage
  <2>1. /\ "client" \in Reloaders /\ "server" \in Reloaders
        /\ "certificate" \in Files /\ "authority" \in Files
    BY DEF Reloaders, Files
  <2>2. \A p \in {"client", "server"} :
          /\ current[p]["certificate"] \in {Before[p]["certificate"], Goal[p]["certificate"]}
          /\ current[p]["authority"] \in {Before[p]["authority"], Goal[p]["authority"]}
    BY <1>1, <2>1 DEF ReloadInv, FileInv
  <2>3. \A leaf, authority \in {"old", "both", "new"} : \A p \in {"client", "server"} :
          /\ Material(leaf, authority)[p]["certificate"] = leaf
          /\ Material(leaf, authority)[p]["authority"] = authority
    BY DEF Material, Reloaders, Files, FilesOf
  <2>4. \A p \in {"client", "server"} :
          \/ /\ current[p]["certificate"] = "old"
             /\ current[p]["authority"] \in {"old", "both"}
             /\ step = "overlap"
          \/ /\ current[p]["certificate"] \in {"old", "new"}
             /\ current[p]["authority"] = "both"
             /\ step = "switch"
          \/ /\ current[p]["certificate"] = "new"
             /\ current[p]["authority"] \in {"both", "new"}
             /\ step \in {"retire", "done"}
    <3>1. CASE step = "overlap"
      <4>1. Before = Material("old", "old") /\ Goal = Material("old", "both")
        BY <3>1 DEF Before, Goal
      <4> QED
        BY <2>2, <2>3, <3>1, <4>1
    <3>2. CASE step = "switch"
      <4>1. Before = Material("old", "both") /\ Goal = Material("new", "both")
        BY <3>2 DEF Before, Goal
      <4> QED
        BY <2>2, <2>3, <3>2, <4>1
    <3>3. CASE step = "retire"
      <4>1. Before = Material("new", "both") /\ Goal = Material("new", "new")
        BY <3>3 DEF Before, Goal
      <4> QED
        BY <2>2, <2>3, <3>3, <4>1
    <3>4. CASE step = "done"
      <4>1. Before = Material("new", "new") /\ Goal = Material("new", "new")
        BY <3>4 DEF Before, Goal
      <4> QED
        BY <2>2, <2>3, <3>4, <4>1
    <3> QED
      BY <1>1, <3>1, <3>2, <3>3, <3>4 DEF ReloadInv, TypeOK
  <2> QED
    BY <1>1, <2>4 DEF ReloadInv, NoOutage, Trusts
<1> QED
  BY <1>1, ReloadInvHolds, PTL

\* No reloader, nor the listener, goes back to material that the files no longer
\* hold, and the listener serves what its reloader reports.
THEOREM MaterialIsNeverStale == Spec => NoStaleMaterial
<1>1. ASSUME ReloadInv, [Next]_vars
      PROVE  [/\ \A p \in Reloaders, f \in Files : Rank(current'[p][f]) >= Rank(current[p][f])
              /\ context' = current'["listener"]]_vars
  <2>1. ReloadInv'
    BY <1>1, ReloadInvNext
  <2>2. \A p \in Reloaders, f \in Files :
          /\ Rank(Before[p][f]) \in Nat /\ Rank(Goal[p][f]) \in Nat
          /\ Rank(Before[p][f]) <= Rank(Goal[p][f])
    BY <1>1, StepGoals DEF ReloadInv, TypeOK
  <2>3. \A p \in Reloaders, f \in Files : current[p][f] \in {Before[p][f], Goal[p][f]}
    BY <1>1 DEF ReloadInv, FileInv
  <2>4. ASSUME current' = current, NEW p \in Reloaders, NEW f \in Files
        PROVE  Rank(current'[p][f]) >= Rank(current[p][f])
    <3>1. Rank(current[p][f]) \in Nat
      BY <2>2, <2>3
    <3>2. current'[p][f] = current[p][f]
      BY <2>4
    <3> QED
      BY <3>1, <3>2
  <2>5. ASSUME NEW q \in Reloaders, NEW l \in Loads, Replace(q, l),
               NEW p \in Reloaders, NEW f \in Files
        PROVE  Rank(current'[p][f]) >= Rank(current[p][f])
    <3>1. Loaded(loads[q][l]) /\ current' = [current EXCEPT ![q] = loads[q][l]]
      BY <2>5 DEF Replace
    <3>2. /\ loads[q][l][f] \in {Before[q][f], Goal[q][f]}
          /\ current[q][f] = Goal[q][f] => loads[q][l][f] = Goal[q][f]
      BY <1>1, <3>1, CompleteLoad
    <3>3. current'[p][f] = IF p = q THEN loads[q][l][f] ELSE current[p][f]
      BY <1>1, <3>1 DEF ReloadInv, TypeOK
    <3>4. Rank(current[p][f]) \in Nat
      BY <2>2, <2>3
    <3>5. CASE p # q
      BY <3>3, <3>4, <3>5
    <3>6. CASE p = q
      BY <2>2, <2>3, <3>2, <3>3, <3>6
    <3> QED
      BY <3>5, <3>6
  <2>6. current' = current \/ \E q \in Reloaders, l \in Loads : Replace(q, l)
    BY <1>1 DEF Next, vars, Write, NextStep, StartReload, Keep, Read
  <2> QED
    BY <2>1, <2>4, <2>5, <2>6 DEF ReloadInv
<1> QED
  BY <1>1, ReloadInvHolds, PTL DEF Spec, NoStaleMaterial

=============================================================================
