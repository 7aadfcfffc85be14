----------------------------- MODULE ApiProofs ------------------------------
(***************************************************************************)
(* Proofs for Reads, for any keys, labels, page sizes and lengths of the    *)
(* history, and for Objects, for any fields, managers, clients, servers and *)
(* bodies.                                                                 *)
(*                                                                         *)
(* Reads: a revision, once written, selects the same objects for ever       *)
(* (Settled), and the selection of the next revision differs by what the    *)
(* change of that revision enters or leaves (Advancing).                    *)
(*                                                                         *)
(* Objects: what a server will commit was made from the object of the       *)
(* revision it compares with (Sound), so that whatever happened in between  *)
(* it commits over what it read or not at all.                              *)
(***************************************************************************)
EXTENDS Reads, Objects, FiniteSetTheorems, TLAPS

-----------------------------------------------------------------------------
(* Largest and smallest elements.                                          *)

\* A finite set of integers that is not empty has a largest element.
LEMMA MaxOfFinite ==
    ASSUME NEW S \in SUBSET Int, IsFiniteSet(S), S # {}
    PROVE  Max(S) \in S /\ \A y \in S : y <= Max(S)
  <1> DEFINE Above(m) == {x \in S : x > m}
             T == {Above(m) : m \in S}
  <1>1. T \subseteq FiniteSubsetsOf(S) /\ T # {}
    <2>1. T \subseteq SUBSET S /\ T # {}
      OBVIOUS
    <2> QED BY <2>1, FS_FiniteSubsetsOfFinite
  <1>2. PICK U \in T : \A V \in T : <<V, U>> \notin StrictSubsetOrdering(S)
    BY <1>1, FS_StrictSubsetOrderingWellFounded, WFMin
  <1>3. PICK m \in S : U = Above(m)
    BY <1>2
  <1>4. Above(m) = {}
    <2> SUFFICES ASSUME NEW x \in S, x > m PROVE FALSE
      OBVIOUS
    <2>1. Above(x) \in T /\ Above(x) \subseteq Above(m) /\ Above(x) # Above(m)
      <3>1. x \in Above(m) /\ x \notin Above(x)
        OBVIOUS
      <3>2. \A y \in S : y > x => y > m
        OBVIOUS
      <3>3. Above(x) \in T
        OBVIOUS
      <3> QED BY <3>1, <3>2, <3>3
    <2>2. <<Above(x), U>> \in StrictSubsetOrdering(S)
      BY <1>3, <2>1 DEF StrictSubsetOrdering
    <2> QED BY <1>2, <2>1, <2>2
  <1>5. m \in S /\ \A y \in S : m >= y
    BY <1>4
  <1> QED BY <1>5 DEF Max

\* ... and a smallest one.
LEMMA MinOfFinite ==
    ASSUME NEW S \in SUBSET Int, IsFiniteSet(S), S # {}
    PROVE  Min(S) \in S /\ \A y \in S : Min(S) <= y
  <1> DEFINE Below(m) == {x \in S : x < m}
             T == {Below(m) : m \in S}
  <1>1. T \subseteq FiniteSubsetsOf(S) /\ T # {}
    <2>1. T \subseteq SUBSET S /\ T # {}
      OBVIOUS
    <2> QED BY <2>1, FS_FiniteSubsetsOfFinite
  <1>2. PICK U \in T : \A V \in T : <<V, U>> \notin StrictSubsetOrdering(S)
    BY <1>1, FS_StrictSubsetOrderingWellFounded, WFMin
  <1>3. PICK m \in S : U = Below(m)
    BY <1>2
  <1>4. Below(m) = {}
    <2> SUFFICES ASSUME NEW x \in S, x < m PROVE FALSE
      OBVIOUS
    <2>1. Below(x) \in T /\ Below(x) \subseteq Below(m) /\ Below(x) # Below(m)
      <3>1. x \in Below(m) /\ x \notin Below(x)
        OBVIOUS
      <3>2. \A y \in S : y < x => y < m
        OBVIOUS
      <3>3. Below(x) \in T
        OBVIOUS
      <3> QED BY <3>1, <3>2, <3>3
    <2>2. <<Below(x), U>> \in StrictSubsetOrdering(S)
      BY <1>3, <2>1 DEF StrictSubsetOrdering
    <2> QED BY <1>2, <2>1, <2>2
  <1>5. m \in S /\ \A y \in S : m <= y
    BY <1>4
  <1> QED BY <1>5 DEF Min

-----------------------------------------------------------------------------
(* The history: versions and selections.                                   *)

\* The version of a key at a revision is its last change until then.
LEMMA VersionIs ==
    ASSUME log \in Seq(Change), NEW k, NEW r \in 0..Now
    PROVE  /\ Version(k, r) \in 0..r
           /\ Version(k, r) # 0 => log[Version(k, r)].key = k
           /\ \A i \in 1..r : log[i].key = k => i <= Version(k, r)
  <1> DEFINE S == {i \in 1..r : log[i].key = k} \cup {0}
  <1>1. r \in Nat
    OBVIOUS
  <1>2. S \subseteq 0..r /\ S # {} /\ S \in SUBSET Int
    BY <1>1
  <1>3. IsFiniteSet(S)
    <2>1. IsFiniteSet(0..r)
      BY <1>1, FS_Interval
    <2> QED BY <1>2, <2>1, FS_Subset
  <1>4. Max(S) \in S /\ \A y \in S : y <= Max(S)
    BY <1>2, <1>3, MaxOfFinite
  <1>5. Version(k, r) = Max(S)
    BY DEF Version
  <1> HIDE DEF Version
  <1> QED BY <1>1, <1>2, <1>4, <1>5

\* What is written at a revision is settled: later changes leave it.
LEMMA Settled ==
    ASSUME log \in Seq(Change), NEW c \in Change, log' = Append(log, c), selection' = selection
    PROVE  /\ \A r \in 0..Now : /\ \A k : Version(k, r)' = Version(k, r)
                                /\ Selected(r)' = Selected(r)
           /\ log' \in Seq(Change) /\ Now' = Now + 1
  <1>1. \A i \in 1..Now : log'[i] = log[i]
    BY DEF Now
  <1>2. \A r \in 0..Now : \A k : Version(k, r)' = Version(k, r)
    <2> SUFFICES ASSUME NEW r \in 0..Now, NEW k PROVE Version(k, r)' = Version(k, r)
      OBVIOUS
    <2>1. {i \in 1..r : log'[i].key = k} = {i \in 1..r : log[i].key = k}
      BY <1>1 DEF Now
    <2> QED BY <2>1 DEF Version
  <1>3. \A v \in 0..Now : matches(v)' <=> matches(v)
    <2> SUFFICES ASSUME NEW v \in 0..Now PROVE matches(v)' <=> matches(v)
      OBVIOUS
    <2>1. v # 0 => log'[v] = log[v]
      BY <1>1 DEF Now
    <2> QED BY <2>1 DEF matches
  <1>4. \A r \in 0..Now : Selected(r)' = Selected(r)
    <2> SUFFICES ASSUME NEW r \in 0..Now PROVE Selected(r)' = Selected(r)
      OBVIOUS
    <2>1. \A k \in Keys : Version(k, r) \in 0..Now
      BY VersionIs DEF Now
    <2>2. \A k \in Keys : matches(Version(k, r))' <=> matches(Version(k, r))
      BY <1>2, <1>3, <2>1
    <2> QED BY <1>2, <2>2 DEF Selected
  <1>5. log' \in Seq(Change) /\ Now' = Now + 1
    BY DEF Now
  <1> QED BY <1>2, <1>4, <1>5

\* The selection of the next revision: what its change enters comes in, what it
\* touches otherwise goes.
LEMMA Advancing ==
    ASSUME log \in Seq(Change), NEW p \in 0..Now, p < Now
    PROVE  Selected(p + 1) =
              {o \in Selected(p) : o[1] # log[p + 1].key}
              \cup (IF matches(p + 1) THEN {<<log[p + 1].key, p + 1>>} ELSE {})
  <1> DEFINE key == log[p + 1].key
  <1>1. p + 1 \in 1..Now /\ p \in Nat /\ Now \in Nat /\ key \in Keys
    <2>1. Now \in Nat /\ p + 1 \in 1..Now /\ p \in Nat
      BY DEF Now
    <2>2. log[p + 1] \in Change
      BY <2>1 DEF Now
    <2> QED BY <2>1, <2>2 DEF Change
  <1>2. Version(key, p + 1) = p + 1
    BY <1>1, VersionIs
  <1>3. \A k \in Keys : k # key => Version(k, p + 1) = Version(k, p)
    <2> SUFFICES ASSUME NEW k \in Keys, k # key PROVE Version(k, p + 1) = Version(k, p)
      OBVIOUS
    <2>1. {i \in 1..(p + 1) : log[i].key = k} = {i \in 1..p : log[i].key = k}
      BY <1>1
    <2> QED BY <2>1 DEF Version
  <1> QED BY <1>1, <1>2, <1>3 DEF Selected

\* What is selected is there.
LEMMA SelectedIsLive ==
    ASSUME log \in Seq(Change), NEW r \in 0..Now
    PROVE  /\ Selected(r) \subseteq Live(r) \X (1..r)
           /\ Live(r) \subseteq Keys
  <1>1. \A k \in Keys : Version(k, r) \in 0..r
    BY VersionIs
  <1>2. \A k \in Keys : matches(Version(k, r)) => Version(k, r) \in 1..r /\ k \in Live(r)
    <2>1. \A v : matches(v) => v # 0 /\ log[v].label # "gone"
      BY DEF matches
    <2> QED BY <1>1, <2>1 DEF Live
  <1> QED BY <1>2 DEF Selected, Live

-----------------------------------------------------------------------------
(* The inductive invariant.                                                *)

\* While it follows a watch, a client knows the selection of the change that
\* the stream has read, which need not be one it was told of.
Following == pc = "watching" => view = Selected(pos)

\* A list that is begun is not older than what the client knew.
Anchored == pc \in {"listing", "initial"} => seen <= at

IInv == KnowsOneSnapshot /\ Following /\ Anchored

LEMMA Initially == Init => IInv
  <1> SUFFICES ASSUME Init PROVE IInv
    OBVIOUS
  <1>1. Cardinality(Keys) \in Nat /\ Keys = 1..Cardinality(Keys)
    BY ReadsAssumption, FS_CardinalityType
  <1>2. PICK label \in [Keys -> Labels] : log = [k \in Keys |-> [key |-> k, label |-> label[k]]]
    BY DEF Init
  <1>3. log \in [1..Cardinality(Keys) -> Change]
    BY <1>1, <1>2 DEF Change
  <1>4. log \in Seq(Change) /\ Now \in Nat
    BY <1>1, <1>3 DEF Now
  <1> QED BY <1>4 DEF Init, IInv, KnowsOneSnapshot, TypeOK, ViewIsSelected, PagesOfOneSnapshot,
                      Following, Anchored

\* A change of the registry alters nothing that a client has, or is given.
LEMMA Writing ==
    ASSUME IInv, NEW k \in Keys, NEW label \in Labels \cup {"gone"}, Put(k, label)
    PROVE  IInv'
  <1> USE DEF IInv, KnowsOneSnapshot
  <1>1. /\ [key |-> k, label |-> label] \in Change
        /\ log' = Append(log, [key |-> k, label |-> label])
        /\ UNCHANGED <<floor, selection, pc, at, cursor, pos, seen, view, events>>
    BY DEF Put, Change, client
  <1>2. /\ \A r \in 0..Now : Selected(r)' = Selected(r)
        /\ log' \in Seq(Change) /\ Now' = Now + 1 /\ Now \in Nat
    BY <1>1, Settled DEF TypeOK, Now
  <1>3. TypeOK'
    BY <1>1, <1>2 DEF TypeOK
  <1>4. Selected(seen)' = Selected(seen) /\ Selected(at)' = Selected(at)
        /\ Selected(pos)' = Selected(pos)
    BY <1>1, <1>2 DEF TypeOK, Selected
  <1> QED BY <1>1, <1>3, <1>4 DEF ViewIsSelected, PagesOfOneSnapshot, Following, Anchored

\* Where nothing is written a revision selects what it did.
LEMMA Unwritten ==
    ASSUME UNCHANGED <<log, selection>>
    PROVE  /\ Now' = Now
           /\ \A r : Selected(r)' = Selected(r)
  BY DEF Now, Selected, matches, Version

\* Keys are numbered from 1, and 0 is before all of them.
LEMMA KeysAreNumbers == Keys \subseteq Nat \ {0} /\ IsFiniteSet(Keys)
  <1>1. Cardinality(Keys) \in Nat /\ Keys = 1..Cardinality(Keys)
    BY ReadsAssumption, FS_CardinalityType
  <1>2. \A k \in 1..Cardinality(Keys) : k \in Nat \ {0}
    BY <1>1
  <1> QED BY <1>1, <1>2, ReadsAssumption

\* A client begins a list, or the initial events of a watch.
LEMMA Beginning ==
    ASSUME IInv, StartList \/ WatchInitial
    PROVE  IInv'
  <1> USE DEF IInv, KnowsOneSnapshot
  <1>1. /\ pc' \in {"listing", "initial"} /\ at' = Now /\ cursor' = 0 /\ view' = {}
        /\ UNCHANGED <<log, floor, selection, pos, seen, events>>
    BY DEF StartList, WatchInitial
  <1>2. Now \in Nat
    BY DEF TypeOK, Now
  <1>3. TypeOK' /\ Anchored'
    BY <1>1, <1>2, Unwritten DEF TypeOK, Anchored
  <1>4. \A o \in Selected(Now) : o[1] \in Keys /\ ~(o[1] <= 0)
    <2>1. Selected(Now) \subseteq Live(Now) \X (1..Now) /\ Live(Now) \subseteq Keys
      BY <1>2, SelectedIsLive DEF TypeOK
    <2>2. \A o \in Selected(Now) : o[1] \in Keys
      BY <2>1
    <2>3. \A k \in Keys : ~(k <= 0)
      BY KeysAreNumbers
    <2> QED BY <2>2, <2>3
  <1>5. PagesOfOneSnapshot'
    BY <1>1, <1>4, Unwritten DEF PagesOfOneSnapshot
  <1> QED BY <1>1, <1>3, <1>5 DEF ViewIsSelected, Following

\* The last key of a page is one of those that were left.
LEMMA LastOfRest ==
    ASSUME NEW rest \in SUBSET Keys, rest # {}
    PROVE  LastOf(rest) \in rest
  <1> DEFINE upto(k) == {l \in rest : l <= k}
             returned(k) == {l \in upto(k) : matches(Version(l, at))}
             stops == {k \in rest : \/ Cardinality(returned(k)) >= Limit
                                    \/ Cardinality(upto(k)) >= Scan}
             S == stops \cup {Max(rest)}
  <1>1. IsFiniteSet(rest)
    BY KeysAreNumbers, FS_Subset
  <1>2. rest \in SUBSET Int
    BY KeysAreNumbers
  <1>3. Max(rest) \in rest
    BY <1>1, <1>2, MaxOfFinite
  <1>4. stops \subseteq rest
    OBVIOUS
  <1>5. S \in SUBSET Int /\ S \subseteq rest /\ S # {}
    BY <1>2, <1>3, <1>4
  <1>6. IsFiniteSet(S)
    BY <1>1, <1>5, FS_Subset
  <1>7. Min(S) \in S
    BY <1>5, <1>6, MinOfFinite
  <1>8. LastOf(rest) = Min(S)
    BY DEF LastOf
  <1> QED BY <1>5, <1>7, <1>8

\* A page adds to the beginning of the snapshot what comes next; the last one
\* completes it.
LEMMA Paging ==
    ASSUME IInv, ListPage
    PROVE  IInv'
  <1> USE DEF IInv, KnowsOneSnapshot
  <1> DEFINE rest == {k \in Live(at) : k > cursor}
  <1>1. /\ pc = "listing"
        /\ cursor' = IF rest = {} THEN cursor ELSE LastOf(rest)
        /\ view' = view \cup {o \in Selected(at) : o[1] \in rest /\ o[1] <= cursor'}
        /\ IF \E k \in rest : k > cursor' THEN UNCHANGED <<pc, seen>>
           ELSE pc' = "ended" /\ seen' = at
        /\ UNCHANGED <<log, floor, selection, at, pos, events>>
    BY DEF ListPage
  <1>2. at \in 0..Now /\ log \in Seq(Change)
    BY DEF TypeOK
  <1>3. Selected(at) \subseteq Live(at) \X (1..at) /\ Live(at) \subseteq Keys
    BY <1>2, SelectedIsLive
  <1>4. Keys \subseteq Nat \ {0} /\ cursor \in Nat
    BY KeysAreNumbers DEF TypeOK
  <1>5. cursor' \in Keys \cup {0} /\ cursor' >= cursor
    <2>1. CASE rest = {}
      BY <1>1, <1>4, <2>1 DEF TypeOK
    <2>2. CASE rest # {}
      <3>1. rest \in SUBSET Keys
        BY <1>3
      <3>2. cursor' \in rest
        BY <1>1, <2>2, <3>1, LastOfRest
      <3> HIDE DEF rest
      <3>3. cursor' \in Keys
        BY <3>1, <3>2
      <3>4. cursor' > cursor
        BY <3>2 DEF rest
      <3> QED BY <1>4, <3>3, <3>4
    <2> QED BY <2>1, <2>2
  <1>6. view' = {o \in Selected(at) : o[1] <= cursor'}
    <2>1. view = {o \in Selected(at) : o[1] <= cursor}
      BY <1>1 DEF PagesOfOneSnapshot
    <2>2. cursor' \in Nat
      BY <1>4, <1>5
    <2>3. \A o \in Selected(at) : o[1] \in Live(at) /\ o[1] \in Nat
      BY <1>3, <1>4
    <2>4. \A o \in Selected(at) :
             o \in view' <=> (o[1] <= cursor \/ (o[1] > cursor /\ o[1] <= cursor'))
      BY <1>1, <2>1, <2>3
    <2>5. \A o \in Selected(at) : o \in view' <=> o[1] <= cursor'
      BY <1>4, <1>5, <2>2, <2>3, <2>4
    <2>6. view' \subseteq Selected(at)
      BY <1>1, <2>1
    <2> QED BY <2>5, <2>6
  <1>7. TypeOK'
    <2>1. view' \subseteq Selected(at) /\ \A o, p \in Selected(at) : o[1] = p[1] => o = p
      BY <1>6 DEF Selected
    <2>2. view' \subseteq Keys \X (1..Now)
      <3>1. 1..at \subseteq 1..Now
        BY <1>2 DEF Now
      <3> QED BY <1>3, <2>1, <3>1
    <2>3. pc' \in {"listing", "ended"} /\ seen' \in {seen, at}
      BY <1>1
    <2> QED BY <1>1, <1>5, <2>1, <2>2, <2>3, Unwritten DEF TypeOK
  <1>8. CASE \E k \in rest : k > cursor'
    BY <1>1, <1>6, <1>7, <1>8, Unwritten
    DEF ViewIsSelected, PagesOfOneSnapshot, Following, Anchored
  <1>9. CASE ~\E k \in rest : k > cursor'
    <2>1. \A o \in Selected(at) : o[1] <= cursor'
      <3> SUFFICES ASSUME NEW o \in Selected(at) PROVE o[1] <= cursor'
        OBVIOUS
      <3>1. o[1] \in Live(at) /\ o[1] \in Nat
        BY <1>3, <1>4
      <3>2. o[1] > cursor => o[1] \in rest
        BY <3>1
      <3> HIDE DEF rest
      <3> QED BY <1>4, <1>5, <1>9, <3>1, <3>2
    <2>2. view' = Selected(at)
      BY <1>6, <2>1
    <2> QED BY <1>1, <1>7, <1>9, <2>2, Unwritten
        DEF ViewIsSelected, PagesOfOneSnapshot, Following, Anchored
  <1> QED BY <1>8, <1>9

\* The initial events of a watch come one by one, in the order of their keys.
LEMMA Opening ==
    ASSUME IInv, InitialEvent
    PROVE  IInv'
  <1> USE DEF IInv, KnowsOneSnapshot
  <1> DEFINE next == {k \in Live(at) : k > cursor}
  <1>1. /\ pc = "initial" /\ next # {} /\ cursor' = Min(next)
        /\ view' = view \cup {o \in Selected(at) : o[1] = cursor'}
        /\ UNCHANGED <<log, floor, selection, pc, at, pos, seen, events>>
    BY DEF InitialEvent
  <1>2. at \in 0..Now /\ log \in Seq(Change)
    BY DEF TypeOK
  <1>3. Selected(at) \subseteq Live(at) \X (1..at) /\ Live(at) \subseteq Keys
    BY <1>2, SelectedIsLive
  <1>4. Keys \subseteq Nat \ {0} /\ cursor \in Nat
    BY KeysAreNumbers DEF TypeOK
  <1>5. cursor' \in next /\ \A k \in next : cursor' <= k
    <2>1. next \in SUBSET Keys
      BY <1>3
    <2> HIDE DEF next
    <2>2. IsFiniteSet(next)
      BY <2>1, KeysAreNumbers, FS_Subset
    <2>3. next \in SUBSET Int
      BY <2>1, KeysAreNumbers
    <2> QED BY <1>1, <2>2, <2>3, MinOfFinite
  <1>6. cursor' \in Keys /\ cursor' \in Nat
    BY <1>3, <1>4, <1>5
  <1>7. view' = {o \in Selected(at) : o[1] <= cursor'}
    <2>1. view = {o \in Selected(at) : o[1] <= cursor}
      BY <1>1 DEF PagesOfOneSnapshot
    <2>2. ASSUME NEW o \in Selected(at) PROVE o \in view' <=> o[1] <= cursor'
      <3>1. o[1] \in Live(at) /\ o[1] \in Nat
        BY <1>3, <1>4
      <3>2. o[1] > cursor => cursor' <= o[1]
        BY <1>5, <3>1
      <3>3. cursor < cursor'
        BY <1>5
      <3> HIDE DEF next
      <3>4. o \in view' <=> (o[1] <= cursor \/ o[1] = cursor')
        BY <1>1, <2>1
      <3> QED BY <1>4, <1>6, <3>1, <3>2, <3>3, <3>4
    <2>3. view' \subseteq Selected(at)
      BY <1>1, <2>1
    <2> QED BY <2>2, <2>3
  <1>8. TypeOK'
    <2>1. view' \subseteq Selected(at) /\ \A o, p \in Selected(at) : o[1] = p[1] => o = p
      BY <1>7 DEF Selected
    <2>2. 1..at \subseteq 1..Now
      BY <1>2 DEF Now
    <2>3. view' \subseteq Keys \X (1..Now)
      BY <1>3, <2>1, <2>2
    <2> QED BY <1>1, <1>6, <2>1, <2>3, Unwritten DEF TypeOK
  <1> QED BY <1>1, <1>7, <1>8, Unwritten
      DEF ViewIsSelected, PagesOfOneSnapshot, Following, Anchored

\* The bookmark that ends them completes the snapshot.
LEMMA Opened ==
    ASSUME IInv, InitialEnd
    PROVE  IInv'
  <1> USE DEF IInv, KnowsOneSnapshot
  <1>1. /\ pc = "initial" /\ \A k \in Live(at) : k <= cursor
        /\ pc' = "watching" /\ pos' = at /\ seen' = at
        /\ UNCHANGED <<log, floor, selection, at, cursor, view, events>>
    BY DEF InitialEnd
  <1>2. Selected(at) \subseteq Live(at) \X (1..at)
    BY SelectedIsLive DEF TypeOK
  <1>3. view = Selected(at)
    BY <1>1, <1>2 DEF PagesOfOneSnapshot
  <1>4. TypeOK'
    BY <1>1, Unwritten DEF TypeOK, Now
  <1> QED BY <1>1, <1>3, <1>4, Unwritten
      DEF ViewIsSelected, PagesOfOneSnapshot, Following, Anchored

\* An event tells the client of what enters, stays in or leaves its selection;
\* a change that does neither is passed over, and changes no selection.
LEMMA Streaming ==
    ASSUME IInv, Event
    PROVE  IInv'
  <1> USE DEF IInv, KnowsOneSnapshot
  <1> DEFINE key == log[pos + 1].key
             before == matches(Version(key, pos))
             after == matches(pos + 1)
  <1>1. /\ pc = "watching" /\ pos < Now /\ pos' = pos + 1
        /\ view' = Received(key, before, after)
        /\ seen' = IF before \/ after THEN pos + 1 ELSE seen
        /\ UNCHANGED <<log, floor, selection, pc, at, cursor, events>>
    BY DEF Event
  <1>2. pos \in 0..Now /\ seen \in 0..Now /\ seen <= pos /\ log \in Seq(Change) /\ Now \in Nat
    BY <1>1 DEF TypeOK, Now
  <1>3. view = Selected(pos) /\ view = Selected(seen)
    BY <1>1 DEF Following, ViewIsSelected
  <1> HIDE DEF after
  <1>4. Selected(pos + 1) = {o \in Selected(pos) : o[1] # key}
                            \cup (IF after THEN {<<key, pos + 1>>} ELSE {})
    BY <1>1, <1>2, Advancing DEF after
  <1>5. ~before => {o \in Selected(pos) : o[1] # key} = Selected(pos)
    BY DEF Selected
  <1> HIDE DEF before, key
  <1>6. view' = Selected(pos + 1)
    BY <1>1, <1>3, <1>4, <1>5 DEF Received
  <1>7. ~before /\ ~after => view' = Selected(seen)
    BY <1>1, <1>3 DEF Received
  <1>8. /\ pos' \in 0..Now /\ seen' \in 0..Now /\ seen' <= pos'
        /\ view' = Selected(seen')
    BY <1>1, <1>2, <1>6, <1>7
  <1>9. TypeOK'
    <2>1. view' \subseteq Live(pos + 1) \X (1..(pos + 1)) /\ Live(pos + 1) \subseteq Keys
      BY <1>1, <1>2, <1>6, SelectedIsLive
    <2>2. view' \subseteq Keys \X (1..Now)
      BY <1>1, <1>2, <2>1
    <2>3. \A o, p \in view' : o[1] = p[1] => o = p
      BY <1>6 DEF Selected
    <2> QED BY <1>1, <1>8, <2>2, <2>3, Unwritten DEF TypeOK
  <1> QED BY <1>1, <1>6, <1>8, <1>9, Unwritten
      DEF ViewIsSelected, PagesOfOneSnapshot, Following, Anchored

\* A client watches from what it knows, is told how far the stream has read,
\* loses the stream, or starts again.
LEMMA Resuming ==
    ASSUME IInv, Watch \/ Bookmark \/ WatchEnds \/ Expired \/ Compact
    PROVE  IInv'
  <1> USE DEF IInv, KnowsOneSnapshot
  <1>1. UNCHANGED <<log, selection, at, cursor, view>>
    BY DEF Watch, Bookmark, WatchEnds, Expired, Compact, client
  <1>2. TypeOK'
    <2>1. /\ floor' \in 0..Now /\ pos' \in 0..Now /\ seen' \in 0..Now
          /\ pc' \in {"start", "listing", "initial", "ended", "watching"}
          /\ pc' = "watching" => seen' <= pos'
      BY DEF Watch, Bookmark, WatchEnds, Expired, Compact, client, TypeOK, Now
    <2> QED BY <1>1, <2>1, Unwritten DEF TypeOK
  <1>3. CASE Compact
    BY <1>1, <1>2, <1>3, Unwritten
    DEF Compact, client, ViewIsSelected, PagesOfOneSnapshot, Following, Anchored
  <1>4. CASE Watch
    BY <1>1, <1>2, <1>4, Unwritten
    DEF Watch, ViewIsSelected, PagesOfOneSnapshot, Following, Anchored
  <1>5. CASE Bookmark \/ WatchEnds \/ Expired
    BY <1>1, <1>2, <1>5, Unwritten
    DEF Bookmark, WatchEnds, Expired, ViewIsSelected, PagesOfOneSnapshot, Following, Anchored
  <1> QED BY <1>3, <1>4, <1>5

LEMMA Stepwise == IInv /\ [Next]_vars => IInv'
  <1> SUFFICES ASSUME IInv, [Next]_vars PROVE IInv'
    OBVIOUS
  <1>1. CASE UNCHANGED vars
    BY <1>1, Unwritten DEF vars, IInv, KnowsOneSnapshot, TypeOK, ViewIsSelected,
                           PagesOfOneSnapshot, Following, Anchored
  <1>2. CASE Next
    BY <1>2, Writing, Beginning, Paging, Opening, Opened, Streaming, Resuming DEF Next, Reader
  <1> QED BY <1>1, <1>2

-----------------------------------------------------------------------------
(* The theorems.                                                           *)

\* In every state a client is somewhere in reading one snapshot: a list's pages
\* stay before its token, a stream stays between its events and its position
\* (read.rs, list and watch).
THEOREM InvariantHolds == Spec => []IInv
  BY Initially, Stepwise, PTL DEF Spec

\* Whatever changes while a client pages, filters, resumes or starts again, it
\* knows exactly what its selection had at one revision, or the beginning of
\* that while it is still being given it (read.rs, list and watch).
THEOREM OneSnapshotIsKnown == Spec => []KnowsOneSnapshot
  <1>1. IInv => KnowsOneSnapshot
    BY DEF IInv
  <1> QED BY <1>1, InvariantHolds, PTL

\* The revision a client knows of never goes back, not even when history is
\* compacted under it and it starts again (read.rs, the watch anchor).
THEOREM RevisionsOnlyGrow == Spec => RevisionsGrow
  <1>1. ASSUME IInv, [Next]_vars
        PROVE  [seen' >= seen /\ (pc' = "listing" /\ pc = "start" => at' >= seen)]_vars
    <2> SUFFICES ASSUME Next
                 PROVE  seen' >= seen /\ (pc' = "listing" /\ pc = "start" => at' >= seen)
      BY <1>1
    <2>1. seen \in Nat /\ seen <= Now /\ at \in Nat /\ pos \in Nat
      BY <1>1 DEF IInv, KnowsOneSnapshot, TypeOK, Now
    <2>2. seen' >= seen
      <3>1. CASE seen' = seen
        BY <2>1, <3>1
      <3>2. CASE Event \/ Bookmark
        BY <1>1, <2>1, <3>2 DEF Event, Bookmark, IInv, KnowsOneSnapshot, TypeOK
      <3>3. CASE ListPage \/ InitialEnd
        BY <1>1, <2>1, <3>3 DEF ListPage, InitialEnd, IInv, Anchored
      <3> QED BY <3>1, <3>2, <3>3
          DEF Next, Reader, Put, Compact, client, StartList, Watch, WatchInitial, InitialEvent,
              Expired, WatchEnds
    <2>3. pc' = "listing" /\ pc = "start" => at' = Now
      BY DEF Next, Reader, Put, Compact, client, StartList, ListPage, Watch, WatchInitial,
             InitialEvent, InitialEnd, Event, Bookmark, Expired, WatchEnds
    <2> QED BY <2>1, <2>2, <2>3 DEF Now
  <1> QED BY <1>1, InvariantHolds, PTL DEF Spec, RevisionsGrow

-----------------------------------------------------------------------------
(* Paths and trees.                                                        *)

LEMMA PathsEqual ==
    ASSUME NEW s \in Seq(Words), NEW t \in Seq(Words), Len(s) = Len(t),
           \A i \in 1..Len(s) : s[i] = t[i]
    PROVE  s = t
  OBVIOUS

\* A prefix agrees with a path as far as it goes.
LEMMA PrefixIs ==
    ASSUME NEW s \in Seq(Words), NEW t \in Seq(Words)
    PROVE  IsPrefix(s, t) <=> Len(s) <= Len(t) /\ \A i \in 1..Len(s) : s[i] = t[i]
  <1>1. CASE Len(s) <= Len(t)
    <2>1. /\ SubSeq(s, 1, Len(s)) \in Seq(Words) /\ Len(SubSeq(s, 1, Len(s))) = Len(s)
          /\ \A i \in 1..Len(s) : SubSeq(s, 1, Len(s))[i] = s[i]
      OBVIOUS
    <2>2. /\ SubSeq(t, 1, Len(s)) \in Seq(Words) /\ Len(SubSeq(t, 1, Len(s))) = Len(s)
          /\ \A i \in 1..Len(s) : SubSeq(t, 1, Len(s))[i] = t[i]
      BY <1>1
    <2>3. (\A i \in 1..Len(s) : SubSeq(s, 1, Len(s))[i] = SubSeq(t, 1, Len(s))[i])
             => SubSeq(s, 1, Len(s)) = SubSeq(t, 1, Len(s))
      BY <2>1, <2>2, PathsEqual
    <2> QED BY <1>1, <2>1, <2>2, <2>3 DEF IsPrefix
  <1> QED BY <1>1 DEF IsPrefix

LEMMA TupleOfThree ==
    ASSUME NEW a \in Words, NEW b \in Words, NEW c \in Words
    PROVE  /\ <<a, b, c>> \in Seq(Words) /\ Len(<<a, b, c>>) = 3
           /\ <<a, b, c>>[1] = a /\ <<a, b, c>>[2] = b /\ <<a, b, c>>[3] = c
  <1>1. <<a, b, c>> \in Seq(Words) /\ Len(<<a, b, c>>) = 3
    OBVIOUS
  <1>2. <<a, b, c>>[1] = a /\ <<a, b, c>>[2] = b /\ <<a, b, c>>[3] = c
    OBVIOUS
  <1> QED BY <1>1, <1>2

LEMMA TupleOfOne ==
    ASSUME NEW a \in Words
    PROVE  <<a>> \in Seq(Words) /\ Len(<<a>>) = 1 /\ <<a>>[1] = a
  <1>1. <<a>> \in Seq(Words)
    OBVIOUS
  <1> QED BY <1>1

LEMMA WordsOccur ==
    /\ "env" \in Words /\ "name" \in Words /\ "value" \in Words /\ "" \in Words
    /\ "[]" \in Words /\ "replicas" \in Words /\ "1" \in Words
  BY ObjectsAssumption

LEMMA EnvIsLeaf == Env \in Leaf /\ Env \in Seq(Words) /\ Len(Env) = 1 /\ Env[1] = "env"
  <1>1. Env \in Seq(Words) /\ Len(Env) = 1 /\ Env[1] = "env"
    BY WordsOccur, TupleOfOne DEF Env
  <1> QED BY <1>1 DEF Leaf

\* The shapes of leaves.
LEMMA LeafShape ==
    ASSUME NEW p \in Leaf
    PROVE  /\ p \in Seq(Words) /\ Len(p) \in 1..3 /\ p[1] \in Words
           /\ p[1] = "env" => p = Env \/ Len(p) = 3
           /\ Len(p) = 3 => p[1] = "env"
           /\ p[1] = "replicas" => p = <<"replicas">>
  <1>1. p \in Seq(Words) /\ Len(p) \in 1..3
    BY EnvIsLeaf DEF Leaf
  <1>2. p[1] \in Words
    BY <1>1
  <1>3. /\ p[1] = "env" => p = Env \/ Len(p) = 3
        /\ Len(p) = 3 => p[1] = "env"
        /\ p[1] = "replicas" => Len(p) = 1
    <2>1. CASE p = Env
      BY <2>1, EnvIsLeaf
    <2>2. CASE Len(p) = 3 /\ p[1] = "env"
      BY <2>2
    <2>3. CASE Len(p) \in {1, 2} /\ p[1] # "env" /\ (p[1] = "replicas" => Len(p) = 1)
      BY <2>3
    <2> QED BY <2>1, <2>2, <2>3 DEF Leaf
  <1>4. ASSUME p[1] = "replicas" PROVE p = <<"replicas">>
    <2>1. PICK r : r = <<"replicas">>
      OBVIOUS
    <2>2. r \in Seq(Words) /\ Len(r) = 1 /\ r[1] = "replicas"
      BY <2>1, WordsOccur, TupleOfOne
    <2>3. p = r
      BY <1>1, <1>3, <1>4, <2>2, PathsEqual
    <2> QED BY <2>1, <2>3
  <1> QED BY <1>1, <1>2, <1>3, <1>4

\* The leaves of an item are leaves of their own.
LEMMA ItemsAreLeaves ==
    ASSUME NEW i \in Words
    PROVE  /\ Name(i) \in Leaf /\ Value(i) \in Leaf /\ Nameless(i) \in Leaf
           /\ Len(Name(i)) = 3 /\ Len(Value(i)) = 3 /\ Len(Nameless(i)) = 3
           /\ Name(i)[1] = "env" /\ Value(i)[1] = "env" /\ Nameless(i)[1] = "env"
           /\ Name(i)[2] = i /\ Value(i)[2] = i /\ Nameless(i)[2] = ""
           /\ Name(i)[3] = "name" /\ Value(i)[3] = "value" /\ Nameless(i)[3] = i
           /\ Name(i) # Value(i)
  <1>1. /\ Name(i) \in Seq(Words) /\ Len(Name(i)) = 3
        /\ Name(i)[1] = "env" /\ Name(i)[2] = i /\ Name(i)[3] = "name"
    BY TupleOfThree, WordsOccur DEF Name
  <1>2. /\ Value(i) \in Seq(Words) /\ Len(Value(i)) = 3
        /\ Value(i)[1] = "env" /\ Value(i)[2] = i /\ Value(i)[3] = "value"
    BY TupleOfThree, WordsOccur DEF Value
  <1>3. /\ Nameless(i) \in Seq(Words) /\ Len(Nameless(i)) = 3
        /\ Nameless(i)[1] = "env" /\ Nameless(i)[2] = "" /\ Nameless(i)[3] = i
    BY TupleOfThree, WordsOccur DEF Nameless
  <1>4. Name(i) \in Leaf /\ Value(i) \in Leaf /\ Nameless(i) \in Leaf
    BY <1>1, <1>2, <1>3 DEF Leaf
  <1>5. Name(i) # Value(i)
    BY <1>1, <1>2
  <1> QED BY <1>1, <1>2, <1>3, <1>4, <1>5

LEMMA NamelessApart ==
    ASSUME NEW v \in Words
    PROVE  /\ Nameless(v) # Env /\ Nameless(v) # <<"replicas">>
           /\ \A w \in Words : Nameless(v) = Nameless(w) => v = w
  <1>1. PICK n : n = Nameless(v)
    OBVIOUS
  <1>2. Len(n) = 3 /\ n[3] = v
    BY <1>1, ItemsAreLeaves
  <1>3. n # Env
    <2>1. n = Env => Len(n) = 1
      BY EnvIsLeaf
    <2> QED BY <1>2, <2>1
  <1>4. n # <<"replicas">>
    <2>1. n = <<"replicas">> => Len(n) = 1
      BY WordsOccur, TupleOfOne
    <2> QED BY <1>2, <2>1
  <1>5. ASSUME NEW w \in Words, n = Nameless(w) PROVE v = w
    BY <1>2, <1>5, ItemsAreLeaves
  <1> QED BY <1>1, <1>3, <1>4, <1>5

\* Paths of one length are prefixes only of themselves.
LEMMA PrefixOfEqualLength ==
    ASSUME NEW s \in Seq(Words), NEW t \in Seq(Words), Len(s) = Len(t), IsPrefix(s, t)
    PROVE  s = t
  BY PrefixIs

\* What is comparable to a leaf of env is a leaf of env.
LEMMA ComparableLeaves ==
    ASSUME NEW p \in Leaf, NEW q \in Leaf, IsPrefix(p, q)
    PROVE  p[1] = q[1] /\ Len(p) <= Len(q) /\ (Len(p) = Len(q) => p = q)
  BY LeafShape, PrefixIs

LEMMA PrefixOfItself ==
    ASSUME NEW p \in Seq(Words)
    PROVE  IsPrefix(p, p)
  BY PrefixIs

\* Trees as a set.
Forest == {t \in UNION {[P -> Words] : P \in SUBSET Leaf} : Tree(t)}

LEMMA ForestIs ==
    ASSUME NEW t
    PROVE  t \in Forest <=> Tree(t)
  <1>1. ASSUME Tree(t)
        PROVE  t \in Forest
    <2>1. DOMAIN t \in SUBSET Leaf /\ t \in [DOMAIN t -> Words]
      BY <1>1 DEF Tree
    <2> QED BY <1>1, <2>1 DEF Forest
  <1> QED BY <1>1 DEF Forest

LEMMA EmptyTree == <<>> \in Forest /\ DOMAIN <<>> = {}
  <1>1. DOMAIN <<>> = {} /\ <<>> \in [{} -> Words]
    OBVIOUS
  <1> QED BY <1>1, ForestIs DEF Tree

\* A tree without some of its leaves is a tree.
LEMMA WithoutIsTree ==
    ASSUME NEW t \in Forest, NEW P
    PROVE  /\ Without(t, P) \in Forest /\ DOMAIN Without(t, P) = DOMAIN t \ P
           /\ \A q \in DOMAIN t \ P : Without(t, P)[q] = t[q]
  <1>1. Tree(t)
    BY ForestIs
  <1>2. PICK D : D = DOMAIN t \ P
    OBVIOUS
  <1>3. PICK u : u = [x \in D |-> t[x]]
    OBVIOUS
  <1>4. u = Without(t, P)
    BY <1>2, <1>3 DEF Without, Restrict
  <1>5. DOMAIN u = D /\ \A q \in D : u[q] = t[q]
    BY <1>3
  <1>6. u \in [D -> Words]
    BY <1>1, <1>2, <1>3 DEF Tree
  <1>7. Tree(u)
    BY <1>1, <1>2, <1>5, <1>6 DEF Tree
  <1> QED BY <1>2, <1>4, <1>5, <1>7, ForestIs

\* A leaf that is not comparable to others may be added.
Apart(t, p) == \A q \in DOMAIN t \ {p} : ~IsPrefix(p, q) /\ ~IsPrefix(q, p)

\* Two kinds of leaves have one value only.
Proper(p, v) == (p = Env => v = "[]") /\ \A w \in Words : p = Nameless(w) => v = w

LEMMA WithIsTree ==
    ASSUME NEW t \in Forest, NEW p \in Leaf, NEW v \in Words, Apart(t, p), Proper(p, v)
    PROVE  /\ With(t, p, v) \in Forest /\ DOMAIN With(t, p, v) = DOMAIN t \cup {p}
           /\ With(t, p, v)[p] = v
           /\ \A q \in DOMAIN t \ {p} : With(t, p, v)[q] = t[q]
  <1>1. Tree(t)
    BY ForestIs
  <1>2. PICK D : D = DOMAIN t \cup {p}
    OBVIOUS
  <1>3. PICK u : u = [q \in D |-> IF q = p THEN v ELSE t[q]]
    OBVIOUS
  <1>4. u = With(t, p, v)
    BY <1>2, <1>3 DEF With
  <1>5. DOMAIN u = D /\ u[p] = v /\ \A q \in DOMAIN t \ {p} : u[q] = t[q]
    BY <1>2, <1>3
  <1>6. u \in [D -> Words]
    BY <1>1, <1>2, <1>3 DEF Tree
  <1>7. Tree(u)
    <2>1. DOMAIN u \subseteq Leaf /\ \A x, q \in DOMAIN u : IsPrefix(x, q) => x = q
      BY <1>1, <1>2, <1>5 DEF Tree, Apart
    <2>2. Env \in DOMAIN u => u[Env] = "[]"
      BY <1>1, <1>2, <1>5 DEF Tree, Proper
    <2>3. \A w \in Words : Nameless(w) \in DOMAIN u => u[Nameless(w)] = w
      BY <1>1, <1>2, <1>5 DEF Tree, Proper
    <2> QED BY <1>5, <1>6, <2>1, <2>2, <2>3 DEF Tree
  <1> QED BY <1>2, <1>4, <1>5, <1>7, ForestIs

\* Putting a tree over another one leaves no leaf above or below another.
LEMMA OverlayIsTree ==
    ASSUME NEW t \in Forest, NEW body \in Forest
    PROVE  /\ Overlay(t, body) \in Forest
           /\ DOMAIN Overlay(t, body) =
                 {q \in DOMAIN t : \A p \in DOMAIN body : ~IsPrefix(p, q) /\ ~IsPrefix(q, p)}
                    \cup DOMAIN body
           /\ \A q \in DOMAIN Overlay(t, body) :
                 Overlay(t, body)[q] = IF q \in DOMAIN body THEN body[q] ELSE t[q]
  <1>1. Tree(t) /\ Tree(body)
    BY ForestIs
  <1>2. PICK off : off = {q \in DOMAIN t : \E p \in DOMAIN body : IsPrefix(p, q) \/ IsPrefix(q, p)}
    OBVIOUS
  <1>3. PICK D : D = (DOMAIN t \ off) \cup DOMAIN body
    OBVIOUS
  <1>4. PICK u : u = [q \in D |-> IF q \in DOMAIN body THEN body[q] ELSE t[q]]
    OBVIOUS
  <1>5. u = Overlay(t, body)
    BY <1>2, <1>3, <1>4 DEF Overlay
  <1>6. DOMAIN u = D /\ \A q \in D : u[q] = IF q \in DOMAIN body THEN body[q] ELSE t[q]
    BY <1>4
  <1>7. D = {q \in DOMAIN t : \A p \in DOMAIN body : ~IsPrefix(p, q) /\ ~IsPrefix(q, p)}
               \cup DOMAIN body
    BY <1>2, <1>3
  <1>8. D \subseteq Leaf /\ u \in [D -> Words]
    BY <1>1, <1>3, <1>4 DEF Tree
  <1>9. \A p, q \in D : IsPrefix(p, q) => p = q
    BY <1>1, <1>7 DEF Tree
  <1>10. Env \in DOMAIN u => u[Env] = "[]"
    BY <1>1, <1>3, <1>6 DEF Tree
  <1>11. \A w \in Words : Nameless(w) \in DOMAIN u => u[Nameless(w)] = w
    BY <1>1, <1>3, <1>6 DEF Tree
  <1>12. Tree(u)
    BY <1>6, <1>8, <1>9, <1>10, <1>11 DEF Tree
  <1> QED BY <1>5, <1>6, <1>7, <1>12, ForestIs

\* A list without items is empty; nothing else is comparable to it.
LEMMA RelistedIsTree ==
    ASSUME NEW before, NEW t \in Forest
    PROVE  /\ Relisted(before, t) \in Forest
           /\ \A q \in DOMAIN t : q \in DOMAIN Relisted(before, t)
                                   /\ Relisted(before, t)[q] = t[q]
           /\ DOMAIN Relisted(before, t) \subseteq DOMAIN t \cup {Env}
           /\ Env \in DOMAIN Relisted(before, t) \ DOMAIN t =>
                 Under(before, Env) # {} /\ Under(t, Env) = {}
  <1>1. CASE ~(Under(before, Env) # {} /\ Under(t, Env) = {})
    <2>1. Relisted(before, t) = t
      BY <1>1 DEF Relisted
    <2> QED BY <1>1, <2>1
  <1>2. CASE Under(before, Env) # {} /\ Under(t, Env) = {}
    <2>1. Relisted(before, t) = With(t, Env, "[]")
      BY <1>2 DEF Relisted
    <2>2. \A q \in DOMAIN t : q \in Leaf /\ ~IsPrefix(Env, q)
      BY <1>2, ForestIs DEF Under, Tree
    <2>3. \A q \in DOMAIN t : ~IsPrefix(q, Env)
      <3> SUFFICES ASSUME NEW q \in DOMAIN t, IsPrefix(q, Env) PROVE FALSE
        OBVIOUS
      <3>1. Len(q) <= Len(Env) /\ q \in Leaf
        BY <2>2, EnvIsLeaf, ComparableLeaves
      <3>2. q = Env
        BY <2>2, <3>1, EnvIsLeaf, LeafShape, ComparableLeaves
      <3> QED BY <2>2, <3>2, EnvIsLeaf, PrefixOfItself
    <2>4. Env \notin DOMAIN t
      BY <2>2, EnvIsLeaf, PrefixOfItself
    <2>5. /\ With(t, Env, "[]") \in Forest
          /\ DOMAIN With(t, Env, "[]") = DOMAIN t \cup {Env}
          /\ \A q \in DOMAIN t \ {Env} : With(t, Env, "[]")[q] = t[q]
      <3>1. Apart(t, Env)
        BY <2>2, <2>3 DEF Apart
      <3>2. PICK v \in Words : v = "[]"
        BY WordsOccur
      <3>3. /\ With(t, Env, v) \in Forest
            /\ DOMAIN With(t, Env, v) = DOMAIN t \cup {Env}
            /\ \A q \in DOMAIN t \ {Env} : With(t, Env, v)[q] = t[q]
        <4>1. Proper(Env, v)
          BY <3>2, NamelessApart DEF Proper
        <4> QED BY <3>1, <4>1, EnvIsLeaf, WithIsTree
      <3> QED BY <3>2, <3>3
    <2> QED BY <1>2, <2>1, <2>4, <2>5
  <1> QED BY <1>1, <1>2

\* Removing a path from a tree leaves a tree.
LEMMA RemoveIsTree ==
    ASSUME NEW t \in Forest, NEW p \in Leaf
    PROVE  remove(t, p) \in Forest
  <1>1. CASE Len(p) < 3
    BY <1>1, WithoutIsTree DEF remove
  <1>2. CASE ~(Len(p) < 3)
    <2>1. Len(p) = 3 /\ p[2] \in Words
      <3>1. PICK n \in 1..3 : n = Len(p)
        BY LeafShape
      <3>2. ~(n < 3)
        BY <1>2, <3>1
      <3>3. n = 3
        BY <3>2
      <3>4. p \in [1..n -> Words]
        BY <3>1, LeafShape
      <3>5. p[2] \in Words
        BY <3>3, <3>4
      <3> QED BY <3>1, <3>3, <3>5
    <2>2. PICK i \in Words : i = p[2]
      BY <2>1
    <2>3. CASE Name(i) \notin DOMAIN t
      BY <1>2, <2>2, <2>3 DEF remove
    <2>4. CASE Name(i) \in DOMAIN t /\ p = Name(i) /\ Value(i) \in DOMAIN t
      <3>1. PICK u : u = Without(t, {Name(i), Value(i)})
        OBVIOUS
      <3>2. u \in Forest /\ DOMAIN u = DOMAIN t \ {Name(i), Value(i)}
        BY <3>1, WithoutIsTree
      <3>3. PICK v \in Words : v = t[Value(i)]
        BY <2>4, ForestIs DEF Tree
      <3>4. remove(t, p) = With(u, Nameless(v), v)
        BY <1>2, <2>2, <2>4, <3>1, <3>3 DEF remove
      <3>5. \A q \in DOMAIN t : q \in Leaf /\ (q = Env => FALSE)
        <4>1. Env \notin DOMAIN t
          <5> SUFFICES ASSUME Env \in DOMAIN t PROVE FALSE
            OBVIOUS
          <5>1. PICK n : n = Name(i)
            OBVIOUS
          <5>2. n \in Leaf /\ n \in Seq(Words) /\ Len(n) = 3 /\ n[1] = "env"
            BY <5>1, ItemsAreLeaves, LeafShape
          <5>3. IsPrefix(Env, n)
            BY <5>2, EnvIsLeaf, PrefixIs
          <5>4. n \in DOMAIN t /\ Tree(t)
            BY <2>4, <5>1, ForestIs
          <5>5. Env = n
            BY <5>3, <5>4 DEF Tree
          <5>6. Len(n) = 1 /\ Len(n) = 3
            BY <5>2, <5>5, EnvIsLeaf
          <5> QED BY <5>6
        <4> QED BY <4>1, ForestIs DEF Tree
      <3>6. PICK n : n = Nameless(v)
        OBVIOUS
      <3>7. n \in Leaf /\ Len(n) = 3 /\ n[1] = "env"
        BY <3>6, ItemsAreLeaves
      <3>8. Apart(u, n)
        <4> SUFFICES ASSUME NEW q \in DOMAIN u \ {n}, IsPrefix(n, q) \/ IsPrefix(q, n)
                     PROVE  FALSE
          BY DEF Apart
        <4>1. q \in Leaf /\ q # Env
          BY <3>2, <3>5
        <4>2. q[1] = "env"
          BY <4>1, <3>7, ComparableLeaves
        <4>3. Len(q) = 3
          BY <4>1, <4>2, LeafShape
        <4> QED BY <3>7, <4>1, <4>3, ComparableLeaves
      <3>9. With(u, n, v) \in Forest
        <4>1. n # Env
          BY <3>6, NamelessApart
        <4>2. \A w \in Words : n = Nameless(w) => v = w
          BY <3>6, NamelessApart
        <4> QED BY <3>2, <3>7, <3>8, <4>1, <4>2, WithIsTree DEF Proper
      <3> QED BY <3>4, <3>6, <3>9
    <2>5. CASE Name(i) \in DOMAIN t /\ ~(p = Name(i) /\ Value(i) \in DOMAIN t)
      <3>1. remove(t, p) = Relisted(t, Without(t, {p}))
        BY <1>2, <2>2, <2>5 DEF remove
      <3>2. PICK u : u = Without(t, {p})
        OBVIOUS
      <3>3. u \in Forest
        BY <3>2, WithoutIsTree
      <3> QED BY <3>1, <3>2, <3>3, RelistedIsTree
    <2> QED BY <2>3, <2>4, <2>5
  <1> QED BY <1>1, <1>2

LEMMA PruneIsTree ==
    ASSUME NEW t \in Forest
    PROVE  Prune(t) \in Forest
  BY WithoutIsTree, RelistedIsTree DEF Prune

LEMMA DefaultedIsTree ==
    ASSUME NEW t \in Forest
    PROVE  /\ Defaulted(t) \in Forest
           /\ DOMAIN t \subseteq DOMAIN Defaulted(t)
           /\ \A q \in DOMAIN t : Defaulted(t)[q] = t[q]
           /\ DOMAIN Defaulted(t) \subseteq DOMAIN t \cup {<<"replicas">>}
  <1>1. CASE kind = "Deployment" /\ <<"replicas">> \notin DOMAIN t
    <2>1. PICK r : r = <<"replicas">>
      OBVIOUS
    <2>2. r \in Seq(Words) /\ Len(r) = 1 /\ r[1] = "replicas"
      BY <2>1, WordsOccur, TupleOfOne
    <2>3. r \in Leaf
      <3>1. r[1] # "env"
        BY <2>2
      <3> QED BY <2>2, <3>1 DEF Leaf
    <2>4. \A q \in DOMAIN t : q \in Leaf /\ q # r
      BY <1>1, <2>1, ForestIs DEF Tree
    <2>5. \A q \in DOMAIN t : ~IsPrefix(q, r) /\ ~IsPrefix(r, q)
      BY <2>1, <2>2, <2>3, <2>4, LeafShape, ComparableLeaves
    <2>6. Defaulted(t) = With(t, r, "1")
      BY <1>1, <2>1 DEF Defaulted
    <2>7. /\ With(t, r, "1") \in Forest /\ DOMAIN With(t, r, "1") = DOMAIN t \cup {r}
          /\ \A q \in DOMAIN t \ {r} : With(t, r, "1")[q] = t[q]
      <3>1. Apart(t, r)
        BY <2>5 DEF Apart
      <3>2. PICK v \in Words : v = "1"
        BY WordsOccur
      <3>3. /\ With(t, r, v) \in Forest /\ DOMAIN With(t, r, v) = DOMAIN t \cup {r}
            /\ \A q \in DOMAIN t \ {r} : With(t, r, v)[q] = t[q]
        <4>1. r # Env /\ \A w \in Words : r # Nameless(w)
          BY <2>1, <2>2, EnvIsLeaf, NamelessApart
        <4>2. Proper(r, v)
          BY <4>1 DEF Proper
        <4>3. With(t, r, v) \in Forest
          BY <2>3, <3>1, <4>2, WithIsTree
        <4>4. /\ DOMAIN With(t, r, v) = DOMAIN t \cup {r}
              /\ \A q \in DOMAIN t \ {r} : With(t, r, v)[q] = t[q]
          BY DEF With
        <4> QED BY <4>3, <4>4
      <3> QED BY <3>2, <3>3
    <2>8. PICK d : d = Defaulted(t)
      OBVIOUS
    <2>9. d \in Forest /\ DOMAIN d = DOMAIN t \cup {r}
      BY <2>6, <2>7, <2>8
    <2>10. \A q \in DOMAIN t : d[q] = t[q]
      BY <2>4, <2>6, <2>7, <2>8
    <2> QED BY <2>1, <2>8, <2>9, <2>10
  <1>2. CASE ~(kind = "Deployment" /\ <<"replicas">> \notin DOMAIN t)
    BY <1>2 DEF Defaulted
  <1> QED BY <1>1, <1>2

\* What a client may send.
LEMMA BodiesAreTrees ==
    ASSUME NEW k \in Kinds
    PROVE  /\ \A b \in Bodies(k) : b \in Forest /\ Declared(b) \subseteq Range(Order)
           /\ \A e \in Edits(k) : e.set \in Forest
  BY ObjectsAssumption, ForestIs DEF Declared

LEMMA MergesAreTrees ==
    ASSUME NEW t \in Forest, NEW k \in Kinds, NEW e \in Edits(k)
    PROVE  JsonMerged(t, e) \in Forest /\ StrategicMerged(t, e) \in Forest
  <1>1. PICK set \in Forest : set = e.set
    BY BodiesAreTrees
  <1>2. PICK u : u = Without(t, UNION {Under(t, p) : p \in e.drop})
    OBVIOUS
  <1>3. u \in Forest /\ Relisted(t, u) \in Forest
    BY <1>2, WithoutIsTree, RelistedIsTree
  <1>4. StrategicMerged(t, e) \in Forest
    BY <1>1, <1>2, <1>3, OverlayIsTree DEF StrategicMerged
  <1>5. PICK L : L = IF Under(e.set, Env) = {} THEN {} ELSE Under(t, Env)
    OBVIOUS
  <1>6. PICK w : w = Without(t, L \cup UNION {Under(t, p) : p \in e.drop})
    OBVIOUS
  <1>7. w \in Forest
    BY <1>6, WithoutIsTree
  <1>8. JsonMerged(t, e) = Overlay(w, set)
    BY <1>1, <1>5, <1>6 DEF JsonMerged
  <1>9. Overlay(w, set) \in Forest
    BY <1>7, OverlayIsTree
  <1> QED BY <1>4, <1>8, <1>9
-----------------------------------------------------------------------------
(* Folds over the paths, by position.                                      *)

LEMMA LeastNumber ==
    ASSUME NEW S, S \subseteq Nat, S # {}
    PROVE  \E m \in S : \A n \in S : m <= n
  <1> DEFINE R == {ss \in Nat \X Nat : ss[1] < ss[2]}
  <1>1. IsWellFoundedOn(R, Nat)
    BY NatLessThanWellFounded DEF OpToRel
  <1>2. \A m, n \in Nat : m < n => <<m, n>> \in R
    OBVIOUS
  <1> HIDE DEF R
  <1>3. PICK m \in S : \A n \in S : <<n, m>> \notin R
    BY <1>1, WFMin
  <1>4. \A n \in S : ~(n < m)
    BY <1>2, <1>3
  <1> QED BY <1>4

LEMMA SmallestFails ==
    ASSUME NEW X, IsFiniteSet(X), NEW Bad, Bad \subseteq SUBSET X, Bad # {}
    PROVE  \E T \in Bad : \A V \in Bad : Cardinality(T) <= Cardinality(V)
  <1> DEFINE Sizes == { Cardinality(T) : T \in Bad }
  <1>1. \A T \in Bad : IsFiniteSet(T) /\ Cardinality(T) \in Nat
    BY FS_Subset, FS_CardinalityType
  <1>2. Sizes \subseteq Nat /\ Sizes # {}
    BY <1>1
  <1>3. PICK m \in Sizes : \A n \in Sizes : m <= n
    <2> HIDE DEF Sizes
    <2> QED BY <1>2, LeastNumber
  <1> QED BY <1>3

LEMMA Smaller ==
    ASSUME NEW X, IsFiniteSet(X), NEW T, T \subseteq X, NEW x \in T
    PROVE  /\ IsFiniteSet(T) /\ T \ {x} \subseteq X /\ IsFiniteSet(T \ {x})
           /\ Cardinality(T) \in Nat /\ Cardinality(T \ {x}) \in Nat
           /\ Cardinality(T) = Cardinality(T \ {x}) + 1
           /\ ~(Cardinality(T) <= Cardinality(T \ {x}))
  <1>1. IsFiniteSet(T)
    BY FS_Subset
  <1>2. /\ IsFiniteSet(T \ {x}) /\ Cardinality(T \ {x}) = Cardinality(T) - 1
    BY <1>1, FS_RemoveElement
  <1>3. Cardinality(T) \in Nat /\ Cardinality(T \ {x}) \in Nat
    BY <1>1, <1>2, FS_CardinalityType
  <1> QED BY <1>1, <1>2, <1>3


LEMMA LargestIsIn ==
    ASSUME NEW X \in SUBSET Int, IsFiniteSet(X), NEW T, T \subseteq X, T # {}
    PROVE  Max(T) \in T
  BY FS_Subset, MaxOfFinite

\* g folds step over the subsets of X, the largest position last.
IsFold(g, base, step, X) ==
    g = [T \in SUBSET X |-> IF T = {} THEN base ELSE step[Max(T)][g[T \ {Max(T)}]]]

LEMMA FoldStep ==
    ASSUME NEW g, NEW base, NEW step, NEW X, IsFold(g, base, step, X), NEW T, T \subseteq X
    PROVE  /\ T = {} => g[T] = base
           /\ T # {} => g[T] = step[Max(T)][g[T \ {Max(T)}]]
  BY DEF IsFold

\* What holds at the start and after each step holds at the end.
LEMMA FoldStays ==
    ASSUME NEW X \in SUBSET Int, IsFiniteSet(X), NEW h, NEW G, h[{}] \in G,
           \A T \in SUBSET X : T # {} /\ h[T \ {Max(T)}] \in G => h[T] \in G
    PROVE  \A T \in SUBSET X : h[T] \in G
  <1> DEFINE Bad == { V \in SUBSET X : h[V] \notin G }
  <1> SUFFICES ASSUME Bad # {} PROVE FALSE
    OBVIOUS
  <1>1. PICK V \in Bad : \A W \in Bad : Cardinality(V) <= Cardinality(W)
    <2>1. Bad \subseteq SUBSET X
      OBVIOUS
    <2> HIDE DEF Bad
    <2> QED BY <2>1, SmallestFails
  <1>2. V \subseteq X /\ V # {} /\ h[V] \notin G
    OBVIOUS
  <1>3. PICK x \in V : x = Max(V)
    BY <1>2, LargestIsIn
  <1>4. V \ {x} \notin Bad
    <2> HIDE DEF Bad
    <2>1. ~(Cardinality(V) <= Cardinality(V \ {x}))
      BY <1>2, <1>3, Smaller
    <2> QED BY <1>1, <2>1
  <1>5. h[V \ {x}] \in G
    BY <1>2, <1>4
  <1> QED BY <1>2, <1>3, <1>5

\* There is one: at each size it extends the one below.
LEMMA FoldExists ==
    ASSUME NEW base, NEW step, NEW X \in SUBSET Int, IsFiniteSet(X)
    PROVE  \E g : IsFold(g, base, step, X)
  <1> DEFINE Upto(g, n) ==
               g = [T \in SUBSET X |->
                      IF T = {} \/ Cardinality(T) > n THEN base
                      ELSE step[Max(T)][g[T \ {Max(T)}]]]
             Bad == { n \in Nat : ~ \E g : Upto(g, n) }
  <1>0. \A T \in SUBSET X : IsFiniteSet(T) /\ Cardinality(T) \in Nat
    BY FS_Subset, FS_CardinalityType
  <1>1. Bad = {}
    <2> SUFFICES ASSUME Bad # {} PROVE FALSE
      OBVIOUS
    <2>1. PICK n \in Bad : \A m \in Bad : n <= m
      <3>1. Bad \subseteq Nat
        OBVIOUS
      <3> HIDE DEF Bad
      <3> QED BY <3>1, LeastNumber
    <2>7. n \in Nat /\ ~ \E g : Upto(g, n)
      OBVIOUS
    <2>2. n # 0
      <3>1. \A T \in SUBSET X : T = {} \/ Cardinality(T) > 0
        BY <1>0, FS_EmptySet
      <3> DEFINE z == [T \in SUBSET X |-> base]
      <3>3. \A T \in SUBSET X :
               base = IF T = {} \/ Cardinality(T) > 0 THEN base ELSE step[Max(T)][z[T \ {Max(T)}]]
        <4> HIDE DEF z
        <4> QED BY <3>1
      <3>2. Upto(z, 0)
        BY <3>3, Zenon
      <3> HIDE DEF Upto, Bad, z
      <3>4. \E g : Upto(g, 0)
        BY <3>2
      <3> QED BY <2>7, <3>4
    <2>3. PICK g : Upto(g, n - 1)
      <3>1. n - 1 \in Nat /\ ~(n <= n - 1)
        BY <2>7, <2>2
      <3>2. n - 1 \notin Bad
        <4> HIDE DEF Bad
        <4> QED BY <2>1, <3>1
      <3> QED BY <3>1, <3>2
    <2> DEFINE h == [T \in SUBSET X |-> IF T = {} \/ Cardinality(T) > n THEN base
                                        ELSE step[Max(T)][g[T \ {Max(T)}]]]
    <2>4. \A T \in SUBSET X : T # {} /\ Cardinality(T) <= n =>
             g[T \ {Max(T)}] = h[T \ {Max(T)}]
      <3> SUFFICES ASSUME NEW T \in SUBSET X, T # {}, Cardinality(T) <= n
                   PROVE  g[T \ {Max(T)}] = h[T \ {Max(T)}]
        OBVIOUS
      <3> DEFINE V == T \ {Max(T)}
      <3>1. V \in SUBSET X /\ Cardinality(V) \in Nat /\ Cardinality(V) <= n - 1
        <4>1. PICK x \in T : x = Max(T)
          BY LargestIsIn
        <4>2. /\ T \ {x} \subseteq X /\ Cardinality(T) \in Nat /\ Cardinality(T \ {x}) \in Nat
              /\ Cardinality(T) = Cardinality(T \ {x}) + 1
          BY Smaller
        <4>3. Cardinality(T \ {x}) <= n - 1
          BY <4>2, <2>7
        <4> QED BY <4>1, <4>2, <4>3
      <3> HIDE DEF V
      <3>2. g[V] = IF V = {} \/ Cardinality(V) > n - 1 THEN base ELSE step[Max(V)][g[V \ {Max(V)}]]
        BY <2>3, <3>1
      <3>3. h[V] = IF V = {} \/ Cardinality(V) > n THEN base ELSE step[Max(V)][g[V \ {Max(V)}]]
        BY <3>1
      <3>4. ~(Cardinality(V) > n - 1) /\ ~(Cardinality(V) > n)
        BY <3>1
      <3>5. g[V] = h[V]
        BY <3>2, <3>3, <3>4
      <3> QED BY <3>5 DEF V
    <2>5. h = [T \in SUBSET X |-> IF T = {} \/ Cardinality(T) > n THEN base
                                  ELSE step[Max(T)][h[T \ {Max(T)}]]]
      <3>1. \A T \in SUBSET X : (T = {} \/ Cardinality(T) > n) \/
               step[Max(T)][g[T \ {Max(T)}]] = step[Max(T)][h[T \ {Max(T)}]]
        <4>1. \A T \in SUBSET X : Cardinality(T) > n \/ Cardinality(T) <= n
          BY <1>0, <2>7
        <4> HIDE DEF h, Bad
        <4> QED BY <2>4, <4>1
      <3>2. \A T \in SUBSET X :
               (IF T = {} \/ Cardinality(T) > n THEN base ELSE step[Max(T)][g[T \ {Max(T)}]])
                 = (IF T = {} \/ Cardinality(T) > n THEN base ELSE step[Max(T)][h[T \ {Max(T)}]])
        <4> HIDE DEF h
        <4> QED BY <3>1
      <3> QED BY <3>2, Zenon
    <2>6. Upto(h, n)
      BY <2>5, Zenon
    <2> HIDE DEF h
    <2> QED BY <2>7, <2>6
  <1> DEFINE n == Cardinality(X)
  <1>2. PICK g : Upto(g, n)
    BY <1>0, <1>1
  <1>3. \A T \in SUBSET X : ~(Cardinality(T) > n)
    <2> SUFFICES ASSUME NEW T \in SUBSET X PROVE ~(Cardinality(T) > n)
      OBVIOUS
    <2>1. Cardinality(T) <= Cardinality(X)
      BY FS_Subset
    <2>2. Cardinality(T) \in Nat /\ n \in Nat
      BY <1>0
    <2> HIDE DEF n
    <2>3. Cardinality(T) <= n
      BY <2>1 DEF n
    <2> QED BY <2>2, <2>3
  <1>4. IsFold(g, base, step, X)
    BY <1>2, <1>3 DEF IsFold
  <1> QED BY <1>4


-----------------------------------------------------------------------------
(* What an apply makes of the tree and of the entries, path by path.       *)

Places == 1..Len(Order)

LEMMA PlacesAre ==
    /\ Places \in SUBSET Int /\ IsFiniteSet(Places) /\ DOMAIN Order = Places
    /\ \A n \in Places : Order[n] \in Leaf /\ Order[n] \in Range(Order)
  <1>1. Order \in Seq(Leaf)
    BY ObjectsAssumption
  <1>2. DOMAIN Order = Places /\ Len(Order) \in Nat
    BY <1>1 DEF Places
  <1>3. IsFiniteSet(Places) /\ Places \in SUBSET Int
    BY <1>2, FS_Interval DEF Places
  <1>4. \A n \in Places : Order[n] \in Leaf /\ Order[n] \in Range(Order)
    BY <1>1, <1>2 DEF Range
  <1> QED BY <1>2, <1>3, <1>4

\* h follows the removal of dropped paths, starting at the tree.
Removes(h, tree, D) ==
    /\ h[{}] = tree
    /\ \A T \in SUBSET Places : T # {} =>
          h[T] = IF Order[Max(T)] \in D THEN remove(h[T \ {Max(T)}], Order[Max(T)])
                 ELSE h[T \ {Max(T)}]

LEMMA KeptFolds ==
    ASSUME stored.tree \in Forest, NEW m, NEW body
    PROVE  \E h : Kept(m, body) = h[Places] /\ Removes(h, stored.tree, Dropped(m, body))
  <1>1. PICK D : D = Dropped(m, body)
    OBVIOUS
  <1>2. PICK base \in Forest : base = stored.tree
    OBVIOUS
  <1> DEFINE Adds(i) == i = [T \in SUBSET DOMAIN Order |->
                               IF T = {} THEN stored.tree
                               ELSE IF Order[Max(T)] \in Dropped(m, body)
                                    THEN remove(i[T \ {Max(T)}], Order[Max(T)])
                                    ELSE i[T \ {Max(T)}]]
             iter == CHOOSE i : Adds(i)
             step == [n \in Places |-> [t \in Forest |->
                        IF Order[n] \in D THEN remove(t, Order[n]) ELSE t]]
  <1>3. Kept(m, body) = iter[DOMAIN Order]
    BY DEF Kept, FoldLeft, MapThenFoldSet
  <1>4. PICK g : IsFold(g, base, step, Places)
    BY PlacesAre, FoldExists
  <1>5. \A n \in Places : \A t \in Forest :
           /\ step[n][t] = IF Order[n] \in D THEN remove(t, Order[n]) ELSE t
           /\ step[n][t] \in Forest
    BY PlacesAre, RemoveIsTree
  <1>6. \A T \in SUBSET Places : g[T] \in Forest
    <2> HIDE DEF step
    <2>1. g[{}] \in Forest
      <3>1. g[{}] = base
        BY <1>4, FoldStep
      <3> QED BY <3>1
    <2>2. ASSUME NEW T \in SUBSET Places, T # {}, g[T \ {Max(T)}] \in Forest
          PROVE  g[T] \in Forest
      <3>1. PICK n \in Places : n = Max(T)
        BY <2>2, PlacesAre, LargestIsIn
      <3>2. g[T] = step[n][g[T \ {n}]]
        BY <1>4, <2>2, <3>1, FoldStep
      <3> QED BY <1>5, <2>2, <3>1, <3>2
    <2> QED BY <2>1, <2>2, PlacesAre, FoldStays
  <1>7. Adds(g)
    <2> HIDE DEF step
    <2>1. g = [T \in SUBSET Places |-> IF T = {} THEN base ELSE step[Max(T)][g[T \ {Max(T)}]]]
      BY <1>4 DEF IsFold
    <2>2. \A T \in SUBSET Places : T # {} =>
             step[Max(T)][g[T \ {Max(T)}]] =
                IF Order[Max(T)] \in D THEN remove(g[T \ {Max(T)}], Order[Max(T)])
                ELSE g[T \ {Max(T)}]
      <3> SUFFICES ASSUME NEW T \in SUBSET Places, T # {}
                   PROVE  step[Max(T)][g[T \ {Max(T)}]] =
                             IF Order[Max(T)] \in D THEN remove(g[T \ {Max(T)}], Order[Max(T)])
                             ELSE g[T \ {Max(T)}]
        OBVIOUS
      <3>1. PICK n \in Places : n = Max(T)
        BY PlacesAre, LargestIsIn
      <3>2. PICK t \in Forest : t = g[T \ {n}]
        BY <1>6
      <3> QED BY <1>5, <3>1, <3>2
    <2>3. \A T \in SUBSET Places :
             (IF T = {} THEN base ELSE step[Max(T)][g[T \ {Max(T)}]]) =
             (IF T = {} THEN base
              ELSE IF Order[Max(T)] \in D THEN remove(g[T \ {Max(T)}], Order[Max(T)])
                   ELSE g[T \ {Max(T)}])
      BY <2>2
    <2>4. g = [T \in SUBSET Places |->
                IF T = {} THEN base
                ELSE IF Order[Max(T)] \in D THEN remove(g[T \ {Max(T)}], Order[Max(T)])
                     ELSE g[T \ {Max(T)}]]
      BY <2>1, <2>3, Zenon
    <2> QED BY <1>1, <1>2, <2>4, PlacesAre, Zenon
  <1>8. Adds(iter)
    <2> HIDE DEF Adds, step
    <2> QED BY <1>7
  <1> HIDE DEF iter, step
  <1>9. iter = [T \in SUBSET Places |->
                  IF T = {} THEN stored.tree
                  ELSE IF Order[Max(T)] \in Dropped(m, body)
                       THEN remove(iter[T \ {Max(T)}], Order[Max(T)])
                       ELSE iter[T \ {Max(T)}]]
    BY <1>8, PlacesAre, Zenon
  <1>10. Removes(iter, stored.tree, Dropped(m, body))
    BY <1>9 DEF Removes
  <1> QED BY <1>3, <1>10, PlacesAre

LEMMA KeptIsTree ==
    ASSUME stored.tree \in Forest, NEW m, NEW body
    PROVE  Kept(m, body) \in Forest
  <1>1. PICK h : Kept(m, body) = h[Places] /\ Removes(h, stored.tree, Dropped(m, body))
    BY KeptFolds
  <1>2. h[{}] \in Forest
    BY <1>1 DEF Removes
  <1>3. ASSUME NEW T \in SUBSET Places, T # {}, h[T \ {Max(T)}] \in Forest
        PROVE  h[T] \in Forest
    <2>1. PICK n \in Places : n = Max(T)
      BY <1>3, PlacesAre, LargestIsIn
    <2>2. PICK t \in Forest : t = h[T \ {n}]
      BY <1>3, <2>1
    <2>3. h[T] = remove(t, Order[n]) \/ h[T] = t
      BY <1>1, <1>3, <2>1, <2>2 DEF Removes
    <2> QED BY <2>1, <2>3, PlacesAre, RemoveIsTree
  <1>4. \A T \in SUBSET Places : h[T] \in Forest
    BY <1>2, <1>3, PlacesAre, FoldStays
  <1> QED BY <1>1, <1>4
\* What is left of the entries when the path p of body is taken over.
Taken(man, m, body, p) ==
    IF p \in Declared(body) /\ Contested(man, m, body, p)
    THEN [man EXCEPT ![Min(Owners(man, m, p))] = {o \in @ : IsPrefix(o, p)}]
    ELSE man

LEMMA TakenShrinks ==
    ASSUME NEW man \in Entries, NEW m, NEW body, NEW p
    PROVE  /\ Taken(man, m, body, p) \in Entries
           /\ \A n \in Managers : Taken(man, m, body, p)[n] \subseteq man[n]
  <1>1. PICK x : x = Min(Owners(man, m, p))
    OBVIOUS
  <1>2. PICK u : u = [man EXCEPT ![x] = {o \in @ : IsPrefix(o, p)}]
    OBVIOUS
  <1>3. u \in Entries /\ \A n \in Managers : u[n] \subseteq man[n]
    BY <1>2 DEF Entries
  <1>4. Taken(man, m, body, p) = u \/ Taken(man, m, body, p) = man
    BY <1>1, <1>2 DEF Taken
  <1> QED BY <1>3, <1>4

\* h follows the taking over of the paths, starting at the entries.
Takes(h, man, m, body) ==
    /\ h[{}] = man
    /\ \A T \in SUBSET Places : T # {} =>
          h[T] = Taken(h[T \ {Max(T)}], m, body, Order[Max(T)])

LEMMA ForcedFolds ==
    ASSUME stored.managed \in Entries, NEW m, NEW body
    PROVE  \E h : Forced(m, body) = h[Places] /\ Takes(h, stored.managed, m, body)
  <1>2. PICK base \in Entries : base = stored.managed
    OBVIOUS
  <1> DEFINE Adds(i) == i = [T \in SUBSET DOMAIN Order |->
                               IF T = {} THEN stored.managed
                               ELSE Taken(i[T \ {Max(T)}], m, body, Order[Max(T)])]
             iter == CHOOSE i : Adds(i)
             step == [n \in Places |-> [man \in Entries |-> Taken(man, m, body, Order[n])]]
  <1>3. Forced(m, body) = iter[DOMAIN Order]
    BY DEF Forced, FoldLeft, MapThenFoldSet, Taken
  <1>4. PICK g : IsFold(g, base, step, Places)
    BY PlacesAre, FoldExists
  <1>5. \A n \in Places : \A man \in Entries :
           /\ step[n][man] = Taken(man, m, body, Order[n])
           /\ step[n][man] \in Entries
    BY TakenShrinks
  <1>6. \A T \in SUBSET Places : g[T] \in Entries
    <2> HIDE DEF step
    <2>1. g[{}] \in Entries
      <3>1. g[{}] = base
        BY <1>4, FoldStep
      <3> QED BY <3>1
    <2>2. ASSUME NEW T \in SUBSET Places, T # {}, g[T \ {Max(T)}] \in Entries
          PROVE  g[T] \in Entries
      <3>1. PICK n \in Places : n = Max(T)
        BY <2>2, PlacesAre, LargestIsIn
      <3>2. g[T] = step[n][g[T \ {n}]]
        BY <1>4, <2>2, <3>1, FoldStep
      <3> QED BY <1>5, <2>2, <3>1, <3>2
    <2> QED BY <2>1, <2>2, PlacesAre, FoldStays
  <1>7. Adds(g)
    <2> HIDE DEF step
    <2>1. g = [T \in SUBSET Places |-> IF T = {} THEN base ELSE step[Max(T)][g[T \ {Max(T)}]]]
      BY <1>4 DEF IsFold
    <2>2. \A T \in SUBSET Places : T # {} =>
             step[Max(T)][g[T \ {Max(T)}]] = Taken(g[T \ {Max(T)}], m, body, Order[Max(T)])
      <3> SUFFICES ASSUME NEW T \in SUBSET Places, T # {}
                   PROVE  step[Max(T)][g[T \ {Max(T)}]] =
                             Taken(g[T \ {Max(T)}], m, body, Order[Max(T)])
        OBVIOUS
      <3>1. PICK n \in Places : n = Max(T)
        BY PlacesAre, LargestIsIn
      <3>2. PICK man \in Entries : man = g[T \ {n}]
        BY <1>6
      <3> QED BY <1>5, <3>1, <3>2
    <2>3. \A T \in SUBSET Places :
             (IF T = {} THEN base ELSE step[Max(T)][g[T \ {Max(T)}]]) =
             (IF T = {} THEN base ELSE Taken(g[T \ {Max(T)}], m, body, Order[Max(T)]))
      BY <2>2
    <2>4. g = [T \in SUBSET Places |->
                IF T = {} THEN base ELSE Taken(g[T \ {Max(T)}], m, body, Order[Max(T)])]
      BY <2>1, <2>3, Zenon
    <2> QED BY <1>2, <2>4, PlacesAre, Zenon
  <1>8. Adds(iter)
    <2> HIDE DEF Adds, step
    <2> QED BY <1>7
  <1> HIDE DEF iter, step
  <1>9. iter = [T \in SUBSET Places |->
                  IF T = {} THEN stored.managed
                  ELSE Taken(iter[T \ {Max(T)}], m, body, Order[Max(T)])]
    BY <1>8, PlacesAre, Zenon
  <1>10. Takes(iter, stored.managed, m, body)
    BY <1>9 DEF Takes
  <1> QED BY <1>3, <1>10, PlacesAre

\* A forced apply takes paths away from entries and adds none.
LEMMA ForcedShrinks ==
    ASSUME stored.managed \in Entries, NEW m, NEW body
    PROVE  /\ Forced(m, body) \in Entries
           /\ \A n \in Managers : Forced(m, body)[n] \subseteq stored.managed[n]
  <1>1. PICK h : Forced(m, body) = h[Places] /\ Takes(h, stored.managed, m, body)
    BY ForcedFolds
  <1>2. PICK G : G = {man \in Entries : \A n \in Managers : man[n] \subseteq stored.managed[n]}
    OBVIOUS
  <1>3. h[{}] \in G
    BY <1>1, <1>2 DEF Takes
  <1>4. ASSUME NEW T \in SUBSET Places, T # {}, h[T \ {Max(T)}] \in G
        PROVE  h[T] \in G
    <2>1. PICK man \in G : man = h[T \ {Max(T)}]
      BY <1>4
    <2>2. PICK p : p = Order[Max(T)]
      OBVIOUS
    <2>3. h[T] = Taken(man, m, body, p)
      BY <1>1, <1>4, <2>1, <2>2 DEF Takes
    <2>4. man \in Entries /\ \A n \in Managers : man[n] \subseteq stored.managed[n]
      BY <1>2, <2>1
    <2>5. /\ Taken(man, m, body, p) \in Entries
          /\ \A n \in Managers : Taken(man, m, body, p)[n] \subseteq man[n]
      BY <2>4, TakenShrinks
    <2> QED BY <1>2, <2>3, <2>4, <2>5
  <1>5. \A T \in SUBSET Places : h[T] \in G
    BY <1>3, <1>4, PlacesAre, FoldStays
  <1> QED BY <1>1, <1>2, <1>5
-----------------------------------------------------------------------------
(* The invariant.                                                          *)

Object == [rev : Nat, uid : Nat, gen : Nat, tree : Forest, status : Statuses \cup {""},
           managed : Entries]
Nobody == [m \in Managers |-> {}]

\* What a request may make of the object o it replaces.
Keeps(new, o) ==
    /\ new.uid = o.uid
    /\ new.gen = o.gen + (IF new.tree # o.tree /\ HasStatus THEN 1 ELSE 0)
    /\ ~(new.tree # o.tree /\ new.status # o.status)
    /\ At(new.tree, Fixed) = At(o.tree, Fixed)
    /\ kind = "Secret" /\ Immutable(o.tree) =>
          Immutable(new.tree) /\ At(new.tree, <<"data">>) = At(o.tree, <<"data">>)
Sound(r, o) == r.seen = o /\ (r.op # "delete" /\ o # Absent => Keeps(r.new, o))

\* The entries it writes were declared, by this apply at the latest.
Claimed(op, args, n) == IF op = "apply" /\ n = args.by THEN Declared(args.body) ELSE {}
Fresh(r, n) == Claimed(r.op, r.args, n)
Owned(r, declared) == \A n \in Managers : r.new.managed[n] \subseteq declared[n] \cup Fresh(r, n)

Requested(r) ==
    /\ r.op \in {"create", "put", "status", "patch", "apply", "delete"}
    /\ r.new \in Object /\ r.expected \in 0..revision
    /\ ~HasStatus => r.new.gen = 0
    /\ r.op = "apply" => r.args.by \in Managers /\ Declared(r.args.body) \subseteq Range(Order)

\* A request that the registry would take was made of what is stored now; the
\* revision of an object that is not there comes back when it is deleted.
Current(r) ==
    /\ stored.rev = r.expected => Sound(r, stored) /\ Owned(r, said)
    /\ r.expected = 0 => Sound(r, Absent) /\ Owned(r, Nobody)

OTyped ==
    /\ kind \in Kinds /\ revision \in Nat /\ stored \in Object
    /\ copy \in [Clients -> Object] /\ said \in Entries
    /\ pending = [s \in Servers |-> pending[s]]
StoredFits ==
    /\ stored.rev <= revision /\ stored.uid <= stored.rev
    /\ stored.rev = 0 => stored = Absent
    /\ stored # Absent => stored.uid >= 1
    /\ ~HasStatus => stored.gen = 0
    /\ \A m \in Managers : stored.managed[m] \subseteq said[m]
CopyFits(c) ==
    /\ copy[c].rev <= revision /\ copy[c].uid <= copy[c].rev
    /\ copy[c].rev = stored.rev => copy[c] = stored
    /\ copy[c].rev = 0 \/ copy[c].uid = 0 => copy[c] = Absent
    /\ copy[c].uid = stored.uid => \A m \in Managers : copy[c].managed[m] \subseteq said[m]
PendingFits(r) == r = Idle \/ (Requested(r) /\ Current(r))

OInv ==
    /\ OTyped /\ StoredFits
    /\ \A c \in Clients : CopyFits(c)
    /\ \A s \in Servers : PendingFits(pending[s])

LEMMA AbsentIs ==
    /\ Absent \in Object /\ Nobody \in Entries
    /\ Absent.rev = 0 /\ Absent.uid = 0 /\ Absent.gen = 0 /\ Absent.managed = Nobody
    /\ \A m \in Managers : Nobody[m] = {}
  <1>1. Nobody \in Entries /\ \A m \in Managers : Nobody[m] = {}
    BY DEF Nobody, Entries
  <1>2. /\ Absent.rev = 0 /\ Absent.uid = 0 /\ Absent.gen = 0 /\ Absent.managed = Nobody
    BY DEF Absent, Nobody
  <1>3. PICK e \in Forest : e = <<>>
    BY EmptyTree
  <1>4. Absent = [rev |-> 0, uid |-> 0, gen |-> 0, tree |-> e, status |-> "", managed |-> Nobody]
    BY <1>3 DEF Absent, Nobody
  <1>5. Absent \in Object
    BY <1>1, <1>3, <1>4 DEF Object
  <1> QED BY <1>1, <1>2, <1>5

LEMMA OInvInitially == OInit => OInv
  <1> SUFFICES ASSUME OInit PROVE OInv
    OBVIOUS
  <1>1. /\ kind \in Kinds /\ stored = Absent /\ revision = 0 /\ pending = [s \in Servers |-> Idle]
        /\ copy = [c \in Clients |-> Absent] /\ said = Nobody
    BY DEF OInit, Nobody
  <1>2. OTyped
    BY <1>1, AbsentIs DEF OTyped
  <1>3. StoredFits
    BY <1>1, AbsentIs DEF StoredFits
  <1>4. \A c \in Clients : copy[c] = Absent
    BY <1>1
  <1>5. \A c \in Clients : CopyFits(c)
    BY <1>1, <1>4, AbsentIs DEF CopyFits
  <1>6. \A s \in Servers : PendingFits(pending[s])
    BY <1>1 DEF PendingFits
  <1> QED BY <1>2, <1>3, <1>5, <1>6 DEF OInv

\* A server takes a request up: everything else stays.
LEMMA RequestKeepsInv ==
    ASSUME OInv, NEW s \in Servers, NEW r, Request(s, r),
           PendingFits(r)
    PROVE  OInv'
  <1>1. /\ kind' = kind /\ stored' = stored /\ revision' = revision /\ copy' = copy
        /\ said' = said /\ pending' = [pending EXCEPT ![s] = r]
    BY DEF Request
  <1>2. pending = [x \in Servers |-> pending[x]]
    BY DEF OInv, OTyped
  <1>3. /\ pending' = [x \in Servers |-> pending'[x]]
        /\ \A x \in Servers : pending'[x] = IF x = s THEN r ELSE pending[x]
    BY <1>1, <1>2
  <1>4. OTyped'
    BY <1>1, <1>3 DEF OInv, OTyped
  <1>5. StoredFits'
    BY <1>1 DEF OInv, StoredFits, HasStatus
  <1>6. \A c \in Clients : CopyFits(c)'
    BY <1>1 DEF OInv, CopyFits
  <1>7. ASSUME NEW x \in Servers
        PROVE  PendingFits(pending[x])'
    <2>1. PICK q : q = pending'[x]
      OBVIOUS
    <2>2. PendingFits(q)
      BY <1>3, <2>1 DEF OInv, PendingFits
    <2>3. PendingFits(q)'
      BY <1>1, <2>2 DEF PendingFits, Requested, Current, Sound, Keeps, HasStatus, Fixed
    <2> QED BY <2>1, <2>3
  <1> QED BY <1>4, <1>5, <1>6, <1>7 DEF OInv
LEMMA PreparedIs ==
    ASSUME OInv, NEW t \in Forest, NEW managed \in Entries
    PROVE  /\ Prepared(t, managed) \in Object
           /\ Prepared(t, managed).uid = stored.uid /\ Prepared(t, managed).gen = Generation(t)
           /\ Prepared(t, managed).tree = t /\ Prepared(t, managed).managed = managed
           /\ Exists => Prepared(t, managed).status = stored.status
           /\ ~HasStatus => Prepared(t, managed).gen = 0
  <1>1. stored \in Object
    BY DEF OInv, OTyped
  <1>2. PICK g \in Nat : g = Generation(t)
    <2>1. stored.gen \in Nat
      BY <1>1 DEF Object
    <2> QED BY <2>1 DEF Generation
  <1>3. PICK st \in Statuses \cup {""} : st = IF ~Exists /\ HasStatus THEN "new" ELSE stored.status
    BY <1>1, ObjectsAssumption DEF Object
  <1>4. PICK new : new = [stored EXCEPT !.tree = t, !.managed = managed, !.gen = g, !.status = st]
    OBVIOUS
  <1>5. new = Prepared(t, managed)
    BY <1>2, <1>3, <1>4 DEF Prepared
  <1>6. /\ new \in Object /\ new.uid = stored.uid /\ new.gen = g /\ new.tree = t
        /\ new.managed = managed /\ new.status = st
    BY <1>1, <1>4 DEF Object
  <1>7. ~HasStatus => g = 0
    BY <1>2 DEF Generation
  <1> QED BY <1>2, <1>3, <1>5, <1>6, <1>7

\* What a write may claim for its author.
Entitled(op, args, managed) ==
    /\ managed \in Entries
    /\ \A n \in Managers : managed[n] \subseteq said[n] \cup Claimed(op, args, n)
    /\ stored = Absent => \A n \in Managers : managed[n] \subseteq Claimed(op, args, n)
    /\ op = "apply" => args.by \in Managers /\ Declared(args.body) \subseteq Range(Order)

LEMMA WriteKeepsInv ==
    ASSUME OInv, NEW s \in Servers, NEW op \in {"create", "put", "patch", "apply"},
           NEW t \in Forest, NEW managed, NEW args, Entitled(op, args, managed),
           Write(s, op, t, managed, stored, args)
    PROVE  OInv'
  <1>1. PICK full \in Forest : full = Defaulted(t)
    BY DefaultedIsTree
  <1>2. managed \in Entries
    BY DEF Entitled
  <1>3. PICK new \in Object : new = Prepared(full, managed)
    BY <1>2, PreparedIs
  <1>4. /\ new.uid = stored.uid /\ new.gen = Generation(full) /\ new.tree = full
        /\ new.managed = managed /\ (Exists => new.status = stored.status)
        /\ ~HasStatus => new.gen = 0
    BY <1>2, <1>3, PreparedIs
  <1>5. PICK r : r = [op |-> op, new |-> new, seen |-> stored, expected |-> stored.rev,
                      args |-> args]
    OBVIOUS
  <1>6. /\ r.op = op /\ r.new = new /\ r.seen = stored /\ r.expected = stored.rev
        /\ r.args = args
    BY <1>5
  <1>7. Valid(full) /\ Request(s, r)
    BY <1>1, <1>3, <1>5 DEF Write
  <1>8. stored \in Object /\ StoredFits /\ revision \in Nat
    BY DEF OInv, OTyped
  <1>9. Requested(r)
    <2>1. r.expected \in 0..revision
      <3>1. PICK x \in Nat : x = stored.rev
        BY <1>8 DEF Object
      <3>2. x <= revision
        BY <1>8, <3>1 DEF StoredFits
      <3> QED BY <1>6, <1>8, <3>1, <3>2
    <2> QED BY <1>4, <1>6, <2>1 DEF Requested, Entitled
  <1>10. Exists => Keeps(new, stored)
    <2>1. stored.gen \in Nat
      BY <1>8 DEF Object
    <2>2. Exists => new.gen = stored.gen + (IF new.tree # stored.tree /\ HasStatus THEN 1 ELSE 0)
      <3>1. ~HasStatus => stored.gen = 0
        BY <1>8 DEF StoredFits
      <3> QED BY <1>4, <2>1, <3>1 DEF Generation
    <2> QED BY <1>4, <1>7, <2>2 DEF Keeps, Valid
  <1>11. Sound(r, stored)
    BY <1>6, <1>10 DEF Sound, Exists
  <1>12. Owned(r, said) /\ (stored = Absent => Owned(r, Nobody))
    <2>1. \A n : Fresh(r, n) = Claimed(op, args, n)
      BY <1>6 DEF Fresh
    <2> QED BY <1>4, <1>6, <2>1 DEF Owned, Entitled
  <1>13. r.expected = 0 => stored = Absent
    BY <1>6, <1>8 DEF StoredFits
  <1>14. Current(r)
    BY <1>11, <1>12, <1>13 DEF Current
  <1> QED BY <1>7, <1>9, <1>14, RequestKeepsInv DEF PendingFits

LEMMA CreateKeepsInv ==
    ASSUME OInv, NEW s \in Servers, CreateRequest(s)
    PROVE  OInv'
  <1>1. PICK b \in Bodies(kind) : Write(s, "create", b, Absent.managed, Absent, <<>>)
    BY DEF CreateRequest
  <1>2. stored = Absent
    BY DEF CreateRequest, Exists
  <1>3. b \in Forest
    BY BodiesAreTrees DEF OInv, OTyped
  <1>4. Entitled("create", <<>>, Nobody)
    BY AbsentIs DEF Entitled
  <1>5. PICK managed : managed = Nobody
    OBVIOUS
  <1>6. PICK args : args = <<>>
    OBVIOUS
  <1>7. Write(s, "create", b, managed, stored, args) /\ Entitled("create", args, managed)
    BY <1>1, <1>2, <1>4, <1>5, <1>6, AbsentIs
  <1> QED BY <1>3, <1>7, WriteKeepsInv

LEMMA PatchKeepsInv ==
    ASSUME OInv, NEW s \in Servers, PatchRequest(s)
    PROVE  OInv'
  <1>1. PICK e \in Edits(kind) :
           \/ Write(s, "patch", JsonMerged(stored.tree, e), stored.managed, stored, <<>>)
           \/ Write(s, "patch", StrategicMerged(stored.tree, e), stored.managed, stored, <<>>)
    BY DEF PatchRequest
  <1>2. stored.tree \in Forest /\ stored.managed \in Entries /\ kind \in Kinds /\ StoredFits
    BY DEF OInv, OTyped, Object
  <1>3. JsonMerged(stored.tree, e) \in Forest /\ StrategicMerged(stored.tree, e) \in Forest
    BY <1>2, MergesAreTrees
  <1>4. PICK args : args = <<>>
    OBVIOUS
  <1>5. PICK t \in Forest : Write(s, "patch", t, stored.managed, stored, args)
    BY <1>1, <1>3, <1>4
  <1>6. Entitled("patch", args, stored.managed)
    BY <1>2, AbsentIs DEF Entitled, StoredFits
  <1>7. PICK managed : managed = stored.managed
    OBVIOUS
  <1> QED BY <1>5, <1>6, <1>7, WriteKeepsInv

LEMMA PutKeepsInv ==
    ASSUME OInv, NEW s \in Servers, NEW c \in Clients, PutRequest(s, c)
    PROVE  OInv'
  <1>1. PICK e \in Edits(kind), blind \in BOOLEAN :
           /\ blind \/ copy[c].rev = stored.rev
           /\ copy[c].uid = stored.uid
           /\ Write(s, "put", JsonMerged(copy[c].tree, e), copy[c].managed,
                    IF blind THEN stored ELSE copy[c], <<>>)
    BY DEF PutRequest
  <1>2. CopyFits(c) /\ copy[c] \in Object /\ kind \in Kinds
    BY DEF OInv, OTyped
  <1>3. (IF blind THEN stored ELSE copy[c]) = stored
    BY <1>1, <1>2 DEF CopyFits
  <1>4. PICK o \in Object : o = copy[c]
    BY <1>2
  <1>5. o.tree \in Forest /\ o.managed \in Entries
    BY <1>4 DEF Object
  <1>6. JsonMerged(o.tree, e) \in Forest
    BY <1>2, <1>5, MergesAreTrees
  <1>7. PICK t \in Forest : t = JsonMerged(o.tree, e)
    BY <1>6
  <1>8. PICK args : args = <<>>
    OBVIOUS
  <1>9. PICK managed : managed = o.managed
    OBVIOUS
  <1>10. Write(s, "put", t, managed, stored, args)
    BY <1>1, <1>3, <1>4, <1>7, <1>8, <1>9
  <1>11. Entitled("put", args, managed)
    <2>1. \A n \in Managers : managed[n] \subseteq said[n]
      BY <1>1, <1>2, <1>4, <1>9 DEF CopyFits
    <2>2. stored # Absent
      BY DEF PutRequest, Exists
    <2> QED BY <1>5, <1>9, <2>1, <2>2 DEF Entitled
  <1> QED BY <1>10, <1>11, WriteKeepsInv

LEMMA ApplyKeepsInv ==
    ASSUME OInv, NEW s \in Servers, NEW m \in Managers, ApplyRequest(s, m)
    PROVE  OInv'
  <1>1. PICK b \in Bodies(kind), force \in BOOLEAN :
           Write(s, "apply", Merged(m, b).tree, Merged(m, b).managed, stored,
                 [by |-> m, body |-> b, force |-> force])
    BY DEF ApplyRequest
  <1>2. stored.tree \in Forest /\ stored.managed \in Entries /\ kind \in Kinds /\ StoredFits
    BY DEF OInv, OTyped, Object
  <1>3. b \in Forest /\ Declared(b) \subseteq Range(Order)
    BY <1>2, BodiesAreTrees
  <1>4. PICK k \in Forest : k = Prune(Kept(m, b))
    BY <1>2, KeptIsTree, PruneIsTree
  <1>5. PICK t \in Forest : t = Merged(m, b).tree
    BY <1>3, <1>4, OverlayIsTree DEF Merged
  <1>6. PICK f \in Entries : f = Forced(m, b) /\ \A n \in Managers : f[n] \subseteq stored.managed[n]
    BY <1>2, ForcedShrinks
  <1>7. PICK managed : managed = [f EXCEPT ![m] = Declared(b)]
    OBVIOUS
  <1>8. managed = Merged(m, b).managed
    BY <1>6, <1>7 DEF Merged
  <1>9. managed \in Entries /\ \A n \in Managers : managed[n] = IF n = m THEN Declared(b) ELSE f[n]
    BY <1>3, <1>7 DEF Entries
  <1>10. PICK args : args = [by |-> m, body |-> b, force |-> force]
    OBVIOUS
  <1>11. args.by = m /\ args.body = b
    BY <1>10
  <1>12. Entitled("apply", args, managed)
    <2>1. \A n \in Managers : Claimed("apply", args, n) = IF n = m THEN Declared(b) ELSE {}
      BY <1>11 DEF Claimed
    <2>2. \A n \in Managers : managed[n] \subseteq said[n] \cup Claimed("apply", args, n)
      BY <1>2, <1>6, <1>9, <2>1 DEF StoredFits
    <2>3. stored = Absent => \A n \in Managers : managed[n] \subseteq Claimed("apply", args, n)
      BY <1>6, <1>9, <2>1, AbsentIs
    <2> QED BY <1>3, <1>9, <1>11, <2>2, <2>3 DEF Entitled
  <1>13. Write(s, "apply", t, managed, stored, args)
    BY <1>1, <1>5, <1>8, <1>10
  <1> QED BY <1>12, <1>13, WriteKeepsInv
LEMMA StatusKeepsInv ==
    ASSUME OInv, NEW s \in Servers, NEW c \in Clients, StatusRequest(s, c)
    PROVE  OInv'
  <1>1. PICK st \in Statuses :
           Request(s, [op |-> "status", new |-> [stored EXCEPT !.status = st], seen |-> copy[c],
                       expected |-> stored.rev, args |-> <<>>])
    BY DEF StatusRequest
  <1>2. /\ stored # Absent /\ HasStatus /\ copy[c].rev = stored.rev /\ CopyFits(c)
        /\ stored \in Object /\ StoredFits /\ revision \in Nat
    BY DEF StatusRequest, Exists, OInv, OTyped
  <1>3. PICK new : new = [stored EXCEPT !.status = st]
    OBVIOUS
  <1>4. /\ new \in Object /\ new.uid = stored.uid /\ new.gen = stored.gen /\ new.tree = stored.tree
        /\ new.managed = stored.managed
    BY <1>2, <1>3 DEF Object
  <1>5. PICK r : r = [op |-> "status", new |-> new, seen |-> copy[c], expected |-> stored.rev,
                      args |-> <<>>]
    OBVIOUS
  <1>6. r.op = "status" /\ r.new = new /\ r.seen = copy[c] /\ r.expected = stored.rev
    BY <1>5
  <1>7. copy[c] = stored
    BY <1>2 DEF CopyFits
  <1>8. PICK x \in Nat : x = stored.rev /\ x <= revision /\ x # 0
    BY <1>2 DEF StoredFits, Object
  <1>9. Requested(r)
    BY <1>2, <1>4, <1>6, <1>8 DEF Requested
  <1>10. PICK g \in Nat : g = stored.gen
    BY <1>2 DEF Object
  <1>11. Keeps(new, stored)
    BY <1>4, <1>10 DEF Keeps
  <1>12. Owned(r, said)
    BY <1>2, <1>4, <1>6 DEF Owned, StoredFits
  <1>13. Current(r)
    BY <1>6, <1>7, <1>8, <1>11, <1>12 DEF Current, Sound
  <1> QED BY <1>1, <1>3, <1>5, <1>9, <1>13, RequestKeepsInv DEF PendingFits

LEMMA DeleteKeepsInv ==
    ASSUME OInv, NEW s \in Servers, DeleteRequest(s)
    PROVE  OInv'
  <1>1. PICK r : r = [op |-> "delete", new |-> Absent, seen |-> stored, expected |-> stored.rev,
                      args |-> <<>>]
    OBVIOUS
  <1>2. Request(s, r) /\ stored # Absent
    BY <1>1 DEF DeleteRequest, Exists
  <1>3. r.op = "delete" /\ r.new = Absent /\ r.seen = stored /\ r.expected = stored.rev
    BY <1>1
  <1>4. stored \in Object /\ StoredFits /\ revision \in Nat
    BY DEF OInv, OTyped
  <1>5. PICK x \in Nat : x = stored.rev /\ x <= revision /\ x # 0
    BY <1>2, <1>4 DEF StoredFits, Object
  <1>6. Requested(r)
    BY <1>3, <1>4, <1>5, AbsentIs DEF Requested
  <1>7. Owned(r, said)
    BY <1>3, AbsentIs DEF Owned
  <1>8. Current(r)
    BY <1>3, <1>5, <1>7 DEF Current, Sound
  <1> QED BY <1>2, <1>6, <1>8, RequestKeepsInv DEF PendingFits

LEMMA CrashKeepsInv ==
    ASSUME OInv, NEW s \in Servers, Crash(s)
    PROVE  OInv'
  BY RequestKeepsInv DEF Crash, PendingFits

LEMMA ReadKeepsInv ==
    ASSUME OInv, NEW c \in Clients, ClientRead(c)
    PROVE  OInv'
  <1>1. /\ kind' = kind /\ stored' = stored /\ revision' = revision /\ pending' = pending
        /\ said' = said /\ copy' = [copy EXCEPT ![c] = stored]
    BY DEF ClientRead
  <1>2. OTyped /\ StoredFits
    BY DEF OInv
  <1>3. /\ copy' \in [Clients -> Object]
        /\ \A x \in Clients : copy'[x] = IF x = c THEN stored ELSE copy[x]
    BY <1>1, <1>2 DEF OTyped
  <1>4. OTyped'
    BY <1>1, <1>2, <1>3 DEF OTyped
  <1>5. StoredFits'
    BY <1>1, <1>2 DEF StoredFits, HasStatus
  <1>6. ASSUME NEW x \in Clients
        PROVE  CopyFits(x)'
    <2>1. CASE x = c
      <3>1. copy'[x] = stored
        BY <1>3, <2>1
      <3>2. PICK rev \in Nat, uid \in Nat : rev = stored.rev /\ uid = stored.uid
        BY <1>2 DEF OTyped, Object
      <3>3. /\ rev <= revision /\ uid <= rev
            /\ rev = 0 \/ uid = 0 => stored = Absent
            /\ \A m \in Managers : stored.managed[m] \subseteq said[m]
        BY <1>2, <3>2 DEF StoredFits
      <3> QED BY <1>1, <3>1, <3>2, <3>3 DEF CopyFits
    <2>2. CASE x # c
      <3>1. copy'[x] = copy[x] /\ CopyFits(x)
        BY <1>3, <2>2 DEF OInv
      <3> QED BY <1>1, <3>1 DEF CopyFits
    <2> QED BY <2>1, <2>2
  <1>7. ASSUME NEW x \in Servers
        PROVE  PendingFits(pending[x])'
    <2>1. PICK q : q = pending'[x]
      OBVIOUS
    <2>2. PendingFits(q)
      BY <1>1, <2>1 DEF OInv
    <2>3. PendingFits(q)'
      BY <1>1, <2>2 DEF PendingFits, Requested, Current, Sound, Keeps, HasStatus, Fixed
    <2> QED BY <2>1, <2>3
  <1> QED BY <1>4, <1>5, <1>6, <1>7 DEF OInv

\* What the registry stores of a request it takes.
LEMMA CommitIs ==
    ASSUME OInv, NEW s \in Servers, Commit(s), stored.rev = pending[s].expected, NEW r, r = pending[s]
    PROVE  /\ r.op \in {"create", "put", "status", "patch", "apply", "delete"}
           /\ Requested(r) /\ Sound(r, stored) /\ Owned(r, said)
           /\ (r.expected = 0 => stored = Absent) /\ (stored = Absent => r.expected = 0)
           /\ revision' = revision + 1 /\ stored' \in Object
           /\ r.op = "delete" => stored' = Absent /\ said' = Nobody
           /\ r.op # "delete" =>
                 /\ stored'.rev = revision + 1
                 /\ stored'.uid = IF r.expected = 0 THEN revision + 1 ELSE r.new.uid
                 /\ stored'.gen = r.new.gen /\ stored'.tree = r.new.tree
                 /\ stored'.status = r.new.status /\ stored'.managed = r.new.managed
                 /\ said' \in Entries /\ \A n \in Managers : said'[n] = said[n] \cup Fresh(r, n)
  <1>1. r # Idle /\ Requested(r) /\ Current(r)
    BY DEF OInv, PendingFits, Commit
  <1>2. Sound(r, stored) /\ Owned(r, said)
    BY <1>1 DEF Current
  <1>3. (r.expected = 0 => stored = Absent) /\ (stored = Absent => r.expected = 0)
    BY AbsentIs DEF OInv, StoredFits
  <1>4. /\ revision' = revision + 1
        /\ stored' = IF r.op = "delete" THEN Absent
                     ELSE [r.new EXCEPT !.rev = revision + 1,
                                        !.uid = IF r.expected = 0 THEN revision + 1 ELSE @]
        /\ said' = CASE r.op = "apply" ->
                          [said EXCEPT ![r.args.by] = @ \cup Declared(r.args.body)]
                     [] r.op = "delete" -> [m \in Managers |-> {}]
                     [] OTHER -> said
    BY DEF Commit, Compared
  <1>5. r.new \in Object /\ r.op \in {"create", "put", "status", "patch", "apply", "delete"}
    BY <1>1 DEF Requested
  <1>6. revision \in Nat /\ said \in Entries
    BY DEF OInv, OTyped
  <1>7. r.op = "delete" => stored' = Absent /\ said' = Nobody
    BY <1>4 DEF Nobody
  <1>8. PICK old \in Object, next \in Nat : old = r.new /\ next = revision + 1
    BY <1>5, <1>6
  <1>9. PICK u \in Nat : u = IF r.expected = 0 THEN next ELSE old.uid
    <2>1. old.uid \in Nat
      BY DEF Object
    <2> QED BY <2>1
  <1>10. PICK new : new = [old EXCEPT !.rev = next, !.uid = u]
    OBVIOUS
  <1>11. /\ new \in Object /\ new.rev = next /\ new.uid = u /\ new.gen = old.gen
         /\ new.tree = old.tree /\ new.status = old.status /\ new.managed = old.managed
    BY <1>10 DEF Object
  <1>14. r.op # "delete" => stored' = new
    BY <1>4, <1>8, <1>9, <1>10
  <1>12. r.op # "delete" =>
            said' \in Entries /\ \A n \in Managers : said'[n] = said[n] \cup Fresh(r, n)
    <2>1. CASE r.op = "apply"
      <3>1. r.args.by \in Managers /\ Declared(r.args.body) \subseteq Range(Order)
        BY <1>1, <2>1 DEF Requested
      <3>2. said' = [said EXCEPT ![r.args.by] = @ \cup Declared(r.args.body)]
        BY <1>4, <2>1
      <3> QED BY <1>6, <2>1, <3>1, <3>2 DEF Entries, Fresh, Claimed
    <2>2. CASE r.op # "apply" /\ r.op # "delete"
      <3>1. said' = said
        BY <1>4, <2>2
      <3> QED BY <1>6, <2>2, <3>1 DEF Fresh, Claimed
    <2> QED BY <2>1, <2>2
  <1>13. stored' \in Object
    BY <1>7, <1>11, <1>14, AbsentIs
  <1>15. r.op # "delete" =>
            /\ stored'.rev = revision + 1
            /\ stored'.uid = IF r.expected = 0 THEN revision + 1 ELSE r.new.uid
            /\ stored'.gen = r.new.gen /\ stored'.tree = r.new.tree
            /\ stored'.status = r.new.status /\ stored'.managed = r.new.managed
    BY <1>8, <1>9, <1>11, <1>14
  <1>16. revision' = revision + 1
    BY <1>4
  <1> QED BY <1>1, <1>2, <1>3, <1>5, <1>7, <1>12, <1>13, <1>15, <1>16
LEMMA CommitKeepsInv ==
    ASSUME OInv, NEW s \in Servers, Commit(s)
    PROVE  OInv'
  <1>1. PICK r : r = pending[s]
    OBVIOUS
  <1>2. OTyped /\ StoredFits
    BY DEF OInv
  <1>3. /\ pending' = [pending EXCEPT ![s] = Idle] /\ kind' = kind /\ copy' = copy
        /\ pending' = [x \in Servers |-> pending'[x]]
        /\ \A x \in Servers : pending'[x] = IF x = s THEN Idle ELSE pending[x]
    <2>1. pending' = [pending EXCEPT ![s] = Idle] /\ kind' = kind /\ copy' = copy
      BY DEF Commit
    <2>2. pending = [x \in Servers |-> pending[x]]
      BY <1>2 DEF OTyped
    <2> QED BY <2>1, <2>2
  <1>4. CASE stored.rev # r.expected
    <2>1. revision' = revision /\ stored' = stored /\ said' = said
      BY <1>1, <1>4 DEF Commit, Compared
    <2>2. OTyped' /\ StoredFits'
      BY <1>2, <1>3, <2>1 DEF OTyped, StoredFits, HasStatus
    <2>3. \A c \in Clients : CopyFits(c)'
      BY <1>3, <2>1 DEF OInv, CopyFits
    <2>4. ASSUME NEW x \in Servers
          PROVE  PendingFits(pending[x])'
      <3>1. PICK q : q = pending'[x]
        OBVIOUS
      <3>2. PendingFits(q)
        BY <1>3, <3>1 DEF OInv, PendingFits
      <3>3. PendingFits(q)'
        BY <1>3, <2>1, <3>2 DEF PendingFits, Requested, Current, Sound, Keeps, HasStatus, Fixed
      <3> QED BY <3>1, <3>3
    <2> QED BY <2>2, <2>3, <2>4 DEF OInv
  <1>5. CASE stored.rev = r.expected
    <2>1. /\ r.op \in {"create", "put", "status", "patch", "apply", "delete"}
          /\ Requested(r) /\ Sound(r, stored) /\ Owned(r, said)
          /\ (r.expected = 0 => stored = Absent) /\ (stored = Absent => r.expected = 0)
          /\ revision' = revision + 1 /\ stored' \in Object
          /\ r.op = "delete" => stored' = Absent /\ said' = Nobody
          /\ r.op # "delete" =>
                /\ stored'.rev = revision + 1
                /\ stored'.uid = IF r.expected = 0 THEN revision + 1 ELSE r.new.uid
                /\ stored'.gen = r.new.gen /\ stored'.tree = r.new.tree
                /\ stored'.status = r.new.status /\ stored'.managed = r.new.managed
                /\ said' \in Entries /\ \A n \in Managers : said'[n] = said[n] \cup Fresh(r, n)
      BY <1>1, <1>5, CommitIs
    <2>2. PICK now \in Nat, rev \in Nat, uid \in Nat :
             now = revision /\ rev = stored.rev /\ uid = stored.uid /\ rev <= now /\ uid <= rev
      BY <1>2 DEF OTyped, StoredFits, Object
    <2>3. said' \in Entries
      BY <2>1, AbsentIs
    <2>4. OTyped'
      BY <1>2, <1>3, <2>1, <2>2, <2>3 DEF OTyped
    \* The identity of what is stored next: new, or that of what was there.
    <2>5. r.op # "delete" =>
             /\ stored'.uid = now + 1 \/ (stored'.uid = uid /\ uid >= 1)
             /\ stored'.uid <= stored'.rev /\ stored'.rev = now + 1
      <3>1. r.op # "delete" /\ stored # Absent => stored'.uid = uid /\ uid >= 1
        BY <1>2, <2>1, <2>2 DEF Sound, Keeps, StoredFits
      <3>2. r.op # "delete" /\ stored = Absent => stored'.uid = now + 1
        BY <2>1, <2>2
      <3> QED BY <2>1, <2>2, <3>1, <3>2
    <2>6. StoredFits'
      <3>1. CASE r.op = "delete"
        <4>1. stored' = Absent /\ said' = Nobody /\ revision' = now + 1
          BY <2>1, <2>2, <3>1
        <4> QED BY <2>2, <4>1, AbsentIs DEF StoredFits
      <3>2. CASE r.op # "delete"
        <4>1. ~HasStatus' => stored'.gen = 0
          BY <1>3, <2>1, <3>2 DEF HasStatus, Requested
        <4>2. \A m \in Managers : stored'.managed[m] \subseteq said'[m]
          BY <2>1, <3>2 DEF Owned
        <4>3. PICK v \in Nat : v = stored'.uid
          BY <2>1 DEF Object
        <4>4. v >= 1 /\ v <= now + 1 /\ stored'.rev = now + 1 /\ revision' = now + 1
          BY <2>1, <2>2, <2>5, <3>2, <4>3
        <4>5. stored'.rev <= revision' /\ stored'.uid <= stored'.rev /\ stored'.rev # 0
              /\ stored'.uid >= 1
          BY <2>2, <4>3, <4>4
        <4> QED BY <4>1, <4>2, <4>5 DEF StoredFits
      <3> QED BY <3>1, <3>2
    <2>7. ASSUME NEW c \in Clients
          PROVE  CopyFits(c)'
      <3>1. CopyFits(c) /\ copy'[c] = copy[c] /\ copy[c] \in Object
        BY <1>2, <1>3 DEF OInv, OTyped
      <3>2. PICK o \in Object, orev \in Nat, ouid \in Nat :
               o = copy[c] /\ orev = o.rev /\ ouid = o.uid
        BY <3>1 DEF Object
      <3>3. orev <= now /\ ouid <= orev /\ (orev = 0 \/ ouid = 0 => o = Absent)
            /\ (ouid = uid => \A m \in Managers : o.managed[m] \subseteq said[m])
        BY <2>2, <3>1, <3>2 DEF CopyFits
      <3>4. CASE r.op = "delete"
        <4>1. stored' = Absent /\ said' = Nobody /\ revision' = now + 1
          BY <2>1, <2>2, <3>4
        <4>2. ouid = 0 => \A m \in Managers : o.managed[m] \subseteq Nobody[m]
          BY <3>3, AbsentIs
        <4> QED BY <3>1, <3>2, <3>3, <4>1, <4>2, AbsentIs DEF CopyFits
      <3>5. CASE r.op # "delete"
        <4>1. PICK v \in Nat : v = stored'.uid
          BY <2>1 DEF Object
        <4>2. stored'.rev = now + 1 /\ revision' = now + 1 /\ (v = now + 1 \/ v = uid)
          BY <2>1, <2>2, <2>5, <3>5, <4>1
        <4>3. orev # now + 1 /\ (ouid = v => ouid = uid) /\ orev <= now + 1
          BY <3>3, <4>2
        <4>4. \A m \in Managers : said[m] \subseteq said'[m]
          BY <2>1, <3>5
        <4> QED BY <3>1, <3>2, <3>3, <4>1, <4>2, <4>3, <4>4 DEF CopyFits
      <3> QED BY <3>4, <3>5
    <2>8. ASSUME NEW x \in Servers
          PROVE  PendingFits(pending[x])'
      <3>1. PICK q : q = pending'[x]
        OBVIOUS
      <3>2. PendingFits(q)
        BY <1>3, <3>1 DEF OInv, PendingFits
      <3>3. CASE q = Idle
        BY <3>1, <3>3 DEF PendingFits
      <3>4. CASE Requested(q) /\ Current(q)
        <4>1. PICK e \in Nat : e = q.expected /\ e <= now
          BY <2>2, <3>4 DEF Requested
        <4>2. Requested(q)'
          <5>1. q.expected \in 0..revision'
            BY <2>1, <2>2, <4>1
          <5> QED BY <1>3, <3>4, <5>1 DEF Requested, HasStatus
        <4>3. e = 0 => Sound(q, Absent)' /\ Owned(q, Nobody)
          BY <1>3, <3>4, <4>1 DEF Current, Sound, Keeps, HasStatus, Fixed
        <4>4. stored'.rev = e => stored' = Absent /\ said' = Nobody /\ e = 0
          <5>1. CASE r.op = "delete"
            BY <2>1, <5>1, AbsentIs
          <5>2. CASE r.op # "delete"
            BY <2>2, <2>5, <4>1, <5>2
          <5> QED BY <5>1, <5>2
        <4>5. Current(q)'
          <5>1. stored'.rev = e => Sound(q, stored)' /\ Owned(q, said')
            BY <4>3, <4>4 DEF Sound, Keeps
          <5> QED BY <4>1, <4>3, <5>1 DEF Current
        <4> QED BY <3>1, <4>2, <4>5 DEF PendingFits
      <3> QED BY <3>2, <3>3, <3>4 DEF PendingFits
    <2> QED BY <2>4, <2>6, <2>7, <2>8 DEF OInv
  <1> QED BY <1>4, <1>5

LEMMA OInvStays ==
    ASSUME OInv, [ONext]_ovars
    PROVE  OInv'
  <1>1. CASE UNCHANGED ovars
    <2>1. /\ kind' = kind /\ stored' = stored /\ revision' = revision /\ copy' = copy
          /\ said' = said /\ pending' = pending
      BY <1>1 DEF ovars
    <2> QED BY <2>1 DEF OInv, OTyped, StoredFits, CopyFits, PendingFits, Requested, Current, Sound,
                        Keeps, HasStatus, Fixed
  <1>2. CASE ONext
    BY <1>2, CreateKeepsInv, PatchKeepsInv, DeleteKeepsInv, ApplyKeepsInv, PutKeepsInv,
       StatusKeepsInv, CommitKeepsInv, CrashKeepsInv, ReadKeepsInv DEF ONext
  <1> QED BY <1>1, <1>2

\* A writer of objects: what is stored is well formed, what was read of it is
\* no newer, and a request that would be taken was made of what is stored.
THEOREM ObjectInvariantHolds == OSpec => []OInv
  <1>1. OInit => OInv
    BY OInvInitially
  <1>2. OInv /\ [ONext]_ovars => OInv'
    BY OInvStays
  <1> QED BY <1>1, <1>2, PTL DEF OSpec

\* An entry of managedFields holds only paths that its manager declared in its
\* own applies of this very object, through patches, PUTs of older copies,
\* takeovers and re-creation (apply.rs, server_side).
THEOREM OwnersDeclaredHolds == OSpec => []OwnersDeclared
  <1>1. OInv => OwnersDeclared
    <2> SUFFICES ASSUME OInv PROVE OwnersDeclared
      OBVIOUS
    <2>1. OTyped /\ StoredFits
      BY DEF OInv
    <2>2. ASSUME NEW o \in {stored} \cup Range(copy)
          PROVE  /\ o.rev \in 0..revision /\ o.uid \in 0..o.rev /\ o.gen \in Nat
                 /\ Tree(o.tree) /\ o.status \in Statuses \cup {""}
                 /\ o.managed \in Entries
      <3>1. o \in Object /\ o.rev <= revision /\ o.uid <= o.rev
        <4>1. CASE o = stored
          BY <2>1, <4>1 DEF OTyped, StoredFits
        <4>2. CASE o \in Range(copy)
          <5>1. PICK c \in Clients : o = copy[c]
            BY <2>1, <4>2 DEF OTyped, Range
          <5> QED BY <2>1, <5>1 DEF OInv, OTyped, CopyFits
        <4> QED BY <4>1, <4>2
      <3>2. Tree(o.tree) /\ o.gen \in Nat /\ o.status \in Statuses \cup {""} /\ o.managed \in Entries
        BY <3>1, ForestIs DEF Object
      <3>3. PICK rev \in Nat, uid \in Nat, now \in Nat : rev = o.rev /\ uid = o.uid /\ now = revision
        BY <2>1, <3>1 DEF Object, OTyped
      <3>4. rev <= now /\ uid <= rev
        BY <3>1, <3>3
      <3>5. rev \in 0..now /\ uid \in 0..rev
        BY <3>4
      <3> QED BY <3>2, <3>3, <3>5
    <2>3. \A s \in Servers : pending[s].op \in
             {"none", "create", "put", "status", "patch", "apply", "delete"}
      <3>1. Idle.op = "none"
        BY DEF Idle
      <3> QED BY <3>1 DEF OInv, PendingFits, Requested
    <2>4. OTypeOK
      BY <2>1, <2>2, <2>3 DEF OTypeOK, OTyped
    <2> QED BY <2>1, <2>4 DEF OwnersDeclared, StoredFits
  <1> QED BY <1>1, ObjectInvariantHolds, PTL
\* Only the registry's taking of a request changes what is stored.
LEMMA OnlyCommits ==
    ASSUME OInv, [ONext]_ovars, stored' # stored
    PROVE  \E s \in Servers :
              /\ Commit(s) /\ stored.rev = pending[s].expected
              /\ \A x \in Servers : pending[x] # Idle /\ pending'[x] = Idle => x = s
  <1>1. ONext
    BY DEF ovars
  <1>2. ASSUME NEW s \in Servers, NEW r, Request(s, r)
        PROVE  FALSE
    BY <1>2 DEF Request
  <1>7. ASSUME NEW s \in Servers
        PROVE  ~CreateRequest(s) /\ ~PatchRequest(s) /\ ~DeleteRequest(s) /\ ~Crash(s)
    <2>1. ~CreateRequest(s)
      BY <1>2 DEF CreateRequest, Write
    <2>2. ~PatchRequest(s)
      BY <1>2 DEF PatchRequest, Write
    <2>3. ~DeleteRequest(s) /\ ~Crash(s)
      BY <1>2 DEF DeleteRequest, Crash
    <2> QED BY <2>1, <2>2, <2>3
  <1>8. ASSUME NEW s \in Servers, NEW m \in Managers
        PROVE  ~ApplyRequest(s, m)
    BY <1>2 DEF ApplyRequest, Write
  <1>9. ASSUME NEW s \in Servers, NEW c \in Clients
        PROVE  ~PutRequest(s, c) /\ ~StatusRequest(s, c)
    <2>1. ~PutRequest(s, c)
      BY <1>2 DEF PutRequest, Write
    <2>2. ~StatusRequest(s, c)
      BY <1>2 DEF StatusRequest
    <2> QED BY <2>1, <2>2
  <1>10. \A c \in Clients : ~ClientRead(c)
    BY DEF ClientRead
  <1>3. PICK s \in Servers : Commit(s)
    BY <1>1, <1>7, <1>8, <1>9, <1>10 DEF ONext
  <1>4. stored.rev = pending[s].expected
    BY <1>3 DEF Commit, Compared
  <1>5. pending' = [pending EXCEPT ![s] = Idle] /\ pending = [x \in Servers |-> pending[x]]
    BY <1>3 DEF Commit, OInv, OTyped
  <1>6. \A x \in Servers : x # s => pending'[x] = pending[x]
    BY <1>5
  <1> QED BY <1>3, <1>4, <1>6

\* A live object keeps its identity, counts its changes, and stays as it must.
LEMMA LiveObjectKeeps ==
    ASSUME OInv, [ONext]_ovars, Exists, stored'.uid = stored.uid, stored' # stored
    PROVE  /\ stored'.gen = stored.gen + (IF stored'.tree # stored.tree /\ HasStatus THEN 1 ELSE 0)
           /\ ~(stored'.tree # stored.tree /\ stored'.status # stored.status)
           /\ At(stored'.tree, Fixed) = At(stored.tree, Fixed)
           /\ kind = "Secret" /\ Immutable(stored.tree) =>
                 /\ Immutable(stored'.tree)
                 /\ At(stored'.tree, <<"data">>) = At(stored.tree, <<"data">>)
  <1>1. PICK s \in Servers : Commit(s) /\ stored.rev = pending[s].expected
    BY OnlyCommits
  <1>2. PICK r : r = pending[s]
    OBVIOUS
  <1>3. /\ Sound(r, stored)
        /\ r.op = "delete" => stored' = Absent
        /\ r.op # "delete" =>
              /\ stored'.gen = r.new.gen /\ stored'.tree = r.new.tree
              /\ stored'.status = r.new.status
    BY <1>1, <1>2, CommitIs
  <1>4. r.op # "delete"
    BY <1>3, AbsentIs DEF Exists, OInv, StoredFits
  <1>5. Keeps(r.new, stored)
    BY <1>3, <1>4 DEF Sound, Exists
  <1> QED BY <1>3, <1>4, <1>5 DEF Keeps

LEMMA NothingIsLost ==
    ASSUME OInv, [ONext]_ovars, NEW s \in Servers, Committed(s)
    PROVE  pending[s].seen = stored
  <1>1. PICK x \in Servers :
           /\ Commit(x) /\ stored.rev = pending[x].expected
           /\ \A y \in Servers : pending[y] # Idle /\ pending'[y] = Idle => y = x
    BY OnlyCommits DEF Committed
  <1>2. x = s
    BY <1>1 DEF Committed
  <1>3. PICK r : r = pending[s]
    OBVIOUS
  <1>4. Sound(r, stored)
    BY <1>1, <1>2, <1>3, CommitIs
  <1> QED BY <1>3, <1>4 DEF Sound

\* An update commits over what its author had read; the generation of a live
\* object counts the changes of its fields, no write changes both fields and
\* status, and its selector or type and the data of an immutable Secret stay
\* (write.rs, concurrency; strategy.rs, prepare).
THEOREM UpdatesAreSoundHolds == OSpec => UpdatesAreSound
  <1>1. OInv /\ [ONext]_ovars =>
           [\A s \in Servers : Committed(s) => pending[s].seen = stored]_ovars
    BY NothingIsLost
  <1>2. OInv /\ [ONext]_ovars =>
           [Exists /\ stored'.uid = stored.uid =>
               LET changed == stored'.tree # stored.tree
               IN /\ stored'.gen = stored.gen + (IF changed /\ HasStatus THEN 1 ELSE 0)
                  /\ ~(changed /\ stored'.status # stored.status)]_ovars
    <2> SUFFICES ASSUME OInv, [ONext]_ovars, Exists, stored'.uid = stored.uid
                 PROVE  /\ stored'.gen = stored.gen
                             + (IF stored'.tree # stored.tree /\ HasStatus THEN 1 ELSE 0)
                        /\ ~(stored'.tree # stored.tree /\ stored'.status # stored.status)
      OBVIOUS
    <2>1. CASE stored' = stored
      <3>1. PICK g \in Nat : g = stored.gen
        BY DEF OInv, OTyped, Object
      <3> QED BY <2>1, <3>1
    <2>2. CASE stored' # stored
      BY <2>2, LiveObjectKeeps
    <2> QED BY <2>1, <2>2
  <1>3. OInv /\ [ONext]_ovars =>
           [Exists /\ stored'.uid = stored.uid =>
               /\ At(stored'.tree, Fixed) = At(stored.tree, Fixed)
               /\ kind = "Secret" /\ Immutable(stored.tree) =>
                     /\ Immutable(stored'.tree)
                     /\ At(stored'.tree, <<"data">>) = At(stored.tree, <<"data">>)]_ovars
    <2> SUFFICES ASSUME OInv, [ONext]_ovars, Exists, stored'.uid = stored.uid
                 PROVE  /\ At(stored'.tree, Fixed) = At(stored.tree, Fixed)
                        /\ kind = "Secret" /\ Immutable(stored.tree) =>
                              /\ Immutable(stored'.tree)
                              /\ At(stored'.tree, <<"data">>) = At(stored.tree, <<"data">>)
      OBVIOUS
    <2>1. CASE stored' = stored
      BY <2>1
    <2>2. CASE stored' # stored
      BY <2>2, LiveObjectKeeps
    <2> QED BY <2>1, <2>2
  <1>4. OSpec => NoLostUpdate
    BY <1>1, ObjectInvariantHolds, PTL DEF OSpec, NoLostUpdate
  <1>5. OSpec => GenerationCounts
    BY <1>2, ObjectInvariantHolds, PTL DEF OSpec, GenerationCounts
  <1>6. OSpec => ImmutableStays
    BY <1>3, ObjectInvariantHolds, PTL DEF OSpec, ImmutableStays
  <1> QED BY <1>4, <1>5, <1>6 DEF UpdatesAreSound
-----------------------------------------------------------------------------
(* What an apply leaves alone.                                             *)

Near(p, q) == \/ IsPrefix(p, q) \/ IsPrefix(q, p)
              \/ Len(p) = 3 /\ Len(q) = 3 /\ q[2] \in {"", p[2]}
Agree(t, u, x) ==
    /\ x \in DOMAIN t <=> x \in DOMAIN u
    /\ x \in DOMAIN t => t[x] = u[x]

\* The list is above all its items.
LEMMA EnvBegins ==
    ASSUME NEW p \in Leaf, Len(p) = 3 \/ p[1] = "env"
    PROVE  IsPrefix(Env, p)
  <1>1. p[1] = "env" /\ p \in Seq(Words)
    BY LeafShape
  <1>2. PICK n \in 1..3 : n = Len(p)
    BY LeafShape
  <1>3. Len(Env) <= Len(p) /\ \A i \in 1..Len(Env) : Env[i] = p[i]
    BY <1>1, <1>2, EnvIsLeaf
  <1> QED BY <1>1, <1>3, EnvIsLeaf, PrefixIs

\* Trees that agree on all leaves below a path have the same there.
LEMMA SameBelow ==
    ASSUME NEW t \in Forest, NEW u \in Forest, NEW q,
           \A x \in Leaf : IsPrefix(q, x) => Agree(t, u, x)
    PROVE  At(t, q) = At(u, q)
  <1>1. DOMAIN t \subseteq Leaf /\ DOMAIN u \subseteq Leaf
    BY ForestIs DEF Tree
  <1>2. PICK D : D = Under(t, q)
    OBVIOUS
  <1>3. D = Under(u, q)
    BY <1>1, <1>2 DEF Under, Agree
  <1>4. \A x \in D : t[x] = u[x]
    BY <1>1, <1>2 DEF Under, Agree
  <1>5. [x \in D |-> t[x]] = [x \in D |-> u[x]]
    BY <1>4
  <1> QED BY <1>2, <1>3, <1>5 DEF At, Restrict

\* What is below a path that is far from p is far from p.
LEMMA BelowIsFar ==
    ASSUME NEW p \in Leaf, NEW q \in Leaf, NEW x \in Leaf, IsPrefix(q, x), ~Near(p, q)
    PROVE  ~Near(p, x)
  <1> SUFFICES ASSUME Near(p, x) PROVE FALSE
    OBVIOUS
  <1>0. p \in Seq(Words) /\ q \in Seq(Words) /\ x \in Seq(Words)
    BY LeafShape
  <1>1. CASE IsPrefix(p, x)
    <2>1. /\ Len(p) \in Nat /\ Len(q) \in Nat
          /\ \A i \in 1..Len(p) : p[i] = x[i]
          /\ \A i \in 1..Len(q) : q[i] = x[i]
      BY <1>0, <1>1, PrefixIs
    <2>2. CASE Len(p) <= Len(q)
      <3>1. \A i \in 1..Len(p) : p[i] = q[i]
        BY <2>1, <2>2
      <3>2. IsPrefix(p, q)
        BY <1>0, <2>2, <3>1, PrefixIs
      <3> QED BY <3>2 DEF Near
    <2>3. CASE Len(q) <= Len(p)
      <3>1. \A i \in 1..Len(q) : q[i] = p[i]
        BY <2>1, <2>3
      <3>2. IsPrefix(q, p)
        BY <1>0, <2>3, <3>1, PrefixIs
      <3> QED BY <3>2 DEF Near
    <2> QED BY <2>1, <2>2, <2>3
  <1>2. CASE IsPrefix(x, p)
    <2>1. /\ Len(q) \in Nat /\ Len(x) \in Nat /\ Len(p) \in Nat /\ Len(q) <= Len(x) /\ Len(x) <= Len(p)
          /\ \A i \in 1..Len(q) : q[i] = x[i]
          /\ \A i \in 1..Len(x) : x[i] = p[i]
      BY <1>0, <1>2, PrefixIs
    <2>2. Len(q) <= Len(p) /\ \A i \in 1..Len(q) : q[i] = p[i]
      BY <2>1
    <2>3. IsPrefix(q, p)
      BY <1>0, <2>2, PrefixIs
    <2> QED BY <2>3 DEF Near
  <1>3. CASE Len(p) = 3 /\ Len(x) = 3 /\ x[2] \in {"", p[2]}
    <2>1. p[1] = "env" /\ x[1] = "env"
      BY <1>3, LeafShape
    <2>2. q[1] = "env"
      BY <2>1, ComparableLeaves
    <2>3. CASE q = Env
      <3>1. IsPrefix(Env, p)
        BY <1>3, <2>1, EnvBegins
      <3> QED BY <2>3, <3>1 DEF Near
    <2>4. CASE Len(q) = 3
      <3>1. q = x
        BY <1>3, <2>4, ComparableLeaves
      <3> QED BY <1>3, <3>1 DEF Near
    <2> QED BY <2>2, <2>3, <2>4, LeafShape
  <1> QED BY <1>1, <1>2, <1>3 DEF Near

\* The removal of a path leaves alone what is far from it.
LEMMA RemoveLeavesFar ==
    ASSUME NEW t \in Forest, NEW p \in Leaf, NEW x \in Leaf, ~Near(p, x)
    PROVE  Agree(t, remove(t, p), x)
  <1>1. CASE Len(p) < 3
    <2>1. PICK U : U = Under(t, p)
      OBVIOUS
    <2>2. remove(t, p) = Without(t, U)
      BY <1>1, <2>1 DEF remove
    <2>3. x \notin U
      BY <2>1 DEF Under, Near
    <2>4. DOMAIN Without(t, U) = DOMAIN t \ U /\ \A q \in DOMAIN t \ U : Without(t, U)[q] = t[q]
      BY WithoutIsTree
    <2> QED BY <2>2, <2>3, <2>4 DEF Agree
  <1>2. CASE ~(Len(p) < 3)
    <2>1. Len(p) = 3 /\ p[2] \in Words /\ p[1] = "env" /\ p \in Seq(Words)
      <3>1. PICK n \in 1..3 : n = Len(p)
        BY LeafShape
      <3>2. ~(n < 3)
        BY <1>2, <3>1
      <3>3. n = 3
        BY <3>2
      <3>4. p \in [1..n -> Words] /\ p \in Seq(Words)
        BY <3>1, LeafShape
      <3>5. p[2] \in Words
        BY <3>3, <3>4
      <3> QED BY <3>1, <3>3, <3>4, <3>5, LeafShape
    <2>2. PICK i \in Words : i = p[2]
      BY <2>1
    <2>3. x # p /\ x # Env
      <3>1. IsPrefix(Env, p) /\ IsPrefix(p, p)
        BY <2>1, EnvBegins, PrefixOfItself
      <3> QED BY <3>1 DEF Near
    <2>4. \A y \in Leaf : Len(y) = 3 /\ y[2] \in {"", i} => x # y
      BY <2>1, <2>2 DEF Near
    <2>5. x # Name(i) /\ x # Value(i)
      BY <2>4, ItemsAreLeaves
    <2>6. CASE Name(i) \notin DOMAIN t
      <3>1. remove(t, p) = t
        BY <1>2, <2>2, <2>6 DEF remove
      <3> QED BY <3>1 DEF Agree
    <2>7. CASE Name(i) \in DOMAIN t /\ p = Name(i) /\ Value(i) \in DOMAIN t
      <3>1. PICK u : u = Without(t, {Name(i), Value(i)})
        OBVIOUS
      <3>2. u \in Forest /\ DOMAIN u = DOMAIN t \ {Name(i), Value(i)}
            /\ \A q \in DOMAIN t \ {Name(i), Value(i)} : u[q] = t[q]
        BY <3>1, WithoutIsTree
      <3>3. PICK v \in Words : v = t[Value(i)]
        BY <2>7, ForestIs DEF Tree
      <3>4. PICK n : n = Nameless(v)
        OBVIOUS
      <3>5. x # n
        BY <2>4, <3>4, ItemsAreLeaves
      <3>6. remove(t, p) = With(u, n, v)
        BY <1>2, <2>2, <2>7, <3>1, <3>3, <3>4 DEF remove
      <3>7. DOMAIN With(u, n, v) = DOMAIN u \cup {n}
            /\ \A q \in DOMAIN u \ {n} : With(u, n, v)[q] = u[q]
        BY DEF With
      <3> QED BY <2>5, <3>2, <3>5, <3>6, <3>7 DEF Agree
    <2>8. CASE Name(i) \in DOMAIN t /\ ~(p = Name(i) /\ Value(i) \in DOMAIN t)
      <3>1. PICK u : u = Without(t, {p})
        OBVIOUS
      <3>2. remove(t, p) = Relisted(t, u)
        BY <1>2, <2>2, <2>8, <3>1 DEF remove
      <3>3. u \in Forest /\ DOMAIN u = DOMAIN t \ {p} /\ \A q \in DOMAIN t \ {p} : u[q] = t[q]
        BY <3>1, WithoutIsTree
      <3>4. /\ \A q \in DOMAIN u : q \in DOMAIN Relisted(t, u) /\ Relisted(t, u)[q] = u[q]
            /\ DOMAIN Relisted(t, u) \subseteq DOMAIN u \cup {Env}
        BY <3>3, RelistedIsTree
      <3> QED BY <2>3, <3>2, <3>3, <3>4 DEF Agree
    <2> QED BY <2>6, <2>7, <2>8
  <1> QED BY <1>1, <1>2

\* ... and changes no value: what it adds has one value only.
LEMMA RemoveKeepsValues ==
    ASSUME NEW t \in Forest, NEW p \in Leaf
    PROVE  \A x \in DOMAIN remove(t, p) :
              (x \in DOMAIN t /\ remove(t, p)[x] = t[x]) \/ x = Env \/ \E v \in Words : x = Nameless(v)
  <1>1. CASE Len(p) < 3
    <2>1. PICK U : U = Under(t, p)
      OBVIOUS
    <2>2. remove(t, p) = Without(t, U)
      BY <1>1, <2>1 DEF remove
    <2>4. DOMAIN Without(t, U) = DOMAIN t \ U /\ \A q \in DOMAIN t \ U : Without(t, U)[q] = t[q]
      BY WithoutIsTree
    <2> QED BY <2>2, <2>4
  <1>2. CASE ~(Len(p) < 3)
    <2>2. PICK i : i = p[2]
      OBVIOUS
    <2>6. CASE Name(i) \notin DOMAIN t
      <3>1. remove(t, p) = t
        BY <1>2, <2>2, <2>6 DEF remove
      <3> QED BY <3>1
    <2>7. CASE Name(i) \in DOMAIN t /\ p = Name(i) /\ Value(i) \in DOMAIN t
      <3>1. PICK u : u = Without(t, {Name(i), Value(i)})
        OBVIOUS
      <3>2. u \in Forest /\ DOMAIN u = DOMAIN t \ {Name(i), Value(i)}
            /\ \A q \in DOMAIN t \ {Name(i), Value(i)} : u[q] = t[q]
        BY <3>1, WithoutIsTree
      <3>3. PICK v \in Words : v = t[Value(i)]
        BY <2>7, ForestIs DEF Tree
      <3>4. PICK n : n = Nameless(v)
        OBVIOUS
      <3>6. remove(t, p) = With(u, n, v)
        BY <1>2, <2>2, <2>7, <3>1, <3>3, <3>4 DEF remove
      <3>7. DOMAIN With(u, n, v) = DOMAIN u \cup {n}
            /\ \A q \in DOMAIN u \ {n} : With(u, n, v)[q] = u[q]
        BY DEF With
      <3> QED BY <3>2, <3>4, <3>6, <3>7
    <2>8. CASE Name(i) \in DOMAIN t /\ ~(p = Name(i) /\ Value(i) \in DOMAIN t)
      <3>1. PICK u : u = Without(t, {p})
        OBVIOUS
      <3>2. remove(t, p) = Relisted(t, u)
        BY <1>2, <2>2, <2>8, <3>1 DEF remove
      <3>3. u \in Forest /\ DOMAIN u = DOMAIN t \ {p} /\ \A q \in DOMAIN t \ {p} : u[q] = t[q]
        BY <3>1, WithoutIsTree
      <3>4. /\ \A q \in DOMAIN u : q \in DOMAIN Relisted(t, u) /\ Relisted(t, u)[q] = u[q]
            /\ DOMAIN Relisted(t, u) \subseteq DOMAIN u \cup {Env}
        BY <3>3, RelistedIsTree
      <3> QED BY <3>2, <3>3, <3>4
    <2> QED BY <2>6, <2>7, <2>8
  <1> QED BY <1>1, <1>2

\* Leaves of two trees that have one value only have the same one.
LEMMA OneValueOnly ==
    ASSUME NEW t \in Forest, NEW u \in Forest, NEW x \in DOMAIN t \cap DOMAIN u,
           x = Env \/ \E v \in Words : x = Nameless(v)
    PROVE  t[x] = u[x]
  <1>1. Tree(t) /\ Tree(u)
    BY ForestIs
  <1>2. CASE x = Env
    BY <1>1, <1>2 DEF Tree
  <1>3. CASE \E v \in Words : x = Nameless(v)
    BY <1>1, <1>3 DEF Tree
  <1> QED BY <1>2, <1>3

\* Dropping fields leaves alone what is far from all of them, and changes no value.
LEMMA KeptLeavesFar ==
    ASSUME stored.tree \in Forest, NEW m, NEW body
    PROVE  /\ \A x \in Leaf : (\A p \in Dropped(m, body) : ~Near(p, x)) =>
                 Agree(stored.tree, Kept(m, body), x)
           /\ \A x \in DOMAIN stored.tree \cap DOMAIN Kept(m, body) :
                 Kept(m, body)[x] = stored.tree[x]
  <1>1. PICK h : Kept(m, body) = h[Places] /\ Removes(h, stored.tree, Dropped(m, body))
    BY KeptFolds
  <1>2. PICK t0 \in Forest : t0 = stored.tree
    OBVIOUS
  <1>11. PICK D : D = Dropped(m, body)
    OBVIOUS
  <1> DEFINE Far(t) == \A x \in Leaf : (\A p \in D : ~Near(p, x)) => Agree(t0, t, x)
             Valued(t) == \A x \in DOMAIN t0 \cap DOMAIN t : t[x] = t0[x]
  <1>3. PICK G : G = {t \in Forest : Far(t) /\ Valued(t)}
    OBVIOUS
  <1>4. t0 \in G
    BY <1>3 DEF Agree
  <1>5. h[{}] \in G
    BY <1>1, <1>2, <1>4 DEF Removes
  <1>6. ASSUME NEW T \in SUBSET Places, T # {}, h[T \ {Max(T)}] \in G
        PROVE  h[T] \in G
    <2>1. PICK n \in Places : n = Max(T)
      BY <1>6, PlacesAre, LargestIsIn
    <2>2. PICK t \in G : t = h[T \ {n}]
      BY <1>6, <2>1
    <2>3. t \in Forest /\ Far(t) /\ Valued(t)
      BY <1>3
    <2>4. PICK p \in Leaf : p = Order[n]
      BY PlacesAre
    <2>5. CASE p \notin D
      <3>1. h[T] = t
        BY <1>1, <1>11, <1>6, <2>1, <2>2, <2>4, <2>5 DEF Removes
      <3> QED BY <3>1
    <2>6. CASE p \in D
      <3>1. PICK u \in Forest : u = remove(t, p)
        BY <2>3, RemoveIsTree
      <3>2. h[T] = u
        BY <1>1, <1>11, <1>6, <2>1, <2>2, <2>4, <2>6, <3>1 DEF Removes
      <3>3. Far(u)
        <4> SUFFICES ASSUME NEW x \in Leaf, \A q \in D : ~Near(q, x) PROVE Agree(t0, u, x)
          OBVIOUS
        <4>1. Agree(t, u, x)
          BY <2>3, <2>6, <3>1, RemoveLeavesFar
        <4>2. Agree(t0, t, x)
          BY <2>3
        <4> QED BY <4>1, <4>2 DEF Agree
      <3>4. Valued(u)
        <4> SUFFICES ASSUME NEW x \in DOMAIN t0 \cap DOMAIN u PROVE u[x] = t0[x]
          OBVIOUS
        <4>1. CASE x \in DOMAIN t /\ u[x] = t[x]
          BY <2>3, <4>1
        <4>2. CASE x = Env \/ \E v \in Words : x = Nameless(v)
          BY <4>2, OneValueOnly
        <4> QED BY <2>3, <3>1, <4>1, <4>2, RemoveKeepsValues
      <3> QED BY <1>3, <3>2, <3>3, <3>4
    <2> QED BY <2>5, <2>6
  <1>7. \A T \in SUBSET Places : h[T] \in G
    <2> HIDE DEF Far, Valued
    <2> QED BY <1>5, <1>6, PlacesAre, FoldStays
  <1>8. Kept(m, body) \in G
    BY <1>1, <1>7
  <1>9. PICK k \in G : k = Kept(m, body)
    BY <1>8
  <1>10. Far(k) /\ Valued(k)
    BY <1>3
  <1> QED BY <1>2, <1>9, <1>10, <1>11

\* The fields of an item are those below its name.
LEMMA ItemIs ==
    ASSUME NEW t \in Forest, NEW q \in Leaf, Len(q) = 3
    PROVE  Under(t, SubSeq(q, 1, 2)) = {x \in DOMAIN t : Len(x) = 3 /\ x[2] = q[2]}
  <1>1. q \in Seq(Words) /\ q[1] = "env" /\ DOMAIN t \subseteq Leaf
    BY LeafShape, ForestIs DEF Tree
  <1>2. PICK i : i = SubSeq(q, 1, 2)
    OBVIOUS
  <1>3. i \in Seq(Words) /\ Len(i) = 2 /\ i[1] = "env" /\ i[2] = q[2]
    BY <1>1, <1>2
  <1>4. ASSUME NEW x \in Leaf PROVE IsPrefix(i, x) <=> Len(x) = 3 /\ x[2] = q[2]
    <2>1. /\ x \in Seq(Words) /\ (Len(x) = 3 => x[1] = "env")
          /\ (x[1] = "env" => x = Env \/ Len(x) = 3)
      BY LeafShape
    <2>2. PICK n \in 1..3 : n = Len(x)
      BY LeafShape
    <2>3. IsPrefix(i, x) <=> 2 <= n /\ \A j \in 1..2 : i[j] = x[j]
      BY <1>3, <2>1, <2>2, PrefixIs
    <2>4. (\A j \in 1..2 : i[j] = x[j]) <=> i[1] = x[1] /\ i[2] = x[2]
      OBVIOUS
    <2>5. x = Env => n = 1
      BY <2>2, EnvIsLeaf
    <2> QED BY <1>3, <2>1, <2>2, <2>3, <2>4, <2>5
  <1> QED BY <1>1, <1>2, <1>4 DEF Under

Item(t, i) == {x \in DOMAIN t : Len(x) = 3 /\ x[2] = i}

LEMMA OnlyNamedIs ==
    ASSUME NEW t \in Forest
    PROVE  OnlyNamed(t) =
             {q \in DOMAIN t : Len(q) = 3 /\ q[2] # "" /\ Item(t, q[2]) = {Name(q[2])}}
  <1>1. DOMAIN t \subseteq Leaf
    BY ForestIs DEF Tree
  <1>2. \A q \in DOMAIN t : Len(q) = 3 => Under(t, SubSeq(q, 1, 2)) = Item(t, q[2])
    BY <1>1, ItemIs DEF Item
  <1> QED BY <1>2 DEF OnlyNamed

\* Pruning drops the items that are only a name, and may leave an empty list.
LEMMA PruneIs ==
    ASSUME NEW t \in Forest
    PROVE  /\ \A x \in Leaf : x # Env /\ x \notin OnlyNamed(t) => Agree(t, Prune(t), x)
           /\ \A x \in OnlyNamed(t) : x \in DOMAIN t /\ x # Env /\ x \notin DOMAIN Prune(t)
           /\ \A x \in DOMAIN t \cap DOMAIN Prune(t) : Prune(t)[x] = t[x]
           /\ DOMAIN Prune(t) \subseteq DOMAIN t \cup {Env}
  <1>1. PICK N : N = OnlyNamed(t)
    OBVIOUS
  <1>2. PICK u : u = Without(t, N)
    OBVIOUS
  <1>3. u \in Forest /\ DOMAIN u = DOMAIN t \ N /\ \A q \in DOMAIN t \ N : u[q] = t[q]
    BY <1>2, WithoutIsTree
  <1>4. PICK v : v = Relisted(t, u)
    OBVIOUS
  <1>5. v = Prune(t)
    BY <1>1, <1>2, <1>4 DEF Prune
  <1>6. /\ \A q \in DOMAIN u : q \in DOMAIN v /\ v[q] = u[q]
        /\ DOMAIN v \subseteq DOMAIN u \cup {Env} /\ v \in Forest
    BY <1>3, <1>4, RelistedIsTree
  <1>7. \A x \in N : x \in DOMAIN t /\ Len(x) = 3
    BY <1>1 DEF OnlyNamed
  <1>8. Env \notin N
    BY <1>7, EnvIsLeaf
  <1>9. \A x \in DOMAIN t \cap DOMAIN v : v[x] = t[x]
    <2> SUFFICES ASSUME NEW x \in DOMAIN t \cap DOMAIN v PROVE v[x] = t[x]
      OBVIOUS
    <2>1. CASE x \in DOMAIN u
      BY <1>3, <1>6, <2>1
    <2>2. CASE x = Env
      BY <1>6, <2>2, OneValueOnly
    <2> QED BY <1>6, <2>1, <2>2
  <1>10. \A x \in Leaf : x # Env /\ x \notin N => Agree(t, v, x)
    BY <1>3, <1>6 DEF Agree
  <1>11. \A x \in N : x \in DOMAIN t /\ x # Env /\ x \notin DOMAIN v
    BY <1>3, <1>6, <1>7, <1>8
  <1> QED BY <1>1, <1>3, <1>5, <1>6, <1>9, <1>10, <1>11

\* Trees that agree on the list are pruned alike.
LEMMA PrunedAlike ==
    ASSUME NEW t \in Forest, NEW k \in Forest,
           \A x \in Leaf : IsPrefix(Env, x) => Agree(t, k, x)
    PROVE  \A x \in Leaf : IsPrefix(Env, x) => Agree(Prune(t), Prune(k), x)
  <1>1. DOMAIN t \subseteq Leaf /\ DOMAIN k \subseteq Leaf
    BY ForestIs DEF Tree
  <1>2. Under(t, Env) = Under(k, Env)
    BY <1>1 DEF Under, Agree
  <1>3. \A x \in Leaf : Len(x) = 3 => (x \in DOMAIN t <=> x \in DOMAIN k)
    BY EnvBegins DEF Agree
  <1>4. \A i : Item(t, i) = Item(k, i)
    BY <1>1, <1>3 DEF Item
  <1>5. \A q : q \in OnlyNamed(t) <=> q \in OnlyNamed(k)
    <2>1. OnlyNamed(t) = {q \in DOMAIN t : Len(q) = 3 /\ q[2] # "" /\ Item(t, q[2]) = {Name(q[2])}}
      BY OnlyNamedIs
    <2>2. OnlyNamed(k) = {q \in DOMAIN k : Len(q) = 3 /\ q[2] # "" /\ Item(k, q[2]) = {Name(q[2])}}
      BY OnlyNamedIs
    <2> QED BY <1>1, <1>3, <1>4, <2>1, <2>2
  <1>6. PICK N : N = OnlyNamed(t) /\ N = OnlyNamed(k)
    <2>1. OnlyNamed(t) = OnlyNamed(k)
      <3>1. PICK A : A = OnlyNamed(t)
        OBVIOUS
      <3>2. PICK B : B = OnlyNamed(k)
        OBVIOUS
      <3>3. /\ \A q \in A : q \in B
            /\ \A q \in B : q \in A
        BY <1>5, <3>1, <3>2
      <3>4. A \subseteq DOMAIN t /\ B \subseteq DOMAIN k
        BY <3>1, <3>2 DEF OnlyNamed
      <3> QED BY <3>1, <3>2, <3>3, <3>4
    <2> QED BY <2>1
  <1>7. PICK tw : tw = Without(t, N)
    OBVIOUS
  <1>8. PICK kw : kw = Without(k, N)
    OBVIOUS
  <1>9. /\ tw \in Forest /\ DOMAIN tw = DOMAIN t \ N /\ \A q \in DOMAIN t \ N : tw[q] = t[q]
        /\ kw \in Forest /\ DOMAIN kw = DOMAIN k \ N /\ \A q \in DOMAIN k \ N : kw[q] = k[q]
    <2>1. tw \in Forest /\ DOMAIN tw = DOMAIN t \ N /\ \A q \in DOMAIN t \ N : tw[q] = t[q]
      BY <1>7, WithoutIsTree
    <2>2. kw \in Forest /\ DOMAIN kw = DOMAIN k \ N /\ \A q \in DOMAIN k \ N : kw[q] = k[q]
      BY <1>8, WithoutIsTree
    <2> QED BY <2>1, <2>2
  <1>10. \A x \in Leaf : IsPrefix(Env, x) => Agree(tw, kw, x)
    BY <1>9 DEF Agree
  <1>11. Under(tw, Env) = Under(kw, Env)
    BY <1>1, <1>9, <1>10 DEF Under, Agree
  <1>12. Prune(t) = Relisted(t, tw) /\ Prune(k) = Relisted(k, kw)
    BY <1>6, <1>7, <1>8 DEF Prune
  <1>13. CASE Under(t, Env) # {} /\ Under(tw, Env) = {}
    <2>1. Prune(t) = With(tw, Env, "[]") /\ Prune(k) = With(kw, Env, "[]")
      BY <1>2, <1>11, <1>12, <1>13 DEF Relisted
    <2>2. \A x \in Leaf : Agree(tw, kw, x) => Agree(With(tw, Env, "[]"), With(kw, Env, "[]"), x)
      BY DEF Agree, With
    <2> QED BY <1>10, <2>1, <2>2
  <1>14. CASE ~(Under(t, Env) # {} /\ Under(tw, Env) = {})
    <2>1. Prune(t) = tw /\ Prune(k) = kw
      BY <1>2, <1>11, <1>12, <1>14 DEF Relisted
    <2> QED BY <1>10, <2>1
  <1> QED BY <1>13, <1>14

\* A body changes nothing that is far from it, a default only its own field.
LEMMA OverlayLeavesFar ==
    ASSUME NEW t \in Forest, NEW body \in Forest, NEW x \in Leaf,
           \A p \in DOMAIN body : ~Near(p, x)
    PROVE  Agree(t, Overlay(t, body), x)
  <1>1. \A p \in DOMAIN body : ~IsPrefix(p, x) /\ ~IsPrefix(x, p)
    BY DEF Near
  <1>2. x \notin DOMAIN body
    BY <1>1, LeafShape, PrefixOfItself
  <1>3. PICK o : o = Overlay(t, body)
    OBVIOUS
  <1>4. /\ DOMAIN o = {q \in DOMAIN t : \A p \in DOMAIN body : ~IsPrefix(p, q) /\ ~IsPrefix(q, p)}
                       \cup DOMAIN body
        /\ \A q \in DOMAIN o : o[q] = IF q \in DOMAIN body THEN body[q] ELSE t[q]
    <2>1. /\ DOMAIN Overlay(t, body) =
                {q \in DOMAIN t : \A p \in DOMAIN body : ~IsPrefix(p, q) /\ ~IsPrefix(q, p)}
                   \cup DOMAIN body
          /\ \A q \in DOMAIN Overlay(t, body) :
                Overlay(t, body)[q] = IF q \in DOMAIN body THEN body[q] ELSE t[q]
      BY OverlayIsTree, Zenon
    <2> QED BY <1>3, <2>1, Zenon
  <1> QED BY <1>1, <1>2, <1>3, <1>4 DEF Agree

LEMMA DefaultedLeavesFar ==
    ASSUME NEW t \in Forest, NEW x \in Leaf, x # <<"replicas">> \/ <<"replicas">> \in DOMAIN t
    PROVE  Agree(t, Defaulted(t), x)
  BY DefaultedIsTree DEF Agree

\* What the manager of an apply may change: what it declares, or declared.
Mine(args, declared) == Declared(args.body) \cup declared[args.by]

\* The list of an apply that is far from it stays as pruning leaves it.
LEMMA ListStays ==
    ASSUME NEW t \in Forest, NEW k \in Forest, NEW body \in Forest,
           \A x \in Leaf : IsPrefix(Env, x) => Agree(t, k, x),
           \A p \in DOMAIN body : ~Near(p, Env),
           Env \notin Leaves(t, Prune(t)),
           NEW u, u = Defaulted(Overlay(Prune(k), body))
    PROVE  Env \notin Leaves(t, u)
  <1>1. PICK pt \in Forest : pt = Prune(t)
    BY PruneIsTree
  <1>2. PICK pk \in Forest : pk = Prune(k)
    BY PruneIsTree
  <1>3. PICK o \in Forest : o = Overlay(pk, body)
    BY OverlayIsTree
  <1>4. u = Defaulted(o) /\ u \in Forest
    BY <1>2, <1>3, DefaultedIsTree
  <1>5. ASSUME NEW x \in Leaf, IsPrefix(Env, x) PROVE Agree(pt, u, x)
    <2>1. Agree(pt, pk, x)
      BY <1>1, <1>2, <1>5, PrunedAlike
    <2>2. Agree(pk, o, x)
      <3>1. ASSUME NEW p \in DOMAIN body PROVE ~Near(p, x)
        <4>1. p \in Leaf /\ ~Near(p, Env)
          BY ForestIs DEF Tree
        <4> QED BY <1>5, <4>1, EnvIsLeaf, BelowIsFar
      <3> QED BY <1>3, <3>1, OverlayLeavesFar
    <2>3. Agree(o, u, x)
      <3>1. x # <<"replicas">>
        <4>1. Env[1] = x[1] /\ Env[1] = "env"
          BY <1>5, EnvIsLeaf, ComparableLeaves
        <4>2. PICK r : r = <<"replicas">>
          OBVIOUS
        <4>3. r[1] = "replicas"
          BY <4>2, WordsOccur, TupleOfOne
        <4> QED BY <4>1, <4>2, <4>3
      <3> QED BY <1>4, <3>1, DefaultedLeavesFar
    <2> QED BY <2>1, <2>2, <2>3 DEF Agree
  <1>6. At(pt, Env) = At(u, Env)
    BY <1>4, <1>5, SameBelow
  <1>7. Env \in DOMAIN pt <=> Env \in DOMAIN u
    <2>1. IsPrefix(Env, Env)
      BY EnvIsLeaf, PrefixOfItself
    <2> QED BY <1>5, <2>1, EnvIsLeaf DEF Agree
  <1> QED BY <1>1, <1>6, <1>7 DEF Leaves

\* An item that an apply leaves with its name only had only its name before.
LEMMA ItemStays ==
    ASSUME NEW t \in Forest, NEW k \in Forest, NEW q \in OnlyNamed(k),
           \A x \in Leaf : Len(x) = 3 /\ x[2] = q[2] => Agree(t, k, x)
    PROVE  q \in Leaves(t, Prune(t))
  <1>1. DOMAIN t \subseteq Leaf /\ DOMAIN k \subseteq Leaf
    BY ForestIs DEF Tree
  <1>2. q \in DOMAIN k /\ Len(q) = 3 /\ q[2] # "" /\ Item(k, q[2]) = {Name(q[2])}
    BY OnlyNamedIs
  <1>3. Item(t, q[2]) = Item(k, q[2])
    BY <1>1 DEF Item, Agree
  <1>4. q \in DOMAIN t
    BY <1>1, <1>2 DEF Agree
  <1>5. q \in OnlyNamed(t)
    BY <1>2, <1>3, <1>4, OnlyNamedIs
  <1>6. q \notin DOMAIN Prune(t)
    BY <1>5, PruneIs
  <1>7. IsPrefix(q, q)
    BY <1>1, <1>4, LeafShape, PrefixOfItself
  <1>8. q \in DOMAIN At(t, q) /\ q \notin DOMAIN At(Prune(t), q)
    BY <1>4, <1>6, <1>7 DEF At, Restrict, Under
  <1> QED BY <1>4, <1>8 DEF Leaves

\* An apply changes nothing that is far from what its manager may change, but
\* for what pruning drops and for the default of a new object.
LEMMA FarFieldsStay ==
    ASSUME NEW t \in Forest, NEW k \in Forest, NEW body \in Forest, NEW q \in Leaf,
           NEW D, D \subseteq Leaf, \A p \in D : ~Near(p, q),
           \A x \in Leaf : (\A p \in D : ~Near(p, x)) => Agree(t, k, x),
           \A p \in DOMAIN body : ~Near(p, q),
           q \notin Leaves(t, Prune(t)),
           q = <<"replicas">> /\ kind = "Deployment" => q \in DOMAIN t,
           NEW u, u = Defaulted(Overlay(Prune(k), body))
    PROVE  q \notin Leaves(t, u)
  <1>1. ASSUME NEW x \in Leaf, IsPrefix(q, x)
        PROVE  Agree(t, k, x) /\ \A p \in DOMAIN body : ~Near(p, x)
    <2>1. \A p \in D : ~Near(p, x)
      BY <1>1, BelowIsFar
    <2>2. DOMAIN body \subseteq Leaf
      BY ForestIs DEF Tree
    <2>3. \A p \in DOMAIN body : ~Near(p, x)
      BY <1>1, <2>2, BelowIsFar
    <2> QED BY <2>1, <2>3
  <1>2. CASE q = Env
    <2>1. \A x \in Leaf : IsPrefix(Env, x) => Agree(t, k, x)
      BY <1>1, <1>2
    <2> QED BY <1>2, <2>1, ListStays
  <1>3. CASE q # Env
    <2>1. PICK pk \in Forest : pk = Prune(k)
      BY PruneIsTree
    <2>2. PICK o \in Forest : o = Overlay(pk, body)
      BY OverlayIsTree
    <2>3. u = Defaulted(o) /\ u \in Forest
      BY <2>1, <2>2, DefaultedIsTree
    <2>4. ASSUME NEW x \in Leaf, IsPrefix(q, x), x = Env \/ Len(x) = 3
          PROVE  x = q /\ Len(q) = 3
      <3>1. q[1] = "env"
        BY <2>4, EnvIsLeaf, LeafShape, ComparableLeaves
      <3>2. Len(q) = 3
        BY <1>3, <3>1, LeafShape
      <3>3. Len(q) <= Len(x) /\ (Len(q) = Len(x) => q = x)
        BY <2>4, ComparableLeaves
      <3>4. Len(x) = 3
        BY <2>4, <3>2, <3>3, EnvIsLeaf
      <3> QED BY <3>2, <3>3, <3>4
    <2>5. ASSUME NEW x \in Leaf, IsPrefix(q, x), x \in OnlyNamed(k)
          PROVE  FALSE
      <3>1. x = q /\ Len(q) = 3
        BY <2>4, <2>5 DEF OnlyNamed
      <3>2. ASSUME NEW y \in Leaf, Len(y) = 3, y[2] = q[2]
            PROVE  \A p \in D : ~Near(p, y)
        <4> SUFFICES ASSUME NEW p \in D, Near(p, y) PROVE FALSE
          OBVIOUS
        <4>1. CASE Len(p) = 3
          <5>1. p = y \/ y[2] \in {"", p[2]}
            <6> p \in Leaf
              OBVIOUS
            <6>1. CASE IsPrefix(p, y)
              BY <3>2, <4>1, <6>1, ComparableLeaves
            <6>2. CASE IsPrefix(y, p)
              BY <3>2, <4>1, <6>2, ComparableLeaves
            <6> QED BY <6>1, <6>2 DEF Near
          <5>2. q[2] \in {"", p[2]}
            BY <3>2, <5>1
          <5> QED BY <3>1, <4>1, <5>2 DEF Near
        <4>2. CASE Len(p) # 3
          <5>1. IsPrefix(p, y) \/ IsPrefix(y, p)
            BY <4>2 DEF Near
          <5>2. p[1] = "env" /\ p \in Leaf
            BY <3>2, <5>1, LeafShape, ComparableLeaves
          <5>3. p = Env
            BY <4>2, <5>2, LeafShape
          <5>4. IsPrefix(Env, q)
            BY <3>1, EnvBegins
          <5> QED BY <5>3, <5>4 DEF Near
        <4> QED BY <4>1, <4>2
      <3>3. q \in OnlyNamed(k)
        BY <2>5, <3>1
      <3>4. \A y \in Leaf : Len(y) = 3 /\ y[2] = q[2] => Agree(t, k, y)
        BY <3>2
      <3> QED BY <3>3, <3>4, ItemStays
    <2>6. ASSUME NEW x \in Leaf, IsPrefix(q, x)
          PROVE  Agree(t, u, x)
      <3>1. Agree(t, k, x)
        BY <1>1, <2>6
      <3>2. x # Env /\ x \notin OnlyNamed(k)
        BY <1>3, <2>4, <2>5, <2>6
      <3>3. Agree(k, pk, x)
        BY <2>1, <3>2, PruneIs
      <3>4. Agree(pk, o, x)
        BY <1>1, <2>2, <2>6, OverlayLeavesFar
      <3>5. Agree(t, o, x)
        BY <3>1, <3>3, <3>4 DEF Agree
      <3>6. CASE x = <<"replicas">> /\ kind = "Deployment"
        <4>1. Len(x) = 1 /\ x \in Seq(Words)
          BY <3>6, WordsOccur, TupleOfOne
        <4>2. q = x
          <5>1. PICK n \in 1..3 : n = Len(q)
            BY LeafShape
          <5>2. n <= Len(x) /\ (n = Len(x) => q = x)
            BY <2>6, <5>1, ComparableLeaves
          <5> QED BY <4>1, <5>1, <5>2
        <4>3. x \in DOMAIN o
          BY <3>5, <3>6, <4>2 DEF Agree
        <4>4. Agree(o, u, x)
          BY <2>3, <3>6, <4>3, DefaultedLeavesFar
        <4> QED BY <3>5, <4>4 DEF Agree
      <3>7. CASE kind # "Deployment"
        BY <2>3, <3>5, <3>7 DEF Defaulted
      <3>8. CASE x # <<"replicas">>
        <4>1. Agree(o, u, x)
          BY <2>3, <3>8, DefaultedLeavesFar
        <4> QED BY <3>5, <4>1 DEF Agree
      <3> QED BY <3>6, <3>7, <3>8
    <2>7. At(t, q) = At(u, q)
      BY <2>3, <2>6, SameBelow
    <2> QED BY <2>7 DEF Leaves
  <1> QED BY <1>2, <1>3

\* A field that an apply neither declares nor drops keeps its value.
LEMMA ValuesStay ==
    ASSUME NEW t \in Forest, NEW k \in Forest, NEW body \in Forest,
           NEW D, D \subseteq Leaf,
           \A x \in Leaf : (\A p \in D : ~Near(p, x)) => Agree(t, k, x),
           \A x \in DOMAIN t \cap DOMAIN k : k[x] = t[x],
           NEW u, u = Defaulted(Overlay(Prune(k), body)),
           NEW x \in DOMAIN t \cap DOMAIN u, x \notin D, x \notin DOMAIN body
    PROVE  u[x] = t[x]
  <1>1. PICK pk \in Forest : pk = Prune(k)
    BY PruneIsTree
  <1>2. PICK o \in Forest : o = Overlay(pk, body)
    BY OverlayIsTree
  <1>3. u = Defaulted(o) /\ u \in Forest
    BY <1>1, <1>2, DefaultedIsTree
  <1>4. x \in Leaf /\ DOMAIN body \subseteq Leaf
    BY ForestIs DEF Tree
  <1>5. /\ DOMAIN o = {q \in DOMAIN pk : \A p \in DOMAIN body : ~IsPrefix(p, q) /\ ~IsPrefix(q, p)}
                         \cup DOMAIN body
        /\ \A q \in DOMAIN o : o[q] = IF q \in DOMAIN body THEN body[q] ELSE pk[q]
    <2>1. /\ DOMAIN Overlay(pk, body) =
                {q \in DOMAIN pk : \A p \in DOMAIN body : ~IsPrefix(p, q) /\ ~IsPrefix(q, p)}
                   \cup DOMAIN body
          /\ \A q \in DOMAIN Overlay(pk, body) :
                Overlay(pk, body)[q] = IF q \in DOMAIN body THEN body[q] ELSE pk[q]
      BY OverlayIsTree, Zenon
    <2> QED BY <1>2, <2>1, Zenon
  <1>6. CASE x \in DOMAIN o
    <2>1. u[x] = o[x] /\ o[x] = pk[x] /\ x \in DOMAIN pk
      BY <1>3, <1>5, <1>6, DefaultedIsTree
    <2>2. CASE x = Env
      BY <1>3, <2>2, OneValueOnly
    <2>3. CASE x # Env
      <3>1. x \in DOMAIN k /\ pk[x] = k[x]
        BY <1>1, <2>1, <2>3, PruneIs
      <3> QED BY <2>1, <3>1
    <2> QED BY <2>2, <2>3
  \* Only a default adds it again: then it was dropped, or it never left.
  <1>7. CASE x \notin DOMAIN o
    <2>1. x = <<"replicas">>
      BY <1>3, <1>7, DefaultedIsTree
    <2>2. x[1] = "replicas" /\ Len(x) = 1
      BY <2>1, WordsOccur, TupleOfOne
    <2>3. \A p \in Leaf : IsPrefix(p, x) \/ IsPrefix(x, p) => p = x
      BY <1>4, <2>1, <2>2, LeafShape, ComparableLeaves
    <2>9. Len(x) # 3 /\ x # Env
      BY <2>2, EnvIsLeaf
    <2>4. \A p \in D : ~Near(p, x)
      <3> SUFFICES ASSUME NEW p \in D, Near(p, x) PROVE FALSE
        OBVIOUS
      <3>1. IsPrefix(p, x) \/ IsPrefix(x, p)
        BY <2>9 DEF Near
      <3>2. p = x
        BY <2>3, <3>1
      <3> QED BY <3>2
    <2>5. x \in DOMAIN k
      BY <1>4, <2>4 DEF Agree
    <2>6. x # Env /\ x \notin OnlyNamed(k)
      BY <2>9 DEF OnlyNamed
    <2>7. x \in DOMAIN pk
      BY <1>1, <1>4, <2>5, <2>6, PruneIs DEF Agree
    <2>8. x \in DOMAIN o
      BY <1>4, <1>5, <2>3, <2>7
    <2> QED BY <1>7, <2>8
  <1> QED BY <1>6, <1>7

-----------------------------------------------------------------------------
(* An apply that waits for its commit.                                     *)

DroppedOf(o, args) == {p \in o.managed[args.by] : ~ \E d \in Declared(args.body) : IsPrefix(p, d)}

\* What it was made of: the object o whose managers declared what they did.
Respects(r, o, declared) ==
    /\ \A q \in Leaves(o.tree, r.new.tree) :
          \/ \E p \in Declared(r.args.body) \cup declared[r.args.by] : Near(p, q)
          \/ q \in Leaves(o.tree, Prune(o.tree))
          \/ o = Absent /\ q = <<"replicas">>
    /\ ~r.args.force =>
          \A n \in Managers \ {r.args.by} : \A x \in o.managed[n] \ DroppedOf(o, r.args) :
             x \in DOMAIN o.tree \cap DOMAIN r.new.tree => r.new.tree[x] = o.tree[x]

Scaled(t) == kind = "Deployment" => <<"replicas">> \in DOMAIN t
ApplyFits(r) ==
    \/ r = Idle
    \/ /\ r.op # "delete" => Scaled(r.new.tree)
       /\ r.op = "apply" /\ stored.rev = r.expected => Respects(r, stored, said)
       /\ r.op = "apply" /\ r.expected = 0 => Respects(r, Absent, Nobody)
StoredScaled == stored # Absent => Scaled(stored.tree)
AInv ==
    /\ StoredScaled
    /\ stored = Absent => said = Nobody
    /\ \A s \in Servers : ApplyFits(pending[s])

LEMMA ApplyRespects ==
    ASSUME OInv, StoredScaled,
           NEW m \in Managers, NEW body \in Bodies(kind), NEW force,
           force \/ \A p \in Declared(body) : ~Contested(stored.managed, m, body, p),
           NEW r, r.args.by = m, r.args.body = body, r.args.force = force,
           r.new.tree = Defaulted(Merged(m, body).tree)
    PROVE  Respects(r, stored, said)
  <1>1. stored.tree \in Forest /\ stored.managed \in Entries /\ kind \in Kinds /\ StoredFits
    BY DEF OInv, OTyped, Object
  <1>2. body \in Forest /\ Declared(body) = DOMAIN body
    BY <1>1, BodiesAreTrees DEF Declared
  <1>3. PICK t \in Forest : t = stored.tree
    BY <1>1
  <1>4. PICK D : D = Dropped(m, body)
    OBVIOUS
  <1>5. D \subseteq stored.managed[m] /\ D \subseteq Leaf
    <2>1. D \subseteq stored.managed[m]
      BY <1>4 DEF Dropped
    <2>2. Range(Order) \subseteq Leaf
      BY PlacesAre DEF Range
    <2> QED BY <1>1, <2>1, <2>2 DEF Entries
  <1>6. PICK k \in Forest : k = Kept(m, body)
    BY <1>1, KeptIsTree
  <1>7. /\ \A x \in Leaf : (\A p \in D : ~Near(p, x)) => Agree(t, k, x)
        /\ \A x \in DOMAIN t \cap DOMAIN k : k[x] = t[x]
    BY <1>1, <1>3, <1>4, <1>6, KeptLeavesFar
  <1>8. PICK u : u = Defaulted(Overlay(Prune(k), body))
    OBVIOUS
  <1>9. r.new.tree = u
    BY <1>6, <1>8 DEF Merged
  <1>10. u \in Forest
    <2>1. PICK pk \in Forest : pk = Prune(k)
      BY PruneIsTree
    <2>2. PICK o \in Forest : o = Overlay(pk, body)
      BY <1>2, OverlayIsTree
    <2> QED BY <1>8, <2>1, <2>2, DefaultedIsTree
  <1>11. ASSUME NEW q \in Leaves(t, u), \A p \in DOMAIN body \cup said[m] : ~Near(p, q),
                ~(stored = Absent /\ q = <<"replicas">>)
         PROVE  q \in Leaves(t, Prune(t))
    <2> SUFFICES ASSUME q \notin Leaves(t, Prune(t)) PROVE FALSE
      OBVIOUS
    <2>1. q \in Leaf
      BY <1>10, ForestIs DEF Leaves, Tree
    <2>2. \A p \in D : ~Near(p, q)
      BY <1>1, <1>5, <1>11 DEF StoredFits
    <2>3. q = <<"replicas">> /\ kind = "Deployment" => q \in DOMAIN t
      BY <1>3, <1>11 DEF Scaled, StoredScaled
    <2>4. \A p \in DOMAIN body : ~Near(p, q)
      BY <1>11
    <2>5. q \notin Leaves(t, u)
      BY <1>2, <1>5, <1>7, <1>8, <2>1, <2>2, <2>3, <2>4, FarFieldsStay
    <2> QED BY <1>11, <2>5
  <1>12. ASSUME ~force, NEW n \in Managers \ {m}, NEW x \in stored.managed[n] \ D,
                x \in DOMAIN t \cap DOMAIN u
         PROVE  u[x] = t[x]
    <2>1. x \in Leaf
      BY <1>12, ForestIs DEF Tree
    <2>2. CASE x \in DOMAIN body
      <3>1. n \in Owners(stored.managed, m, x)
        BY <2>1, LeafShape, PrefixOfItself DEF Owners
      <3>2. At(t, x) = At(body, x)
        BY <1>2, <1>3, <1>12, <2>2, <3>1 DEF Contested
      <3>3. At(t, x)[x] = t[x] /\ At(body, x)[x] = body[x]
        <4>1. x \in Under(t, x) /\ x \in Under(body, x)
          BY <1>12, <2>1, <2>2, LeafShape, PrefixOfItself DEF Under
        <4> QED BY <4>1 DEF At, Restrict
      <3>4. PICK pk \in Forest : pk = Prune(k)
        BY PruneIsTree
      <3>5. PICK o \in Forest : o = Overlay(pk, body)
        BY <1>2, OverlayIsTree
      <3>6. x \in DOMAIN o /\ o[x] = body[x]
        BY <1>2, <2>2, <3>5, OverlayIsTree
      <3>7. u[x] = o[x]
        BY <1>8, <3>4, <3>5, <3>6, DefaultedIsTree
      <3> QED BY <3>2, <3>3, <3>6, <3>7
    <2>3. CASE x \notin DOMAIN body
      BY <1>2, <1>5, <1>7, <1>8, <1>12, <2>3, ValuesStay
    <2> QED BY <2>2, <2>3
  <1>13. DroppedOf(stored, r.args) = D
    BY <1>4 DEF DroppedOf, Dropped
  <1>14. \A q \in Leaves(stored.tree, r.new.tree) :
            \/ \E p \in Declared(r.args.body) \cup said[r.args.by] : Near(p, q)
            \/ q \in Leaves(stored.tree, Prune(stored.tree))
            \/ stored = Absent /\ q = <<"replicas">>
    BY <1>2, <1>3, <1>9, <1>11
  <1> QED BY <1>3, <1>9, <1>12, <1>13, <1>14 DEF Respects

LEMMA RequestKeepsApplies ==
    ASSUME OInv, AInv, NEW s \in Servers, NEW r, Request(s, r), ApplyFits(r)
    PROVE  AInv'
  <1>1. /\ kind' = kind /\ stored' = stored /\ said' = said
        /\ pending' = [pending EXCEPT ![s] = r]
    BY DEF Request
  <1>2. pending = [x \in Servers |-> pending[x]]
    BY DEF OInv, OTyped
  <1>3. \A x \in Servers : pending'[x] = IF x = s THEN r ELSE pending[x]
    BY <1>1, <1>2
  <1>4. ASSUME NEW x \in Servers
        PROVE  ApplyFits(pending[x])'
    <2>1. PICK q : q = pending'[x]
      OBVIOUS
    <2>2. ApplyFits(q)
      BY <1>3, <2>1 DEF AInv
    <2>3. ApplyFits(q)'
      BY <1>1, <2>2 DEF ApplyFits, Scaled
    <2> QED BY <2>1, <2>3
  <1>5. StoredScaled' /\ (stored' = Absent => said' = Nobody)
    BY <1>1 DEF AInv, Scaled, StoredScaled
  <1> QED BY <1>4, <1>5 DEF AInv

\* What a write asks for is defaulted.
LEMMA WriteIsScaled ==
    ASSUME OInv, NEW s \in Servers, NEW op, NEW t, NEW managed, NEW old, NEW args,
           Write(s, op, t, managed, old, args)
    PROVE  \E r : /\ Request(s, r) /\ r.op = op /\ r.args = args /\ r.expected = stored.rev
                  /\ r.new.tree = Defaulted(t) /\ Scaled(r.new.tree)
  <1>1. PICK full : full = Defaulted(t)
    OBVIOUS
  <1>2. PICK g : g = Generation(full)
    OBVIOUS
  <1>3. PICK st : st = IF ~Exists /\ HasStatus THEN "new" ELSE stored.status
    OBVIOUS
  <1>4. stored \in Object
    BY DEF OInv, OTyped
  <1>5. PICK new : new = [stored EXCEPT !.tree = full, !.managed = managed, !.gen = g, !.status = st]
    OBVIOUS
  <1>6. new.tree = full
    BY <1>4, <1>5 DEF Object
  <1>7. new = Prepared(full, managed)
    BY <1>2, <1>3, <1>5 DEF Prepared
  <1>8. PICK r : r = [op |-> op, new |-> new, seen |-> old, expected |-> stored.rev, args |-> args]
    OBVIOUS
  <1>9. r.op = op /\ r.new = new /\ r.expected = stored.rev /\ r.args = args
    BY <1>8
  <1>10. Request(s, r)
    BY <1>1, <1>7, <1>8 DEF Write
  <1>11. Scaled(full)
    <2>1. CASE kind = "Deployment" /\ <<"replicas">> \notin DOMAIN t
      <3>1. full = With(t, <<"replicas">>, "1")
        BY <1>1, <2>1 DEF Defaulted
      <3> QED BY <3>1 DEF Scaled, With
    <2>2. CASE ~(kind = "Deployment" /\ <<"replicas">> \notin DOMAIN t)
      BY <1>1, <2>2 DEF Defaulted, Scaled
    <2> QED BY <2>1, <2>2
  <1> QED BY <1>1, <1>6, <1>9, <1>10, <1>11

LEMMA WriteKeepsApplies ==
    ASSUME OInv, AInv, NEW s \in Servers, NEW op, op # "apply", NEW t, NEW managed, NEW old,
           NEW args, Write(s, op, t, managed, old, args)
    PROVE  AInv'
  <1>1. PICK r : /\ Request(s, r) /\ r.op = op /\ Scaled(r.new.tree)
    BY WriteIsScaled
  <1>2. ApplyFits(r)
    BY <1>1 DEF ApplyFits
  <1> QED BY <1>1, <1>2, RequestKeepsApplies

LEMMA ApplyKeepsApplies ==
    ASSUME OInv, AInv, NEW s \in Servers, NEW m \in Managers, ApplyRequest(s, m)
    PROVE  AInv'
  <1>1. PICK b \in Bodies(kind), force \in BOOLEAN :
           /\ force \/ \A p \in Declared(b) : ~Contested(stored.managed, m, b, p)
           /\ Write(s, "apply", Merged(m, b).tree, Merged(m, b).managed, stored,
                    [by |-> m, body |-> b, force |-> force])
    BY DEF ApplyRequest
  <1>2. PICK args : args = [by |-> m, body |-> b, force |-> force]
    OBVIOUS
  <1>3. args.by = m /\ args.body = b /\ args.force = force
    BY <1>2
  <1>4. PICK t : t = Merged(m, b).tree
    OBVIOUS
  <1>5. PICK managed : managed = Merged(m, b).managed
    OBVIOUS
  <1>6. Write(s, "apply", t, managed, stored, args)
    BY <1>1, <1>2, <1>4, <1>5
  <1>7. PICK r : /\ Request(s, r) /\ r.op = "apply" /\ r.args = args /\ r.expected = stored.rev
                 /\ r.new.tree = Defaulted(t) /\ Scaled(r.new.tree)
    BY <1>6, WriteIsScaled
  <1>8. Respects(r, stored, said)
    BY <1>1, <1>3, <1>4, <1>7, ApplyRespects DEF AInv
  <1>9. r.expected = 0 => stored = Absent
    BY <1>7 DEF OInv, StoredFits
  <1>10. stored = Absent => Respects(r, Absent, Nobody)
    BY <1>8 DEF AInv
  <1>11. ApplyFits(r)
    BY <1>7, <1>8, <1>9, <1>10 DEF ApplyFits
  <1> QED BY <1>7, <1>11, RequestKeepsApplies

LEMMA CommitKeepsApplies ==
    ASSUME OInv, AInv, NEW s \in Servers, Commit(s)
    PROVE  AInv'
  <1>1. PICK r : r = pending[s]
    OBVIOUS
  <1>2. /\ kind' = kind /\ r # Idle
        /\ \A x \in Servers : pending'[x] = IF x = s THEN Idle ELSE pending[x]
    <2>1. pending' = [pending EXCEPT ![s] = Idle] /\ kind' = kind /\ r # Idle
      BY <1>1 DEF Commit
    <2>2. pending = [x \in Servers |-> pending[x]]
      BY DEF OInv, OTyped
    <2> QED BY <2>1, <2>2
  <1>3. CASE stored.rev # r.expected
    <2>1. stored' = stored /\ said' = said
      BY <1>1, <1>3 DEF Commit, Compared
    <2>2. ASSUME NEW x \in Servers
          PROVE  ApplyFits(pending[x])'
      <3>1. PICK q : q = pending'[x]
        OBVIOUS
      <3>2. ApplyFits(q)
        BY <1>2, <3>1 DEF AInv, ApplyFits
      <3>3. ApplyFits(q)'
        BY <1>2, <2>1, <3>2 DEF ApplyFits, Scaled
      <3> QED BY <3>1, <3>3
    <2> QED BY <1>2, <2>1, <2>2 DEF AInv, Scaled, StoredScaled
  <1>4. CASE stored.rev = r.expected
    <2>1. /\ revision' = revision + 1
          /\ r.op = "delete" => stored' = Absent /\ said' = Nobody
          /\ r.op # "delete" => stored'.rev = revision + 1 /\ stored'.tree = r.new.tree
      BY <1>1, <1>4, CommitIs
    <2>2. PICK now \in Nat : now = revision
      BY DEF OInv, OTyped
    <2>3. r.op # "delete" => stored' # Absent
      BY <2>1, <2>2, AbsentIs
    <2>4. StoredScaled'
      <3>1. r.op # "delete" => Scaled(r.new.tree)
        BY <1>1, <1>2 DEF AInv, ApplyFits
      <3> QED BY <1>2, <2>1, <3>1 DEF Scaled, StoredScaled
    <2>5. ASSUME NEW x \in Servers
          PROVE  ApplyFits(pending[x])'
      <3>1. PICK q : q = pending'[x]
        OBVIOUS
      <3>2. ApplyFits(q) /\ PendingFits(q)
        BY <1>2, <3>1 DEF AInv, ApplyFits, OInv, PendingFits
      <3>3. CASE q = Idle
        BY <3>1, <3>3 DEF ApplyFits
      <3>4. CASE q # Idle
        <4>1. PICK e \in Nat : e = q.expected /\ e <= now
          BY <2>2, <3>2, <3>4 DEF PendingFits, Requested
        <4>2. stored'.rev = e => stored' = Absent /\ said' = Nobody /\ e = 0
          <5>1. CASE r.op = "delete"
            BY <2>1, <5>1, AbsentIs
          <5>2. CASE r.op # "delete"
            BY <2>1, <2>2, <4>1, <5>2
          <5> QED BY <5>1, <5>2
        <4>3. q.op = "apply" /\ e = 0 => Respects(q, Absent, Nobody)
          BY <3>2, <3>4, <4>1 DEF ApplyFits
        <4>4. q.op = "apply" /\ stored'.rev = e => Respects(q, stored', said')
          BY <4>2, <4>3
        <4>5. q.op # "delete" => Scaled(q.new.tree)'
          BY <1>2, <3>2, <3>4 DEF ApplyFits, Scaled
        <4>6. ApplyFits(q)'
          BY <4>1, <4>3, <4>4, <4>5 DEF ApplyFits
        <4> QED BY <3>1, <4>6
      <3> QED BY <3>3, <3>4
    <2> QED BY <2>1, <2>3, <2>4, <2>5 DEF AInv
  <1> QED BY <1>3, <1>4

LEMMA AInvStays ==
    ASSUME OInv, AInv, [ONext]_ovars
    PROVE  AInv'
  <1>1. ASSUME kind' = kind, stored' = stored, said' = said, pending' = pending
        PROVE  AInv'
    BY <1>1 DEF AInv, ApplyFits, Scaled, StoredScaled
  <1>2. CASE UNCHANGED ovars
    BY <1>1, <1>2 DEF ovars
  <1>3. ASSUME NEW s \in Servers, CreateRequest(s) PROVE AInv'
    <2>1. PICK b \in Bodies(kind) : Write(s, "create", b, Absent.managed, Absent, <<>>)
      BY <1>3 DEF CreateRequest
    <2> QED BY <2>1, WriteKeepsApplies
  <1>4. ASSUME NEW s \in Servers, PatchRequest(s) PROVE AInv'
    <2>1. PICK e \in Edits(kind) :
             \/ Write(s, "patch", JsonMerged(stored.tree, e), stored.managed, stored, <<>>)
             \/ Write(s, "patch", StrategicMerged(stored.tree, e), stored.managed, stored, <<>>)
      BY <1>4 DEF PatchRequest
    <2> QED BY <2>1, WriteKeepsApplies
  <1>5. ASSUME NEW s \in Servers, NEW c \in Clients, PutRequest(s, c) PROVE AInv'
    <2>1. PICK e \in Edits(kind), blind \in BOOLEAN :
             Write(s, "put", JsonMerged(copy[c].tree, e), copy[c].managed,
                   IF blind THEN stored ELSE copy[c], <<>>)
      BY <1>5 DEF PutRequest
    <2> QED BY <2>1, WriteKeepsApplies
  <1>6. ASSUME NEW s \in Servers, NEW c \in Clients, StatusRequest(s, c) PROVE AInv'
    <2>1. PICK st \in Statuses :
             Request(s, [op |-> "status", new |-> [stored EXCEPT !.status = st], seen |-> copy[c],
                         expected |-> stored.rev, args |-> <<>>])
      BY <1>6 DEF StatusRequest
    <2>2. PICK new : new = [stored EXCEPT !.status = st]
      OBVIOUS
    <2>3. new.tree = stored.tree
      BY <2>2 DEF OInv, OTyped, Object
    <2>4. PICK r : r = [op |-> "status", new |-> new, seen |-> copy[c], expected |-> stored.rev,
                        args |-> <<>>]
      OBVIOUS
    <2>5. r.op = "status" /\ r.new = new /\ Request(s, r)
      BY <2>1, <2>2, <2>4
    <2>6. Scaled(r.new.tree)
      BY <1>6, <2>3, <2>5 DEF StatusRequest, Exists, AInv, StoredScaled
    <2>7. ApplyFits(r)
      BY <2>5, <2>6 DEF ApplyFits
    <2> QED BY <2>5, <2>7, RequestKeepsApplies
  <1>7. ASSUME NEW s \in Servers, DeleteRequest(s) PROVE AInv'
    <2>1. PICK r : r = [op |-> "delete", new |-> Absent, seen |-> stored,
                        expected |-> stored.rev, args |-> <<>>]
      OBVIOUS
    <2>2. Request(s, r) /\ r.op = "delete"
      BY <1>7, <2>1 DEF DeleteRequest
    <2>3. ApplyFits(r)
      BY <2>2 DEF ApplyFits
    <2> QED BY <2>2, <2>3, RequestKeepsApplies
  <1>8. ASSUME NEW s \in Servers, Crash(s) PROVE AInv'
    <2>1. Request(s, Idle)
      BY <1>8 DEF Crash
    <2>2. ApplyFits(Idle)
      BY DEF ApplyFits
    <2> QED BY <2>1, <2>2, RequestKeepsApplies
  <1>9. ASSUME NEW c \in Clients, ClientRead(c) PROVE AInv'
    BY <1>1, <1>9 DEF ClientRead
  <1>10. CASE ONext
    BY <1>3, <1>4, <1>5, <1>6, <1>7, <1>8, <1>9, <1>10, ApplyKeepsApplies, CommitKeepsApplies DEF ONext
  <1> QED BY <1>2, <1>10

\* An apply that the registry takes respects what it is taken for.
LEMMA AppliesRespect ==
    ASSUME OInv, AInv, [ONext]_ovars, NEW s \in Servers, Applied(s)
    PROVE  Respects(pending[s], stored, said) /\ stored'.tree = pending[s].new.tree
  <1>1. PICK x \in Servers :
           /\ Commit(x) /\ stored.rev = pending[x].expected
           /\ \A y \in Servers : pending[y] # Idle /\ pending'[y] = Idle => y = x
    BY OnlyCommits DEF Applied, Committed
  <1>2. x = s
    BY <1>1 DEF Applied, Committed
  <1>3. PICK r : r = pending[s]
    OBVIOUS
  <1>4. r.op = "apply" /\ r # Idle /\ stored.rev = r.expected
    BY <1>1, <1>2, <1>3 DEF Applied, Committed
  <1>5. stored'.tree = r.new.tree
    BY <1>1, <1>2, <1>3, <1>4, CommitIs
  <1>6. Respects(r, stored, said)
    BY <1>3, <1>4 DEF AInv, ApplyFits
  <1> QED BY <1>3, <1>5, <1>6

LEMMA TouchesItsOwn ==
    ASSUME OInv, AInv, [ONext]_ovars, NEW s \in Servers, Applied(s),
           NEW q \in Leaves(stored.tree, stored'.tree)
    PROVE  \/ \E p \in Declared(pending[s].args.body) \cup said[pending[s].args.by] :
                 \/ IsPrefix(p, q) \/ IsPrefix(q, p)
                 \/ Len(p) = 3 /\ Len(q) = 3 /\ q[2] \in {"", p[2]}
           \/ q \in Leaves(stored.tree, Prune(stored.tree))
           \/ ~Exists /\ q = <<"replicas">>
  <1>1. PICK r : r = pending[s]
    OBVIOUS
  <1>2. Respects(r, stored, said) /\ stored'.tree = r.new.tree
    BY <1>1, AppliesRespect
  <1>3. \/ \E p \in Declared(r.args.body) \cup said[r.args.by] : Near(p, q)
        \/ q \in Leaves(stored.tree, Prune(stored.tree))
        \/ stored = Absent /\ q = <<"replicas">>
    BY <1>2 DEF Respects
  <1> QED BY <1>1, <1>3, Zenon DEF Near, Exists

LEMMA OverwritesNothing ==
    ASSUME OInv, AInv, [ONext]_ovars, NEW s \in Servers, Applied(s), ~pending[s].args.force,
           NEW n \in Managers \ {pending[s].args.by},
           NEW o \in stored.managed[n] \ Dropped(pending[s].args.by, pending[s].args.body),
           o \in DOMAIN stored.tree \cap DOMAIN stored'.tree
    PROVE  stored'.tree[o] = stored.tree[o]
  <1>1. PICK r : r = pending[s]
    OBVIOUS
  <1>2. Respects(r, stored, said) /\ stored'.tree = r.new.tree
    BY <1>1, AppliesRespect
  <1>3. DroppedOf(stored, r.args) = Dropped(r.args.by, r.args.body)
    BY DEF DroppedOf, Dropped
  <1> QED BY <1>1, <1>2, <1>3 DEF Respects

\* An apply changes only the fields that its manager declares or had declared
\* and the items they are in, apart from pruning and defaults; without force it
\* gives no other value to a field that another manager owns (apply.rs,
\* server_side and prune), even when that manager came in between.
THEOREM OwnershipKeptHolds == OSpec => OwnershipKept
  <1>1. OInit => AInv
    <2> SUFFICES ASSUME OInit PROVE AInv
      OBVIOUS
    <2>1. stored = Absent /\ said = Nobody /\ pending = [s \in Servers |-> Idle]
      BY DEF OInit, Nobody
    <2> QED BY <2>1 DEF AInv, ApplyFits, StoredScaled
  <1>2. OInv /\ AInv /\ [ONext]_ovars => AInv'
    BY AInvStays
  <1>3. OSpec => []AInv
    BY <1>1, <1>2, ObjectInvariantHolds, PTL DEF OSpec
  <1>4. OInv /\ AInv /\ [ONext]_ovars =>
           [\A s \in Servers : Applied(s) =>
               LET r == pending[s].args
                   mine == Declared(r.body) \cup said[r.by]
                   near(p, q) == \/ IsPrefix(p, q) \/ IsPrefix(q, p)
                                 \/ Len(p) = 3 /\ Len(q) = 3 /\ q[2] \in {"", p[2]}
               IN \A q \in Leaves(stored.tree, stored'.tree) :
                     \/ \E p \in mine : near(p, q)
                     \/ q \in Leaves(stored.tree, Prune(stored.tree))
                     \/ ~Exists /\ q = <<"replicas">>]_ovars
    BY TouchesItsOwn
  <1>5. OInv /\ AInv /\ [ONext]_ovars =>
           [\A s \in Servers : Applied(s) /\ ~pending[s].args.force =>
               LET r == pending[s].args
               IN \A n \in Managers \ {r.by} :
                  \A o \in stored.managed[n] \ Dropped(r.by, r.body) :
                     o \in DOMAIN stored.tree \cap DOMAIN stored'.tree =>
                        stored'.tree[o] = stored.tree[o]]_ovars
    BY OverwritesNothing
  <1>6. OSpec => AppliesTouchTheirOwn
    BY <1>3, <1>4, ObjectInvariantHolds, PTL DEF OSpec, AppliesTouchTheirOwn
  <1>7. OSpec => NoSilentOverwrite
    BY <1>3, <1>5, ObjectInvariantHolds, PTL DEF OSpec, NoSilentOverwrite
  <1> QED BY <1>6, <1>7 DEF OwnershipKept
=============================================================================
