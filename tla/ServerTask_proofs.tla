-------------------------- MODULE ServerTask_proofs --------------------------
(***************************************************************************)
(* The safety of ServerTask for every set of readers, every sequence of    *)
(* device type sets and any number of outages; and that of its resolve_all *)
(* (Mapping): every device type gets the nodes its author meant, and       *)
(* nothing is collected twice, for any device types, address space and     *)
(* namespace table.  Checked by TLAPS.                                     *)
(***************************************************************************)
EXTENDS ServerTask, Mapping, SequenceTheorems, FiniteSetTheorems, WellFoundedInduction, TLAPS

-----------------------------------------------------------------------------
(* The task.                                                               *)

\* The back-off stays a number of seconds between nothing and its cap.
LEMMA DoubledBackoff ==
    ASSUME NEW b \in 0 .. MaxBackoff \cup {1}
    PROVE  Smaller(2 * b, MaxBackoff) \in 0 .. MaxBackoff \cup {1}
BY BackoffAssumption DEF Smaller

\* The task starts unregistered, with no session and no readers.
LEMMA InitInv == Init => IInv
<1> SUFFICES ASSUME Init PROVE IInv
  OBVIOUS
<1>1. TypeOK
  <2>1. outages \in 0 .. MaxOutages /\ version \in 0 .. MaxVersion
        /\ seen \in 0 .. MaxVersion /\ applied \in 0 .. MaxVersion
    BY VersionAssumption, OutageAssumption DEF Init
  <2>2. fails \in [Readers -> 0 .. MAX_CONSECUTIVE_READ_FAILURES]
    BY DEF Init, MAX_CONSECUTIVE_READ_FAILURES
  <2> QED
    BY <2>1, <2>2 DEF Init, TypeOK
<1> QED
  BY <1>1 DEF Init, IInv, SessionByPlace, ReadersByPlace, AppliedIsSeen, OnlyWhenTold

\* The steps up to an active session, and the waits between attempts.
LEMMA ConnectInv ==
    ASSUME IInv,
           \/ Register \/ Top \/ Dialled \/ ConnectFails \/ Activated
           \/ ReturnEarly \/ BackedOff
    PROVE  IInv'
<1>1. pc \notin {"running", "closing"} /\ readers = {} /\ exited = {}
  BY DEF IInv, ReadersByPlace, Register, Top, Dialled, ConnectFails, Activated,
         ReturnEarly, BackedOff
<1>2. UNCHANGED <<outside, work>>
  BY DEF Register, Top, Dialled, ConnectFails, Activated, ReturnEarly, BackedOff
<1>3. TypeOK'
  <2>1. backoff' \in 0 .. MaxBackoff \cup {1}
    BY DoubledBackoff DEF IInv, TypeOK, Register, Top, Dialled, ConnectFails, Activated,
                          ReturnEarly, BackedOff
  <2>2. leaked' \in BOOLEAN
    BY DEF IInv, TypeOK, Register, Top, Dialled, ConnectFails, Activated,
           ReturnEarly, BackedOff, generation
  <2>3. /\ pc' \in {"top", "returned", "dialling", "activating", "retryWait", "resolving"}
        /\ session' \in {"none", "activating", "open"}
        /\ seen' \in 0 .. MaxVersion
        /\ applied' \in 0 .. MaxVersion
        /\ after' = after
    BY DEF IInv, TypeOK, Register, Top, Dialled, ConnectFails, Activated,
           ReturnEarly, BackedOff, generation
  <2> QED
    BY <1>2, <2>1, <2>2, <2>3 DEF IInv, TypeOK, outside, work
<1>4. SessionByPlace'
  BY DEF IInv, SessionByPlace, Register, Top, Dialled, ConnectFails, Activated,
         ReturnEarly, BackedOff, generation
<1>5. ReadersByPlace'
  BY <1>1, <1>2 DEF ReadersByPlace, work
<1>6. AppliedIsSeen'
  BY DEF AppliedIsSeen, Register, Top, Dialled, ConnectFails, Activated,
         ReturnEarly, BackedOff
<1>7. OnlyWhenTold'
  BY <1>2 DEF IInv, OnlyWhenTold, Register, Top, Dialled, ConnectFails, Activated,
              ReturnEarly, BackedOff, outside
<1> QED
  BY <1>3, <1>4, <1>5, <1>6, <1>7 DEF IInv

\* The steps of one generation before its readers run.
LEMMA ResolveInv ==
    ASSUME IInv, Resolved \/ ResolveFails \/ StartReaders
    PROVE  IInv'
<1>1. /\ pc \in {"resolving", "subscribing"}
      /\ readers = {}
      /\ exited = {}
      /\ pc' \in {"subscribing", "running"}
      /\ UNCHANGED <<outside, after, backoff, generation, exited>>
  BY DEF IInv, ReadersByPlace, Resolved, ResolveFails, StartReaders, work
<1>2. readers' \subseteq Plan[applied] /\ (readers' # {} => pc' = "running")
  BY <1>1 DEF Resolved, ResolveFails, StartReaders, work
<1>3. readers' \subseteq Readers
  BY <1>2, VersionAssumption DEF IInv, TypeOK
<1>4. fails' \in [Readers -> 0 .. MAX_CONSECUTIVE_READ_FAILURES]
  BY DEF IInv, TypeOK, Resolved, ResolveFails, StartReaders, work,
         MAX_CONSECUTIVE_READ_FAILURES
<1>5. TypeOK'
  BY <1>1, <1>3, <1>4 DEF IInv, TypeOK, outside, generation
<1>6. SessionByPlace' /\ AppliedIsSeen'
  BY <1>1 DEF IInv, SessionByPlace, AppliedIsSeen, generation
<1>7. ReadersByPlace'
  <2>1. readers' # {} => fails' = [r \in Readers |-> 0]
    BY <1>1 DEF Resolved, ResolveFails, StartReaders, work
  <2> QED
    BY <1>1, <1>2, <1>3, <2>1 DEF ReadersByPlace, generation, MAX_CONSECUTIVE_READ_FAILURES
<1>8. OnlyWhenTold'
  BY <1>1 DEF IInv, OnlyWhenTold, outside
<1> QED
  BY <1>5, <1>6, <1>7, <1>8 DEF IInv

\* The running select, whichever branch wins.
LEMMA SelectInv ==
    ASSUME IInv, Told \/ DeviceTypesChanged \/ DeviceTypesClosed \/ ReaderExited
    PROVE  IInv'
<1>1. /\ pc = "running"
      /\ pc' = "closing"
      /\ after' \in {"top", "reconnectWait", "returned"}
      /\ seen' \in {seen, version}
      /\ exited' \subseteq exited
      /\ UNCHANGED <<outside, backoff, applied, session, leaked, readers, fails>>
  BY DEF Told, DeviceTypesChanged, DeviceTypesClosed, ReaderExited, CloseThen
<1>2. TypeOK'
  BY <1>1 DEF IInv, TypeOK, outside
<1>3. SessionByPlace' /\ ReadersByPlace' /\ AppliedIsSeen'
  BY <1>1 DEF IInv, SessionByPlace, ReadersByPlace, AppliedIsSeen
<1>4. after' = "returned" => stop \/ remove
  BY DEF IInv, OnlyWhenTold, Told, DeviceTypesChanged, DeviceTypesClosed, ReaderExited,
         CloseThen
<1>5. OnlyWhenTold'
  BY <1>1, <1>4 DEF IInv, OnlyWhenTold, outside
<1> QED
  BY <1>2, <1>3, <1>5 DEF IInv

\* Shutting the readers down, and only then closing the session.
LEMMA CloseInv ==
    ASSUME IInv, ShutReaders \/ Disconnect
    PROVE  IInv'
<1>1. CASE ShutReaders
  BY <1>1 DEF ShutReaders, IInv, TypeOK, SessionByPlace, ReadersByPlace, AppliedIsSeen,
              OnlyWhenTold, outside, generation
<1>2. CASE Disconnect
  <2>1. readers = {} /\ exited = {}
    BY <1>2 DEF Disconnect, IInv, ReadersByPlace
  <2> QED
    BY <1>2, <2>1 DEF Disconnect, IInv, TypeOK, SessionByPlace, ReadersByPlace,
                      AppliedIsSeen, OnlyWhenTold, outside, work
<1> QED
  BY <1>1, <1>2

\* A reader counts failures or returns; it starts nothing.
LEMMA ReaderInv ==
    ASSUME IInv, (\E r \in Readers : ReaderStep(r)) \/ SubscriptionDropped
    PROVE  IInv'
<1>1. /\ UNCHANGED <<outside, inLoop>>
      /\ readers' \cup exited' = readers \cup exited
      /\ fails' \in [Readers -> 0 .. MAX_CONSECUTIVE_READ_FAILURES]
      /\ \A r \in readers' : fails'[r] < MAX_CONSECUTIVE_READ_FAILURES
  <2>1. CASE \E r \in Readers : ReaderStep(r)
    <3>1. PICK r \in Readers : ReaderStep(r)
      BY <2>1
    <3>2. CASE ReadOk(r)
      BY <3>2 DEF ReadOk, IInv, TypeOK, ReadersByPlace, MAX_CONSECUTIVE_READ_FAILURES
    <3>3. CASE ReadFails(r)
      <4>1. fails[r] < MAX_CONSECUTIVE_READ_FAILURES
        BY <3>3 DEF ReadFails, IInv, ReadersByPlace
      <4> QED
        BY <3>3, <4>1 DEF ReadFails, IInv, TypeOK, ReadersByPlace, MAX_CONSECUTIVE_READ_FAILURES
    <3>4. CASE ReaderCancelled(r)
      BY <3>4 DEF ReaderCancelled, IInv, TypeOK, ReadersByPlace
    <3> QED
      BY <3>1, <3>2, <3>3, <3>4 DEF ReaderStep
  <2>2. CASE SubscriptionDropped
    BY <2>2 DEF SubscriptionDropped, IInv, TypeOK, ReadersByPlace
  <2> QED
    BY <2>1, <2>2
<1>2. TypeOK'
  BY <1>1 DEF IInv, TypeOK, outside, inLoop, generation
<1>3. SessionByPlace' /\ AppliedIsSeen' /\ OnlyWhenTold'
  BY <1>1 DEF IInv, SessionByPlace, AppliedIsSeen, OnlyWhenTold, outside, inLoop, generation
<1>4. ReadersByPlace'
  BY <1>1 DEF IInv, ReadersByPlace, inLoop, generation
<1> QED
  BY <1>2, <1>3, <1>4 DEF IInv

\* The surroundings change none of what the task holds.
LEMMA EnvironmentInv ==
    ASSUME IInv, Environment
    PROVE  IInv'
<1>1. /\ UNCHANGED inTask
      /\ stop => stop'
      /\ remove => remove'
      /\ shutdown' => stop'
      /\ ~dtOpen' => shutdown'
  BY DEF IInv, OnlyWhenTold, Environment, GoesAway, ComesBack, NewDeviceTypes,
         ProviderEnds, StopTask, RemoveTask, Shutdown
<1>2. /\ up' \in BOOLEAN /\ dtOpen' \in BOOLEAN /\ stop' \in BOOLEAN
      /\ shutdown' \in BOOLEAN /\ remove' \in BOOLEAN
  BY DEF IInv, TypeOK, Environment, GoesAway, ComesBack, NewDeviceTypes,
         ProviderEnds, StopTask, RemoveTask, Shutdown
<1>3. outages' \in 0 .. MaxOutages /\ version' \in 0 .. MaxVersion
  BY OutageAssumption, VersionAssumption
     DEF IInv, TypeOK, Environment, GoesAway, ComesBack, NewDeviceTypes,
         ProviderEnds, StopTask, RemoveTask, Shutdown
<1>4. TypeOK'
  BY <1>1, <1>2, <1>3 DEF IInv, TypeOK, inTask, generation, work
<1>5. SessionByPlace' /\ ReadersByPlace' /\ AppliedIsSeen' /\ OnlyWhenTold'
  BY <1>1 DEF IInv, SessionByPlace, ReadersByPlace, AppliedIsSeen, OnlyWhenTold,
              inTask, generation, work
<1> QED
  BY <1>4, <1>5 DEF IInv

\* A step of anything keeps the invariant.
LEMMA NextInv == IInv /\ [Next]_vars => IInv'
<1> SUFFICES ASSUME IInv, [Next]_vars PROVE IInv'
  OBVIOUS
<1>1. CASE TaskStep
  BY <1>1, ConnectInv, ResolveInv, SelectInv, CloseInv DEF TaskStep
<1>2. CASE (\E r \in Readers : ReaderStep(r)) \/ SubscriptionDropped
  BY <1>2, ReaderInv
<1>3. CASE Environment
  BY <1>3, EnvironmentInv
<1>4. CASE UNCHANGED vars
  BY <1>4 DEF vars, IInv, TypeOK, SessionByPlace, ReadersByPlace, AppliedIsSeen, OnlyWhenTold
<1> QED
  BY <1>1, <1>2, <1>3, <1>4 DEF Next

-----------------------------------------------------------------------------
(* The theorems.                                                           *)

\* The task's bookkeeping is sound in every reachable state.
THEOREM Inductive == Spec => []IInv
BY InitInv, NextInv, PTL DEF Spec

\* Every variable keeps its type; the back-off never exceeds its cap once it
\* has been doubled.
THEOREM TypeCorrect == Spec => []TypeOK
<1>1. IInv => TypeOK
  BY DEF IInv
<1> QED
  BY <1>1, Inductive, PTL

\* No reader outlives its session or its generation.
THEOREM ReadersAlwaysBelong == Spec => []ReadersBelong
<1>1. IInv => ReadersBelong
  BY DEF IInv, ReadersByPlace, SessionByPlace, ReadersBelong
<1> QED
  BY <1>1, Inductive, PTL

\* A task that has returned holds no session and runs no reader.
THEOREM AlwaysReturnsClean == Spec => []ReturnsClean
<1>1. IInv => ReturnsClean
  BY DEF IInv, ReadersByPlace, SessionByPlace, ReturnsClean
<1> QED
  BY <1>1, Inductive, PTL

\* No device type set falls between reading one and waiting for the next.
THEOREM NothingEverMissed == Spec => []NothingMissed
<1>1. IInv => NothingMissed
  BY DEF IInv, AppliedIsSeen, NothingMissed
<1> QED
  BY <1>1, Inductive, PTL

\* The task ends only when told to: what Supervisor assumes of it.
THEOREM OnlyReturnsWhenTold == Spec => []ReturnsOnlyWhenTold
<1>1. IInv => ReturnsOnlyWhenTold
  BY DEF IInv, OnlyWhenTold, ReturnsOnlyWhenTold
<1> QED
  BY <1>1, Inductive, PTL

\* A task that goes on never lost hold of an event loop it spawned: the only step
\* that loses one returns, and nothing follows a return.
THEOREM SessionsAreOwned == Spec => []OwnsItsSession
<1>1. Init => OwnsItsSession
  BY DEF Init, OwnsItsSession
<1>2. ASSUME OwnsItsSession, [Next]_vars PROVE OwnsItsSession'
  <2>1. CASE TaskStep
    BY <1>2, <2>1
       DEF OwnsItsSession, TaskStep, Register, Top, Dialled, ConnectFails, Activated,
           ReturnEarly, BackedOff, Resolved, ResolveFails, StartReaders, Told,
           DeviceTypesChanged, DeviceTypesClosed, ReaderExited, CloseThen, ShutReaders,
           Disconnect, generation
  <2>2. CASE \E r \in Readers : ReaderStep(r)
    BY <1>2, <2>2 DEF OwnsItsSession, ReaderStep, ReadOk, ReadFails, ReaderCancelled,
                      inLoop, generation
  <2>3. CASE SubscriptionDropped
    BY <1>2, <2>3 DEF OwnsItsSession, SubscriptionDropped, inLoop, generation
  <2>4. CASE Environment
    BY <1>2, <2>4
       DEF OwnsItsSession, Environment, GoesAway, ComesBack, NewDeviceTypes, ProviderEnds,
           StopTask, RemoveTask, Shutdown, inTask, generation
  <2>5. CASE UNCHANGED vars
    BY <1>2, <2>5 DEF OwnsItsSession, vars
  <2> QED
    BY <1>2, <2>1, <2>2, <2>3, <2>4, <2>5 DEF Next
<1> QED
  BY <1>1, <1>2, PTL DEF Spec

-----------------------------------------------------------------------------
(* Numbers and recursion.                                                  *)

\* A set of natural numbers has a least one.
LEMMA Least ==
    ASSUME NEW S \in SUBSET Nat, S # {}
    PROVE  \E i \in S : \A k \in S : i <= k
<1>1. PICK i \in S : \A k \in S : ~ (<<k, i>> \in OpToRel(<, Nat))
  BY WFMin, NatLessThanWellFounded
<1>2. \A k \in S : ~(k < i)
  BY <1>1 DEF OpToRel
<1> QED
  BY <1>2

\* Up to n, what holds at 0 and is handed on holds throughout.
LEMMA Handed ==
    ASSUME NEW n \in Nat, NEW S, 0 \in S, \A k \in 1 .. n : k - 1 \in S => k \in S
    PROVE  0 .. n \subseteq S
<1> DEFINE T == {k \in 0 .. n : k \notin S}
<1> SUFFICES ASSUME T # {} PROVE FALSE
  OBVIOUS
<1>1. PICK i \in T : \A k \in T : i <= k
  <2>1. T \in SUBSET Nat
    OBVIOUS
  <2> QED
    BY <2>1, Least
<1>2. i \in 1 .. n /\ i - 1 \in 0 .. n /\ i - 1 \notin T
  BY <1>1
<1> QED
  BY <1>1, <1>2

\* Functions that give n values from one of V to the next.
Steps(V, n) == [V \X (1 .. n) -> V]

\* What f computes from base, one step after the other.
IsRun(f, n, base, step) == f[0] = base /\ \A k \in 1 .. n : f[k] = step[<<f[k - 1], k>>]

\* A function on 0 .. n may be given by its value at 0 and a step.
LEMMA Recursion ==
    ASSUME NEW n \in Nat, NEW V, NEW base \in V, NEW step \in Steps(V, n)
    PROVE  \E f \in [0 .. n -> V] : IsRun(f, n, base, step)
<1> DEFINE Solves(f, m) ==
              f = [k \in 0 .. m |-> IF k = 0 THEN base ELSE step[<<f[k - 1], k>>]]
           S == {m \in 0 .. n : \E f \in [0 .. m -> V] : Solves(f, m)}
<1> USE DEF Steps
<1>1. 0 \in S
  <2> DEFINE f == [k \in 0 .. 0 |-> base]
  <2>1. f \in [0 .. 0 -> V] /\ Solves(f, 0)
    OBVIOUS
  <2>2. \E h \in [0 .. 0 -> V] : Solves(h, 0)
    BY <2>1
  <2> HIDE DEF Solves
  <2> QED
    BY <2>2
<1>2. ASSUME NEW k \in 1 .. n, k - 1 \in S PROVE k \in S
  <2>1. PICK f \in [0 .. k - 1 -> V] : Solves(f, k - 1)
    BY <1>2
  <2> DEFINE g == [j \in 0 .. k |-> IF j = k THEN step[<<f[k - 1], k>>] ELSE f[j]]
  <2>2. g \in [0 .. k -> V]
    OBVIOUS
  <2>3. ASSUME NEW j \in 0 .. k
        PROVE  g[j] = IF j = 0 THEN base ELSE step[<<g[j - 1], j>>]
    <3>1. CASE j = k
      <4>1. g[k] = step[<<f[k - 1], k>>] /\ g[k - 1] = f[k - 1] /\ k # 0
        OBVIOUS
      <4> QED
        BY <3>1, <4>1
    <3>2. CASE j # k
      <4>1. j \in 0 .. k - 1 /\ g[j] = f[j]
        BY <3>2
      <4>2. f[j] = IF j = 0 THEN base ELSE step[<<f[j - 1], j>>]
        BY <2>1, <4>1
      <4>3. j # 0 => g[j - 1] = f[j - 1]
        BY <4>1
      <4> QED
        BY <4>1, <4>2, <4>3
    <3> QED
      BY <3>1, <3>2
  <2>4. Solves(g, k)
    <3>1. g = [j \in 0 .. k |-> g[j]]
      OBVIOUS
    <3> HIDE DEF g
    <3> QED
      BY <2>3, <3>1
  <2>5. \E h \in [0 .. k -> V] : Solves(h, k)
    BY <2>2, <2>4
  <2> HIDE DEF Solves
  <2> QED
    BY <2>5
<1>3. n \in S
  <2> HIDE DEF S
  <2> QED
    BY <1>1, <1>2, Handed
<1>4. PICK f \in [0 .. n -> V] : Solves(f, n)
  BY <1>3
<1>5. f[0] = base
  BY <1>4
<1>6. ASSUME NEW k \in 1 .. n PROVE f[k] = step[<<f[k - 1], k>>]
  <2>1. k \in 0 .. n /\ k # 0
    OBVIOUS
  <2> QED
    BY <1>4, <2>1
<1> QED
  BY <1>5, <1>6 DEF IsRun

-----------------------------------------------------------------------------
(* Namespaces.                                                             *)

\* The table a session has.
LEMMA TableIs ==
    ASSUME table \in Tables
    PROVE  /\ table \in Seq(Seq(STRING) \ {<<>>})
           /\ Len(table) \in Nat \ {0} /\ DOMAIN table = 1 .. Len(table)
           /\ table[1] = UaUri
           /\ \A i, j \in 1 .. Len(table) : table[i] = table[j] => i = j
           /\ \A uri \in Uris : uri \in Seq(STRING) \ {<<>>}
<1>1. /\ table \in Seq(Seq(STRING) \ {<<>>}) /\ IsInjective(table)
      /\ table # <<>> /\ table[1] = UaUri
  BY TableAssumption
<1>2. Len(table) \in Nat \ {0} /\ DOMAIN table = 1 .. Len(table)
  BY <1>1, LenProperties, EmptySeq
<1>3. \A i \in 1 .. Len(table) : table[i] \in Seq(STRING) \ {<<>>}
  BY <1>1, ElementOfSeq
<1> QED
  BY <1>1, <1>2, <1>3 DEF IsInjective, Uris

\* The index of a namespace is where its URI is.
LEMMA IndexOf ==
    ASSUME table \in Tables, NEW uri
    PROVE  /\ uri \in Uris => /\ index_of(uri) \in 0 .. Len(table) - 1
                              /\ table[index_of(uri) + 1] = uri
           /\ uri \notin Uris => index_of(uri) = -1
<1> DEFINE I == {i \in 1 .. Len(table) : table[i] = uri}
<1>1. index_of(uri) = (IF I # {} THEN Min(I) ELSE 0) - 1
  BY DEF index_of, SelectInSeq
<1>2. I = {} <=> uri \notin Uris
  BY TableIs DEF Uris
<1>3. CASE I = {}
  BY <1>1, <1>2, <1>3
<1>4. CASE I # {}
  <2>1. \E i \in I : \A k \in I : i <= k
    BY <1>4, Least, TableIs
  <2>2. Min(I) \in I
    BY <2>1 DEF Min
  <2> QED
    BY <1>1, <1>2, <1>4, <2>2, TableIs
<1> QED
  BY <1>3, <1>4

\* What stands before a colon: its number, its index, or neither.
LEMMA PrefixIs ==
    ASSUME table \in Tables, NEW parts
    PROVE  /\ Prefix(parts) \in Int
           /\ IsNumber(parts) => Prefix(parts) = Numeral[parts[1]] /\ Prefix(parts) >= 0
           /\ ~IsNumber(parts) => Prefix(parts) = index_of(parts)
           /\ Prefix(parts) >= 0 <=> IsNumber(parts) \/ parts \in Uris
<1>1. CASE IsNumber(parts)
  BY <1>1, NumeralAssumption DEF Prefix, IsNumber
<1>2. CASE ~IsNumber(parts)
  <2>1. Prefix(parts) = index_of(parts)
    BY <1>2 DEF Prefix, IsNumber
  <2> QED
    BY <1>2, <2>1, IndexOf, TableIs
<1> QED
  BY <1>1, <1>2

\* Names and nodes that are the same to the server are the same.
LEMMA NamesApart ==
    ASSUME table \in Tables, NEW m \in Nat, NEW n \in Nat, NEW x, NEW y
    PROVE  /\ NameAt([ns |-> m, name |-> x]) = NameAt([ns |-> n, name |-> y]) => m = n /\ x = y
           /\ NodeAt([ns |-> m, id |-> x]) = NodeAt([ns |-> n, id |-> y]) => m = n /\ x = y
<1>1. \A u, v : [uri |-> u, name |-> x] # [number |-> v, name |-> y]
  BY "uri" \in DOMAIN [uri |-> 0, name |-> x]
<1>2. \A u, v : [uri |-> u, id |-> x] # [number |-> v, id |-> y]
  OBVIOUS
<1>3. \A u, v : [uri |-> u, name |-> y] # [number |-> v, name |-> x]
  OBVIOUS
<1>4. \A u, v : [uri |-> u, id |-> y] # [number |-> v, id |-> x]
  OBVIOUS
<1>5. m < Len(table) /\ n < Len(table) /\ table[m + 1] = table[n + 1] => m = n
  BY TableIs
<1> QED
  BY <1>1, <1>2, <1>3, <1>4, <1>5 DEF NameAt, NodeAt

\* A slice of a sequence.
LEMMA Slice ==
    ASSUME NEW S, NEW s \in Seq(S), NEW m \in Nat \ {0}, NEW n \in Nat, n <= Len(s), m <= n + 1
    PROVE  /\ SubSeq(s, m, n) \in Seq(S)
           /\ Len(SubSeq(s, m, n)) = n - m + 1
           /\ \A i \in 1 .. n - m + 1 : SubSeq(s, m, n)[i] = s[m + i - 1]
<1>1. \A i \in m .. n : s[i] \in S
  BY ElementOfSeq, LenProperties
<1>2. m \in Int /\ n \in Int
  OBVIOUS
<1>3. /\ SubSeq(s, m, n) \in Seq(S)
      /\ Len(SubSeq(s, m, n)) = IF m <= n THEN n - m + 1 ELSE 0
      /\ \A i \in 1 .. n - m + 1 : SubSeq(s, m, n)[i] = s[m + i - 1]
  BY <1>1, <1>2, SubSeqProperties
<1> QED
  BY <1>3

\* Two texts put together can be taken apart again.
LEMMA TakenApart ==
    ASSUME NEW S, NEW u \in Seq(S), NEW v \in Seq(S)
    PROVE  /\ SubSeq(u \o v, 1, Len(u)) = u
           /\ SubSeq(u \o v, Len(u) + 1, Len(u \o v)) = v
<1>1. Len(u) \in Nat /\ Len(v) \in Nat
  BY LenProperties
<1>2. PICK t \in Seq(S) : t = u \o v
  BY ConcatProperties
<1>3. /\ Len(t) = Len(u) + Len(v)
      /\ \A i \in 1 .. Len(u) + Len(v) : t[i] = IF i <= Len(u) THEN u[i] ELSE v[i - Len(u)]
  BY <1>2, ConcatProperties
<1>4. SubSeq(t, 1, Len(u)) = u
  <2>1. PICK s : s = SubSeq(t, 1, Len(u))
    OBVIOUS
  <2>2. s \in Seq(S) /\ Len(s) = Len(u) /\ \A i \in 1 .. Len(u) : s[i] = t[i]
    <3>1. 1 \in Nat \ {0} /\ Len(u) <= Len(t) /\ 1 <= Len(u) + 1
      BY <1>1, <1>3
    <3>2. /\ SubSeq(t, 1, Len(u)) \in Seq(S)
          /\ Len(SubSeq(t, 1, Len(u))) = Len(u) - 1 + 1
          /\ \A i \in 1 .. Len(u) - 1 + 1 : SubSeq(t, 1, Len(u))[i] = t[1 + i - 1]
      BY <1>1, <3>1, Slice
    <3> QED
      BY <1>1, <2>1, <3>2
  <2>3. \A i \in 1 .. Len(s) : s[i] = u[i]
    BY <1>1, <1>3, <2>2
  <2> QED
    BY <2>1, <2>2, <2>3, SeqEqual
<1>5. SubSeq(t, Len(u) + 1, Len(t)) = v
  <2>1. PICK s : s = SubSeq(t, Len(u) + 1, Len(t))
    OBVIOUS
  <2>2. s \in Seq(S) /\ Len(s) = Len(v) /\ \A i \in 1 .. Len(v) : s[i] = t[Len(u) + i]
    <3>1. Len(u) + 1 \in Nat \ {0} /\ Len(t) \in Nat /\ Len(u) + 1 <= Len(t) + 1
      BY <1>1, <1>3
    <3>2. /\ SubSeq(t, Len(u) + 1, Len(t)) \in Seq(S)
          /\ Len(SubSeq(t, Len(u) + 1, Len(t))) = Len(t) - (Len(u) + 1) + 1
          /\ \A i \in 1 .. Len(t) - (Len(u) + 1) + 1 :
                SubSeq(t, Len(u) + 1, Len(t))[i] = t[(Len(u) + 1) + i - 1]
      BY <1>1, <3>1, Slice
    <3> QED
      BY <1>1, <1>3, <2>1, <3>2
  <2>3. \A i \in 1 .. Len(s) : s[i] = v[i]
    BY <1>1, <1>3, <2>2
  <2> QED
    BY <2>1, <2>2, <2>3, SeqEqual
<1> QED
  BY <1>2, <1>4, <1>5

\* A segment is taken apart where its author put it together.
LEMMA TextTakenApart ==
    ASSUME NEW segment \in Segments
    PROVE  /\ segment.uri \in Seq(STRING) /\ segment.name \in Seq(STRING)
           /\ Text(segment) \in Seq(STRING)
           /\ Len(segment.uri) \in Nat /\ Len(Text(segment)) \in Nat
           /\ Len(segment.uri) < Len(Text(segment))
           /\ SubSeq(Text(segment), 1, Len(segment.uri)) = segment.uri
           /\ SubSeq(Text(segment), Len(segment.uri) + 1, Len(Text(segment))) = segment.name
<1>1. segment.uri \in Seq(STRING) /\ segment.name \in Seq(STRING) /\ segment.name # <<>>
  BY DEF Segments
<1>2. Len(segment.uri) \in Nat /\ Len(segment.name) \in Nat \ {0}
  BY <1>1, LenProperties, EmptySeq
<1>3. /\ Text(segment) \in Seq(STRING)
      /\ Len(Text(segment)) = Len(segment.uri) + Len(segment.name)
  BY <1>1, ConcatProperties DEF Text
<1>4. /\ SubSeq(segment.uri \o segment.name, 1, Len(segment.uri)) = segment.uri
      /\ SubSeq(segment.uri \o segment.name, Len(segment.uri) + 1, Len(segment.uri \o segment.name)) =
            segment.name
  BY <1>1, TakenApart
<1>5. /\ SubSeq(Text(segment), 1, Len(segment.uri)) = segment.uri
      /\ SubSeq(Text(segment), Len(segment.uri) + 1, Len(Text(segment))) = segment.name
  BY <1>4, Zenon DEF Text
<1>6. Len(Text(segment)) \in Nat /\ Len(segment.uri) < Len(Text(segment))
  <2> DEFINE l == Len(Text(segment))
             u == Len(segment.uri)
             v == Len(segment.name)
  <2>1. u \in Nat /\ v \in Nat \ {0} /\ l = u + v
    BY <1>2, <1>3
  <2> HIDE DEF l, u, v
  <2>2. l \in Nat /\ u < l
    BY <2>1
  <2> QED
    BY <2>2 DEF l, u
<1> QED
  BY <1>1, <1>2, <1>3, <1>5, <1>6, Zenon

\* A segment that reads in one way is read as it is meant.
LEMMA ReadAsMeant ==
    ASSUME table \in Tables, NEW segment \in Segments, ReadsOneWay(segment)
    PROVE  /\ to_qualified_name(Text(segment)) \in [ns : Nat, name : Seq(STRING)]
           /\ NameAt(to_qualified_name(Text(segment))) = NameMeant(segment)
<1> DEFINE text == Text(segment)
           n == Len(segment.uri)
           ends == {k \in 1 .. Len(text) - 1 : Prefix(SubSeq(text, 1, k)) >= 0}
<1>1. /\ n \in Nat /\ Len(text) \in Nat /\ n < Len(text)
      /\ SubSeq(text, 1, n) = segment.uri
      /\ SubSeq(text, n + 1, Len(text)) = segment.name
      /\ segment.uri \in Seq(STRING) /\ segment.name \in Seq(STRING) /\ text \in Seq(STRING)
  BY TextTakenApart
<1>2. ends \subseteq Nat
  OBVIOUS
<1>3. \A k \in ends : k = n \/ (k < n /\ Prefix(segment.uri) >= 0)
  BY DEF ReadsOneWay
<1>4. CASE Prefix(segment.uri) >= 0
  <2>1. n # 0
    <3>1. n = 0 => segment.uri = <<>>
      BY <1>1, EmptySeq
    <3>2. ~IsNumber(<<>>) /\ <<>> \notin Uris
      BY TableIs DEF IsNumber
    <3> QED
      BY <1>4, <3>1, <3>2, PrefixIs
  <2>2. n \in ends
    <3>1. n \in 1 .. Len(text) - 1
      BY <1>1, <2>1
    <3> QED
      BY <1>1, <1>4, <3>1
  <2>3. Max(ends) = n
    <3>1. \A k \in ends : n >= k /\ k \in Nat
      BY <1>1, <1>2, <1>3
    <3> HIDE DEF ends, n
    <3>2. \A k \in ends : k >= n => k = n
      BY <1>1, <3>1
    <3> QED
      BY <2>2, <3>1, <3>2 DEF Max
  <2>4. to_qualified_name(text) = [ns |-> Prefix(segment.uri), name |-> segment.name]
    <3>1. to_qualified_name(text) =
            [ns |-> Prefix(SubSeq(text, 1, Max(ends))), name |-> SubSeq(text, Max(ends) + 1, Len(text))]
      BY <2>2 DEF to_qualified_name
    <3> HIDE DEF ends, n, text
    <3> QED
      BY <1>1, <2>3, <3>1
  <2>5. NameAt(to_qualified_name(text)) = NameMeant(segment)
    <3>1. CASE IsNumber(segment.uri)
      BY <2>4, <3>1, PrefixIs DEF NameMeant
    <3>2. CASE ~IsNumber(segment.uri)
      <4>1. segment.uri \in Uris /\ Prefix(segment.uri) = index_of(segment.uri)
        BY <1>4, <3>2, PrefixIs
      <4>2. index_of(segment.uri) < Len(table) /\ table[index_of(segment.uri) + 1] = segment.uri
        BY <4>1, IndexOf, TableIs
      <4> QED
        BY <2>4, <3>2, <4>1, <4>2 DEF NameMeant, NameAt
    <3> QED
      BY <3>1, <3>2
  <2>6. Prefix(segment.uri) \in Nat
    BY <1>4, PrefixIs
  <2> QED
    BY <1>1, <2>4, <2>5, <2>6
<1>5. CASE ~(Prefix(segment.uri) >= 0)
  <2>1. ends = {}
    <3> SUFFICES ASSUME NEW k \in ends PROVE FALSE
      OBVIOUS
    <3>1. k = n /\ Prefix(SubSeq(text, 1, k)) >= 0
      BY <1>3, <1>5
    <3> QED
      BY <1>1, <1>5, <3>1
  <2>2. to_qualified_name(text) = [ns |-> 0, name |-> text]
    BY <2>1 DEF to_qualified_name
  <2>3. NameMeant(segment) = [uri |-> UaUri, name |-> text]
    BY <1>5, PrefixIs DEF NameMeant
  <2> QED
    BY <1>1, <2>2, <2>3, TableIs DEF NameAt
<1> QED
  BY <1>4, <1>5

-----------------------------------------------------------------------------
(* Device types.                                                           *)

\* What a device type is, as the provider publishes it.
LEMMA TypeIs ==
    ASSUME loaded \in Catalogs, NEW t \in ToSet(loaded)
    PROVE  /\ DOMAIN t.mappings = 1 .. Len(t.mappings) /\ Len(t.mappings) \in Nat
           /\ DOMAIN t.overrides = 1 .. Len(t.overrides) /\ Len(t.overrides) \in Nat
           /\ \A i \in DOMAIN t.mappings : /\ t.mappings[i].path \in Paths(t) \cap Seq(Segments)
                                           /\ t.mappings[i].creations \subseteq Kinds
           /\ \A i \in DOMAIN t.overrides : t.overrides[i].path \in Paths(t) \cap Seq(Segments)
           /\ \A text \in NodeTexts(t) : text.index \in Nat
<1>1. /\ t.mappings \in Seq(ToSet(t.mappings)) /\ t.overrides \in Seq(ToSet(t.overrides))
      /\ Paths(t) \subseteq Seq(Segments)
      /\ \A text \in NodeTexts(t) : text.index \in Nat
      /\ \A entry \in ToSet(t.mappings) : entry.creations \subseteq Kinds
  BY CatalogAssumption
<1>2. /\ \A i \in DOMAIN t.mappings : t.mappings[i].path \in Paths(t) /\ t.mappings[i] \in ToSet(t.mappings)
      /\ \A i \in DOMAIN t.overrides : t.overrides[i].path \in Paths(t)
  BY DEF Paths, ToSet
<1> QED
  BY <1>1, <1>2, LenProperties

\* A path whose segments read in one way is read as it is meant.
LEMMA PathReadAsMeant ==
    ASSUME table \in Tables, NEW path \in Seq(Segments), \A i \in DOMAIN path : ReadsOneWay(path[i])
    PROVE  /\ to_qualified_names(path) \in [DOMAIN path -> [ns : Nat, name : Seq(STRING)]]
           /\ [i \in DOMAIN path |-> NameAt(to_qualified_names(path)[i])] = PathMeant(path)
<1>1. \A i \in DOMAIN path : path[i] \in Segments
  BY ElementOfSeq, LenProperties
<1>2. ASSUME NEW i \in DOMAIN path
      PROVE  /\ to_qualified_name(Text(path[i])) \in [ns : Nat, name : Seq(STRING)]
             /\ NameAt(to_qualified_name(Text(path[i]))) = NameMeant(path[i])
  BY <1>1, ReadAsMeant
<1> QED
  BY <1>2 DEF to_qualified_names, PathMeant

\* Two such paths are read alike if and only if they mean the same.
LEMMA PathsApart ==
    ASSUME table \in Tables,
           NEW p \in Seq(Segments), \A i \in DOMAIN p : ReadsOneWay(p[i]),
           NEW q \in Seq(Segments), \A i \in DOMAIN q : ReadsOneWay(q[i])
    PROVE  to_qualified_names(p) = to_qualified_names(q) <=> PathMeant(p) = PathMeant(q)
<1> DEFINE P == to_qualified_names(p)
           Q == to_qualified_names(q)
<1>1. /\ P \in [DOMAIN p -> [ns : Nat, name : Seq(STRING)]]
      /\ [i \in DOMAIN p |-> NameAt(P[i])] = PathMeant(p)
  BY PathReadAsMeant
<1>2. /\ Q \in [DOMAIN q -> [ns : Nat, name : Seq(STRING)]]
      /\ [i \in DOMAIN q |-> NameAt(Q[i])] = PathMeant(q)
  BY PathReadAsMeant
<1> HIDE DEF P, Q
<1>3. P = Q => PathMeant(p) = PathMeant(q)
  <2>1. P = Q => DOMAIN p = DOMAIN q
    BY <1>1, <1>2
  <2>2. P = Q => [i \in DOMAIN p |-> NameAt(P[i])] = [i \in DOMAIN q |-> NameAt(Q[i])]
    BY <2>1
  <2> QED
    BY <1>1, <1>2, <2>2
<1>4. ASSUME PathMeant(p) = PathMeant(q) PROVE P = Q
  <2>1. DOMAIN p = DOMAIN q
    BY <1>4 DEF PathMeant
  <2>2. ASSUME NEW i \in DOMAIN p PROVE P[i] = Q[i]
    <3>1. NameAt(P[i]) = NameAt(Q[i])
      BY <1>1, <1>2, <1>4, <2>1
    <3>2. /\ P[i].ns \in Nat /\ P[i] = [ns |-> P[i].ns, name |-> P[i].name]
          /\ Q[i].ns \in Nat /\ Q[i] = [ns |-> Q[i].ns, name |-> Q[i].name]
      BY <1>1, <1>2, <2>1
    <3>3. PICK m, x : m = P[i].ns /\ x = P[i].name
      OBVIOUS
    <3>4. PICK n, y : n = Q[i].ns /\ y = Q[i].name
      OBVIOUS
    <3>5. m \in Nat /\ n \in Nat /\ P[i] = [ns |-> m, name |-> x] /\ Q[i] = [ns |-> n, name |-> y]
      BY <3>2, <3>3, <3>4
    <3>6. NameAt([ns |-> m, name |-> x]) = NameAt([ns |-> n, name |-> y])
      BY <3>1, <3>5
    <3>7. m = n /\ x = y
      <4>1. m \in Nat /\ n \in Nat
        BY <3>5
      <4> QED
        BY <3>6, <4>1, NamesApart, Zenon
    <3> QED
      BY <3>5, <3>7
  <2> QED
    BY <1>1, <1>2, <2>1, <2>2
<1> QED
  BY <1>3, <1>4 DEF P, Q

\* An id that is written well is the node it means, and no other has that id.
LEMMA NodeReadAsMeant ==
    ASSUME table \in Tables, NEW text, text.index \in Nat
    PROVE  /\ parse_node_id(text) # NoNode <=> IsMeaningful(text)
           /\ IsMeaningful(text) => /\ parse_node_id(text) \in [ns : Nat, id : {text.id}]
                                    /\ NodeAt(parse_node_id(text)) = NodeMeant(text)
<1> DEFINE ns == IF text.uri = <<>> THEN text.index ELSE index_of(text.uri)
<1>1. /\ text.uri \in Uris => index_of(text.uri) \in Nat /\ index_of(text.uri) < Len(table)
                              /\ table[index_of(text.uri) + 1] = text.uri
      /\ text.uri \notin Uris => index_of(text.uri) = -1
  BY IndexOf, TableIs
<1>2. /\ ns \in Int
      /\ ns >= 0 <=> text.uri = <<>> \/ text.uri \in Uris
  BY <1>1
<1>3. parse_node_id(text) = IF ns < 0 \/ text.id = NoId THEN NoNode ELSE [ns |-> ns, id |-> text.id]
  BY DEF parse_node_id
<1>4. ns >= 0 => [ns |-> ns, id |-> text.id] # NoNode
  BY <1>2 DEF NoNode
<1>5. IsMeaningful(text) => NodeAt([ns |-> ns, id |-> text.id]) = NodeMeant(text)
  <2>1. CASE text.uri = <<>>
    BY <2>1 DEF NodeMeant
  <2>2. CASE text.uri # <<>> /\ IsMeaningful(text)
    <3>1. text.uri \in Uris
      BY <2>2 DEF IsMeaningful
    <3> QED
      BY <1>1, <2>2, <3>1 DEF NodeMeant, NodeAt
  <2> QED
    BY <2>1, <2>2
<1> HIDE DEF ns
<1> QED
  BY <1>2, <1>3, <1>4, <1>5 DEF IsMeaningful

\* Two such ids are one if and only if they mean one node.
LEMMA NodesApart ==
    ASSUME table \in Tables, NEW a, a.index \in Nat, IsMeaningful(a), NEW b, b.index \in Nat, IsMeaningful(b)
    PROVE  parse_node_id(a) = parse_node_id(b) <=> NodeMeant(a) = NodeMeant(b)
<1>1. PICK m \in Nat : parse_node_id(a) = [ns |-> m, id |-> a.id]
  BY NodeReadAsMeant
<1>2. PICK n \in Nat : parse_node_id(b) = [ns |-> n, id |-> b.id]
  BY NodeReadAsMeant
<1>3. NodeAt(parse_node_id(a)) = NodeMeant(a) /\ NodeAt(parse_node_id(b)) = NodeMeant(b)
  BY NodeReadAsMeant
<1>4. NodeAt([ns |-> m, id |-> a.id]) = NodeAt([ns |-> n, id |-> b.id]) => m = n /\ a.id = b.id
  BY NamesApart
<1> QED
  BY <1>1, <1>2, <1>3, <1>4

\* The root of a plan is there if its author wrote one well or none, and is what he meant.
LEMMA RootReadAsMeant ==
    ASSUME table \in Tables, loaded \in Catalogs, NEW t \in ToSet(loaded)
    PROVE  /\ plan_of(t).root # NoNode <=> (t.root # NoText => IsMeaningful(t.root))
           /\ plan_of(t).root # NoNode => NodeAt(plan_of(t).root) = RootMeant(t)
<1> DEFINE text == IF t.root = NoText THEN RootFolder ELSE t.root
<1>1. text.index \in Nat
  <2>1. t.root # NoText => t.root \in NodeTexts(t)
    BY DEF NodeTexts
  <2> QED
    BY <2>1, TypeIs DEF RootFolder
<1>2. IsMeaningful(RootFolder)
  BY IdAssumption DEF IsMeaningful, RootFolder
<1>3. plan_of(t).root = parse_node_id(text) /\ RootMeant(t) = NodeMeant(text)
  BY DEF plan_of, RootMeant
<1>4. IsMeaningful(text) <=> (t.root # NoText => IsMeaningful(t.root))
  BY <1>2
<1> HIDE DEF text
<1>5. /\ parse_node_id(text) # NoNode <=> IsMeaningful(text)
      /\ IsMeaningful(text) => NodeAt(parse_node_id(text)) = NodeMeant(text)
  BY <1>1, NodeReadAsMeant
<1> QED
  BY <1>3, <1>4, <1>5

\* The device types that are planned are those that are to be applied here.
LEMMA AppliesAsMeant ==
    ASSUME table \in Tables, loaded \in Catalogs, NEW t \in ToSet(loaded)
    PROVE  accepts_device_type(t) /\ applies(t) /\ plan_of(t).root # NoNode <=> Applicable(t)
<1>1. accepts_device_type(t) <=> (allowed # {} => t.id \in allowed)
  BY DEF accepts_device_type
<1>2. matches_server_ids(t) <=> t.serverIds = {} \/ Server \in t.serverIds \/ t.serverIds \cap known = {}
  BY DEF matches_server_ids
<1>3. ASSUME t.root # NoText, IsMeaningful(t.root)
      PROVE  (\E n \in t.nodeIds : parse_node_id(n) = parse_node_id(t.root)) <=>
                 \E n \in t.nodeIds : IsMeaningful(n) /\ NodeMeant(n) = NodeMeant(t.root)
  <2>1. t.root.index \in Nat /\ \A n \in t.nodeIds : n.index \in Nat
    <3>1. t.root \in NodeTexts(t) /\ t.nodeIds \subseteq NodeTexts(t)
      BY <1>3 DEF NodeTexts
    <3> QED
      BY <3>1, TypeIs
  <2>2. parse_node_id(t.root) # NoNode
    BY <1>3, <2>1, NodeReadAsMeant
  <2>3. ASSUME NEW n \in t.nodeIds
        PROVE  parse_node_id(n) = parse_node_id(t.root) <=>
                   IsMeaningful(n) /\ NodeMeant(n) = NodeMeant(t.root)
    <3>1. parse_node_id(n) # NoNode <=> IsMeaningful(n)
      BY <2>1, NodeReadAsMeant
    <3>2. IsMeaningful(n) =>
            (parse_node_id(n) = parse_node_id(t.root) <=> NodeMeant(n) = NodeMeant(t.root))
      BY <1>3, <2>1, NodesApart
    <3> QED
      BY <2>2, <3>1, <3>2
  <2> QED
    BY <2>3
<1>4. t.root # NoText => (parse_node_id(t.root) # NoNode <=> IsMeaningful(t.root))
  <2>1. t.root # NoText => t.root.index \in Nat
    BY TypeIs DEF NodeTexts
  <2> QED
    BY <2>1, NodeReadAsMeant
<1>5. plan_of(t).root # NoNode <=> (t.root # NoText => IsMeaningful(t.root))
  BY RootReadAsMeant
<1>6. matches_node_ids(t) /\ plan_of(t).root # NoNode <=>
        /\ t.root # NoText => IsMeaningful(t.root)
        /\ t.nodeIds # {} =>
            t.root # NoText /\ \E n \in t.nodeIds : IsMeaningful(n) /\ NodeMeant(n) = NodeMeant(t.root)
  <2>1. CASE t.nodeIds = {}
    BY <1>5, <2>1 DEF matches_node_ids
  <2>2. CASE t.nodeIds # {} /\ t.root = NoText
    BY <2>2 DEF matches_node_ids
  <2>3. CASE t.nodeIds # {} /\ t.root # NoText /\ ~IsMeaningful(t.root)
    BY <1>4, <2>3 DEF matches_node_ids
  <2>4. CASE t.nodeIds # {} /\ t.root # NoText /\ IsMeaningful(t.root)
    BY <1>3, <1>4, <1>5, <2>4 DEF matches_node_ids
  <2> QED
    BY <2>1, <2>2, <2>3, <2>4
<1> QED
  BY <1>1, <1>2, <1>6 DEF applies, Applicable

-----------------------------------------------------------------------------
(* Entries.                                                                *)

\* The first element that passes a test is the first one of those that pass it.
LEMMA FirstOf ==
    ASSUME NEW I \in SUBSET Nat
    PROVE  /\ I # {} => Min(I) \in I /\ \A k \in I : Min(I) <= k
           /\ \A j \in I : (\A k \in I : j <= k) => Min(I) = j
<1>1. \A j \in I : (\A k \in I : j <= k) => Min(I) = j
  <2> SUFFICES ASSUME NEW j \in I, \A k \in I : j <= k PROVE Min(I) = j
    OBVIOUS
  <2>1. \A i \in I : (\A k \in I : i <= k) => i = j
    OBVIOUS
  <2> QED
    BY <2>1 DEF Min
<1>2. I # {} => \E j \in I : \A k \in I : j <= k
  BY Least
<1> QED
  BY <1>1, <1>2

\* A subscription overridden by path is the one its author meant.
LEMMA DeliveredAsMeant ==
    ASSUME table \in Tables, loaded \in Catalogs, NEW t \in ToSet(loaded), IsUnambiguous(t),
           NEW i \in DOMAIN t.mappings
    PROVE  DeliveryFor(t, to_qualified_names(t.mappings[i].path)) = DeliveryMeant(t, t.mappings[i])
<1> DEFINE path == t.mappings[i].path
           names == to_qualified_names(path)
           Read == {j \in 1 .. Len(t.overrides) : /\ t.overrides[j].path # <<>>
                                                  /\ to_qualified_names(t.overrides[j].path) = names}
           Meant == {j \in 1 .. Len(t.overrides) : /\ t.overrides[j].path # <<>>
                                                   /\ PathMeant(t.overrides[j].path) = PathMeant(path)}
<1>1. path \in Paths(t) \cap Seq(Segments) /\ \A j \in DOMAIN path : ReadsOneWay(path[j])
  BY TypeIs DEF IsUnambiguous
<1>2. ASSUME NEW j \in 1 .. Len(t.overrides)
      PROVE  to_qualified_names(t.overrides[j].path) = names
                <=> PathMeant(t.overrides[j].path) = PathMeant(path)
  <2>1. t.overrides[j].path \in Paths(t) \cap Seq(Segments)
    BY TypeIs
  <2>2. \A k \in DOMAIN t.overrides[j].path : ReadsOneWay(t.overrides[j].path[k])
    BY <2>1 DEF IsUnambiguous
  <2> QED
    BY <1>1, <2>1, <2>2, PathsApart
<1>3. Read = Meant
  BY <1>2
<1>4. DeliveryFor(t, names) =
        LET first == IF Read # {} THEN Min(Read) ELSE 0
        IN  delivery_of(IF first = 0 THEN t.default ELSE t.overrides[first].type)
  BY DEF DeliveryFor, SelectInSeq
<1>5. DeliveryMeant(t, t.mappings[i]) =
        LET first == IF Meant # {} THEN Min(Meant) ELSE 0
        IN  delivery_of(IF first = 0 THEN t.default ELSE t.overrides[first].type)
  BY DEF DeliveryMeant, SelectInSeq
<1> QED
  BY <1>3, <1>4, <1>5

\* What a path leads to is what its author meant by it.
LEMMA TranslatedAsMeant ==
    ASSUME table \in Tables, loaded \in Catalogs, NEW t \in ToSet(loaded), IsUnambiguous(t),
           NEW root, NodeAt(root) = RootMeant(t),
           NEW i \in DOMAIN t.mappings, t.mappings[i].ref = NoText,
           NEW node, node = Translated(root, to_qualified_names(t.mappings[i].path))
    PROVE  NodesMeant(t, t.mappings[i]) = IF node = NoNode THEN {} ELSE {NodeAt(node)}
<1> DEFINE path == t.mappings[i].path
           names == to_qualified_names(path)
           from == [root |-> RootMeant(t), path |-> PathMeant(path)]
           targets == TargetsOf(root, names)
           first == SelectInSeq(targets, LAMBDA target : target.whole)
<1>1. path \in Seq(Segments) /\ \A j \in DOMAIN path : ReadsOneWay(path[j])
  BY TypeIs DEF IsUnambiguous
<1>2. targets = IF from \in DOMAIN Space THEN Space[from] ELSE <<>>
  <2>1. /\ names \in [DOMAIN path -> [ns : Nat, name : Seq(STRING)]]
        /\ [j \in DOMAIN path |-> NameAt(names[j])] = PathMeant(path)
    BY <1>1, PathReadAsMeant
  <2>2. [j \in DOMAIN names |-> NameAt(names[j])] = PathMeant(path)
    BY <2>1
  <2> HIDE DEF names, path
  <2> QED
    BY <2>2 DEF TargetsOf
<1>3. node = IF first = 0 \/ index_of(targets[first].uri) < 0 THEN NoNode
             ELSE [ns |-> index_of(targets[first].uri), id |-> targets[first].id]
  BY DEF Translated
<1> DEFINE Ends == {j \in DOMAIN Space[from] : Space[from][j].whole}
           It == {Space[from][j] : j \in {k \in Ends : \A l \in Ends : k <= l}}
<1>4. NodesMeant(t, t.mappings[i]) =
        IF from \in DOMAIN Space
        THEN {[uri |-> end.uri, id |-> end.id] : end \in {e \in It : e.uri \in Uris}}
        ELSE {}
  BY DEF NodesMeant
<1>5. CASE from \notin DOMAIN Space
  <2>1. targets = <<>> /\ Len(<<>>) = 0
    BY <1>2, <1>5
  <2>2. first = IF {j \in 1 .. Len(targets) : targets[j].whole} # {}
                THEN Min({j \in 1 .. Len(targets) : targets[j].whole}) ELSE 0
    BY DEF SelectInSeq
  <2>3. {j \in 1 .. Len(targets) : targets[j].whole} = {}
    BY <2>1
  <2>4. first = 0
    BY <2>2, <2>3
  <2> HIDE DEF first, targets, It
  <2> QED
    BY <1>3, <1>4, <1>5, <2>4
<1>6. CASE from \in DOMAIN Space
  <2>1. targets = Space[from] /\ DOMAIN targets = 1 .. Len(targets) /\ Len(targets) \in Nat
    <3>1. Space[from] \in Seq(ToSet(Space[from]))
      BY <1>6, SpaceAssumption
    <3> QED
      BY <1>2, <1>6, <3>1, LenProperties
  <2>2. Ends \in SUBSET Nat /\ Ends = {j \in 1 .. Len(targets) : targets[j].whole}
    <3> HIDE DEF targets, from
    <3> QED
      BY <2>1
  <2>3. first = IF Ends # {} THEN Min(Ends) ELSE 0
    <3>1. first = IF {j \in 1 .. Len(targets) : targets[j].whole} # {}
                  THEN Min({j \in 1 .. Len(targets) : targets[j].whole}) ELSE 0
      BY DEF SelectInSeq
    <3> HIDE DEF first, targets, Ends
    <3> QED
      BY <2>2, <3>1
  <2>4. CASE Ends = {}
    <3>1. first = 0 /\ It = {}
      BY <2>3, <2>4
    <3> HIDE DEF first, targets, It
    <3> QED
      BY <1>3, <1>4, <1>6, <3>1
  <2>5. CASE Ends # {}
    <3>1. first \in Ends /\ \A k \in Ends : first <= k
      BY <2>2, <2>3, <2>5, FirstOf
    <3>2. It = {targets[first]} /\ first # 0
      <4>1. \A k \in Ends : (\A l \in Ends : k <= l) => k = first
        <5> HIDE DEF Ends, first
        <5>1. \A k \in Ends : k <= first => k = first
          BY <2>2, <3>1
        <5> QED
          BY <3>1, <5>1
      <4>2. {k \in Ends : \A l \in Ends : k <= l} = {first}
        <5> HIDE DEF Ends, first
        <5> QED
          BY <3>1, <4>1
      <4>3. It = {Space[from][j] : j \in {first}}
        <5> HIDE DEF Ends, first
        <5> QED
          BY <4>2
      <4>4. first # 0
        <5> HIDE DEF Ends, first, targets
        <5> QED
          BY <2>1, <2>2, <3>1
      <4> HIDE DEF first, targets, It
      <4> QED
        BY <2>1, <4>3, <4>4
    <3> DEFINE uri == targets[first].uri
               id == targets[first].id
    <3>3. NodesMeant(t, t.mappings[i]) = IF uri \in Uris THEN {[uri |-> uri, id |-> id]} ELSE {}
      <4> HIDE DEF first, targets, It
      <4>1. {[uri |-> end.uri, id |-> end.id] : end \in {e \in {targets[first]} : e.uri \in Uris}} =
            IF uri \in Uris THEN {[uri |-> uri, id |-> id]} ELSE {}
        OBVIOUS
      <4> QED
        BY <1>4, <1>6, <3>2, <4>1
    <3>4. /\ uri \in Uris => /\ index_of(uri) \in 0 .. Len(table) - 1
                             /\ table[index_of(uri) + 1] = uri
          /\ uri \notin Uris => index_of(uri) = -1
      BY IndexOf
    <3>5. node = IF index_of(uri) < 0 THEN NoNode ELSE [ns |-> index_of(uri), id |-> id]
      <4> HIDE DEF first, targets
      <4> QED
        BY <1>3, <3>2
    <3> HIDE DEF uri, id
    <3>6. CASE uri \in Uris
      <4>1. node = [ns |-> index_of(uri), id |-> id] /\ node # NoNode
        BY <3>4, <3>5, <3>6, TableIs DEF NoNode
      <4>2. NodeAt([ns |-> index_of(uri), id |-> id]) = [uri |-> uri, id |-> id]
        BY <3>4, <3>6, TableIs DEF NodeAt
      <4> QED
        BY <3>3, <3>6, <4>1, <4>2
    <3>7. CASE uri \notin Uris
      BY <3>3, <3>4, <3>5, <3>7
    <3> QED
      BY <3>6, <3>7
  <2> QED
    BY <2>4, <2>5
<1> QED
  BY <1>5, <1>6

-----------------------------------------------------------------------------
(* Sequences of actions.                                                   *)

\* What two sequences put together are.
LEMMA Joined ==
    ASSUME NEW S, NEW u \in Seq(S), NEW v \in Seq(S)
    PROVE  /\ u \o v \in Seq(S)
           /\ Len(u) \in Nat /\ Len(v) \in Nat
           /\ DOMAIN u = 1 .. Len(u) /\ DOMAIN v = 1 .. Len(v)
           /\ DOMAIN (u \o v) = 1 .. Len(u) + Len(v)
           /\ \A i \in DOMAIN u : i \in DOMAIN (u \o v) /\ (u \o v)[i] = u[i]
           /\ \A i \in DOMAIN v : Len(u) + i \in DOMAIN (u \o v) /\ (u \o v)[Len(u) + i] = v[i]
           /\ \A i \in DOMAIN (u \o v) :
                 \/ i \in DOMAIN u
                 \/ \E j \in DOMAIN v : i = Len(u) + j
           /\ ToSet(u \o v) = ToSet(u) \cup ToSet(v)
<1>1. /\ Len(u) \in Nat /\ Len(v) \in Nat
      /\ DOMAIN u = 1 .. Len(u) /\ DOMAIN v = 1 .. Len(v)
  BY LenProperties
<1>2. PICK t \in Seq(S) : t = u \o v
  BY ConcatProperties
<1>3. /\ Len(t) = Len(u) + Len(v)
      /\ \A i \in 1 .. Len(u) + Len(v) : t[i] = IF i <= Len(u) THEN u[i] ELSE v[i - Len(u)]
  BY <1>2, ConcatProperties
<1>4. DOMAIN t = 1 .. Len(u) + Len(v)
  BY <1>3, LenProperties
<1>5. \A i \in DOMAIN u : i \in DOMAIN t /\ t[i] = u[i]
  BY <1>1, <1>3, <1>4
<1>6. \A i \in DOMAIN v : Len(u) + i \in DOMAIN t /\ t[Len(u) + i] = v[i]
  BY <1>1, <1>3, <1>4
<1>7. ASSUME NEW i \in DOMAIN t PROVE i \in DOMAIN u \/ \E j \in DOMAIN v : i = Len(u) + j
  <2>1. CASE i <= Len(u)
    BY <1>1, <1>4, <2>1
  <2>2. CASE ~(i <= Len(u))
    <3>1. i - Len(u) \in DOMAIN v /\ i = Len(u) + (i - Len(u))
      BY <1>1, <1>4, <2>2
    <3> QED
      BY <3>1
  <2> QED
    BY <2>1, <2>2
<1>8. ToSet(t) = ToSet(u) \cup ToSet(v)
  BY <1>5, <1>6, <1>7 DEF ToSet
<1> QED
  BY <1>1, <1>2, <1>4, <1>5, <1>6, <1>7, <1>8

\* Two sequences without repetition that share nothing have none together.
LEMMA JoinedApart ==
    ASSUME NEW S, NEW u \in Seq(S), NEW v \in Seq(S), IsInjective(u), IsInjective(v),
           ToSet(u) \cap ToSet(v) = {}
    PROVE  IsInjective(u \o v)
<1> DEFINE t == u \o v
<1>1. /\ \A i \in DOMAIN u : t[i] = u[i]
      /\ \A i \in DOMAIN v : t[Len(u) + i] = v[i]
      /\ \A i \in DOMAIN t : i \in DOMAIN u \/ \E j \in DOMAIN v : i = Len(u) + j
  BY Joined
<1>2. \A i \in DOMAIN u, j \in DOMAIN v : u[i] # v[j]
  BY DEF ToSet
<1> HIDE DEF t
<1>3. ASSUME NEW a \in DOMAIN t, NEW b \in DOMAIN t, t[a] = t[b] PROVE a = b
  <2>1. CASE a \in DOMAIN u /\ b \in DOMAIN u
    BY <1>1, <1>3, <2>1 DEF IsInjective
  <2>2. CASE \E i \in DOMAIN v, j \in DOMAIN v : a = Len(u) + i /\ b = Len(u) + j
    <3>1. PICK i \in DOMAIN v, j \in DOMAIN v : a = Len(u) + i /\ b = Len(u) + j
      BY <2>2
    <3>2. v[i] = v[j]
      BY <1>1, <1>3, <3>1
    <3>3. i = j
      BY <3>2 DEF IsInjective
    <3> QED
      BY <3>1, <3>3
  <2> QED
    BY <1>1, <1>2, <1>3, <2>1, <2>2
<1> QED
  BY <1>3 DEF IsInjective, t

\* What actions are, and those of a mapping.
Actions == [mapping : Nat, kind : Kinds]

\* A mapping's actions are of the kinds it creates, each once.
LEMMA ActionsOf ==
    ASSUME NEW t, NEW i \in Nat, t.mappings[i].creations \subseteq Kinds
    PROVE  /\ actions_of(t, i) \in Seq(Actions)
           /\ IsInjective(actions_of(t, i))
           /\ ToSet(actions_of(t, i)) = {[mapping |-> i, kind |-> k] : k \in t.mappings[i].creations}
<1> DEFINE created == t.mappings[i].creations
           Action(kind) == IF kind \in created THEN <<[mapping |-> i, kind |-> kind]>> ELSE <<>>
<1>1. ASSUME NEW kind \in Kinds
      PROVE  /\ Action(kind) \in Seq(Actions) /\ IsInjective(Action(kind))
             /\ ToSet(Action(kind)) = {[mapping |-> i, kind |-> k] : k \in created \cap {kind}}
  <2>1. [mapping |-> i, kind |-> kind] \in Actions
    BY DEF Actions
  <2>2. CASE kind \in created
    <3> DEFINE a == [mapping |-> i, kind |-> kind]
    <3>1. Action(kind) = <<a>> /\ {[mapping |-> i, kind |-> k] : k \in created \cap {kind}} = {a}
      BY <2>2
    <3> HIDE DEF Action, a
    <3>2. <<a>> \in Seq(Actions) /\ DOMAIN <<a>> = {1} /\ <<a>>[1] = a
      BY <2>1 DEF a
    <3> QED
      BY <3>1, <3>2 DEF IsInjective, ToSet
  <2>3. CASE kind \notin created
    <3>1. Action(kind) = <<>> /\ {[mapping |-> i, kind |-> k] : k \in created \cap {kind}} = {}
      BY <2>3
    <3> HIDE DEF Action
    <3>2. <<>> \in Seq(Actions) /\ DOMAIN <<>> = {}
      OBVIOUS
    <3> QED
      BY <3>1, <3>2 DEF IsInjective, ToSet
  <2> QED
    BY <2>2, <2>3
<1> DEFINE u == Action("measurement")
           v == Action("event")
           w == Action("alarm")
<1>2. actions_of(t, i) = (u \o v) \o w
  BY DEF actions_of
<1>3. /\ u \in Seq(Actions) /\ IsInjective(u)
      /\ ToSet(u) = {[mapping |-> i, kind |-> k] : k \in created \cap {"measurement"}}
  BY <1>1 DEF Kinds
<1>4. /\ v \in Seq(Actions) /\ IsInjective(v)
      /\ ToSet(v) = {[mapping |-> i, kind |-> k] : k \in created \cap {"event"}}
  BY <1>1 DEF Kinds
<1>5. /\ w \in Seq(Actions) /\ IsInjective(w)
      /\ ToSet(w) = {[mapping |-> i, kind |-> k] : k \in created \cap {"alarm"}}
  BY <1>1 DEF Kinds
<1> HIDE DEF u, v, w
<1>6. /\ u \o v \in Seq(Actions) /\ ToSet(u \o v) = ToSet(u) \cup ToSet(v)
      /\ IsInjective(u \o v)
  <2>1. ToSet(u) \cap ToSet(v) = {}
    BY <1>3, <1>4
  <2> QED
    BY <1>3, <1>4, <2>1, Joined, JoinedApart
<1>7. /\ (u \o v) \o w \in Seq(Actions)
      /\ ToSet((u \o v) \o w) = ToSet(u) \cup ToSet(v) \cup ToSet(w)
      /\ IsInjective((u \o v) \o w)
  <2>1. ToSet(u \o v) \cap ToSet(w) = {}
    BY <1>3, <1>4, <1>5, <1>6
  <2>2. PICK uv : uv = u \o v
    OBVIOUS
  <2>3. uv \in Seq(Actions) /\ IsInjective(uv) /\ ToSet(uv) = ToSet(u) \cup ToSet(v)
        /\ ToSet(uv) \cap ToSet(w) = {}
    BY <1>6, <2>1, <2>2
  <2>4. uv \o w \in Seq(Actions) /\ ToSet(uv \o w) = ToSet(uv) \cup ToSet(w)
    BY <1>5, <2>3, Joined
  <2>5. IsInjective(uv \o w)
    BY <1>5, <2>3, JoinedApart
  <2> QED
    BY <2>2, <2>3, <2>4, <2>5, Zenon
<1>8. ToSet(u) \cup ToSet(v) \cup ToSet(w) = {[mapping |-> i, kind |-> k] : k \in created}
  BY <1>3, <1>4, <1>5 DEF Kinds
<1> QED
  BY <1>2, <1>7, <1>8

-----------------------------------------------------------------------------
(* Nodes.                                                                  *)

\* Nodes with ids of I, delivered in ways of D.
Nodes(I, D) == Seq([id : I, delivery : D, actions : Seq(Actions)])

\* An entry joins a node or becomes the last one.
Joins(nodes, entry, j) ==
    /\ Alike(nodes[j], NodeOf(entry))
    /\ DOMAIN Bind(nodes, entry) = DOMAIN nodes
    /\ Bind(nodes, entry)[j] = [id |-> nodes[j].id, delivery |-> nodes[j].delivery,
                                actions |-> nodes[j].actions \o entry.actions]
    /\ \A k \in DOMAIN nodes : k # j => Bind(nodes, entry)[k] = nodes[k]

IsAdded(nodes, entry) ==
    /\ \A j \in DOMAIN nodes : ~Alike(nodes[j], NodeOf(entry))
    /\ DOMAIN Bind(nodes, entry) = DOMAIN nodes \cup {Len(nodes) + 1}
    /\ Len(nodes) + 1 \notin DOMAIN nodes
    /\ Bind(nodes, entry)[Len(nodes) + 1] = NodeOf(entry)
    /\ \A k \in DOMAIN nodes : Bind(nodes, entry)[k] = nodes[k]

LEMMA BindIs ==
    ASSUME NEW I, NEW D, NEW nodes \in Nodes(I, D),
           NEW entry, entry.ref \in I, entry.delivery \in D, entry.actions \in Seq(Actions)
    PROVE  /\ Bind(nodes, entry) \in Nodes(I, D)
           /\ (\E j \in DOMAIN nodes : Joins(nodes, entry, j)) \/ IsAdded(nodes, entry)
<1> DEFINE R == [id : I, delivery : D, actions : Seq(Actions)]
           E == {j \in 1 .. Len(nodes) : Alike(nodes[j], NodeOf(entry))}
<1>1. nodes \in Seq(R) /\ Len(nodes) \in Nat /\ DOMAIN nodes = 1 .. Len(nodes)
  BY LenProperties DEF Nodes
<1>2. \A j \in DOMAIN nodes : nodes[j] \in R
  BY <1>1, ElementOfSeq
<1>3. NodeOf(entry) \in R
  BY DEF NodeOf
<1>4. Bind(nodes, entry) =
        IF (IF E # {} THEN Min(E) ELSE 0) > 0
        THEN [nodes EXCEPT ![IF E # {} THEN Min(E) ELSE 0].actions = @ \o entry.actions]
        ELSE Append(nodes, NodeOf(entry))
  BY DEF Bind, SelectInSeq
<1>5. CASE E # {}
  <2>1. PICK j : j = Min(E)
    OBVIOUS
  <2>2. j \in E /\ j \in DOMAIN nodes /\ j > 0
    <3>1. E \in SUBSET Nat
      OBVIOUS
    <3>2. j \in E
      BY <1>5, <2>1, <3>1, FirstOf
    <3> QED
      BY <1>1, <3>2
  <2>3. Bind(nodes, entry) = [nodes EXCEPT ![j].actions = @ \o entry.actions]
    <3> HIDE DEF E
    <3> QED
      BY <1>4, <1>5, <2>1, <2>2
  <2>4. nodes[j] \in R /\ nodes[j].actions \o entry.actions \in Seq(Actions)
    BY <1>2, <2>2, Joined
  <2>5. [nodes[j] EXCEPT !.actions = @ \o entry.actions] =
            [id |-> nodes[j].id, delivery |-> nodes[j].delivery,
             actions |-> nodes[j].actions \o entry.actions]
    <3> DEFINE joined == nodes[j].actions \o entry.actions
    <3>1. nodes[j] \in R
      BY <2>4
    <3> HIDE DEF joined
    <3>2. [nodes[j] EXCEPT !.actions = joined] =
            [id |-> nodes[j].id, delivery |-> nodes[j].delivery, actions |-> joined]
      BY <3>1
    <3> QED
      BY <3>2 DEF joined
  <2> DEFINE new == [id |-> nodes[j].id, delivery |-> nodes[j].delivery,
                     actions |-> nodes[j].actions \o entry.actions]
  <2>6. Bind(nodes, entry) = [nodes EXCEPT ![j] = new] /\ new \in R
    BY <2>2, <2>3, <2>4, <2>5
  <2> HIDE DEF R
  <2>7. Joins(nodes, entry, j)
    <3>1. Alike(nodes[j], NodeOf(entry))
      BY <2>2
    <3> HIDE DEF new
    <3>2. /\ DOMAIN Bind(nodes, entry) = DOMAIN nodes
          /\ Bind(nodes, entry)[j] = new
          /\ \A k \in DOMAIN nodes : k # j => Bind(nodes, entry)[k] = nodes[k]
      BY <2>2, <2>6
    <3> QED
      BY <3>1, <3>2 DEF Joins, new
  <2>8. Bind(nodes, entry) \in Nodes(I, D)
    <3> HIDE DEF new
    <3>1. [nodes EXCEPT ![j] = new] \in Seq(R)
      BY <1>1, <2>2, <2>6, ExceptSeq
    <3> QED
      BY <2>6, <3>1 DEF Nodes, R
  <2> QED
    BY <2>2, <2>7, <2>8
<1>6. CASE E = {}
  <2>1. Bind(nodes, entry) = Append(nodes, NodeOf(entry))
    BY <1>4, <1>6
  <2>2. \A j \in DOMAIN nodes : ~Alike(nodes[j], NodeOf(entry))
    BY <1>1, <1>6
  <2> HIDE DEF R
  <2>3. /\ Append(nodes, NodeOf(entry)) \in Seq(R)
        /\ Len(Append(nodes, NodeOf(entry))) = Len(nodes) + 1
        /\ \A k \in 1 .. Len(nodes) : Append(nodes, NodeOf(entry))[k] = nodes[k]
        /\ Append(nodes, NodeOf(entry))[Len(nodes) + 1] = NodeOf(entry)
    BY <1>1, <1>3, AppendProperties
  <2>4. DOMAIN Append(nodes, NodeOf(entry)) = 1 .. Len(nodes) + 1
    BY <2>3, LenProperties
  <2>5. 1 .. Len(nodes) + 1 = DOMAIN nodes \cup {Len(nodes) + 1} /\ Len(nodes) + 1 \notin DOMAIN nodes
    BY <1>1
  <2>6. IsAdded(nodes, entry)
    BY <1>1, <2>1, <2>2, <2>3, <2>4, <2>5 DEF IsAdded
  <2> QED
    BY <2>1, <2>3, <2>6 DEF Nodes, R
<1> QED
  BY <1>5, <1>6

\* A node's actions are a sequence of actions.
LEMMA NodeIs ==
    ASSUME NEW I, NEW D, NEW nodes \in Nodes(I, D), NEW j \in DOMAIN nodes
    PROVE  nodes[j].actions \in Seq(Actions)
<1> DEFINE A == Seq(Actions)
           R == [id : I, delivery : D, actions : A]
<1>1. nodes \in Seq(R)
  BY DEF Nodes
<1> HIDE DEF R
<1>2. nodes[j] \in R
  BY <1>1, ElementOfSeq, LenProperties
<1> HIDE DEF A
<1>3. nodes[j].actions \in A
  BY <1>2 DEF R
<1> QED
  BY <1>3 DEF A

\* What is collected by a node, of its actions as a set.
LEMMA CollectedByIs ==
    ASSUME NEW node
    PROVE  CollectedBy(node) =
              {[node |-> NodeAt(node.id), mode |-> node.delivery.mode,
                schedule |-> read_schedule_of(node.delivery), mapping |-> a.mapping, kind |-> a.kind] :
                  a \in ToSet(node.actions)}
BY DEF CollectedBy, ToSet

\* An entry adds what is collected for it, and nothing else.
LEMMA BindCollects ==
    ASSUME NEW I, NEW D, NEW nodes \in Nodes(I, D),
           NEW entry, entry.ref \in I, entry.delivery \in D, entry.actions \in Seq(Actions)
    PROVE  Collected(Bind(nodes, entry)) = Collected(nodes) \cup CollectedBy(NodeOf(entry))
<1>1. CASE \E j \in DOMAIN nodes : Joins(nodes, entry, j)
  <2>1. PICK j \in DOMAIN nodes : Joins(nodes, entry, j)
    BY <1>1
  <2>2. nodes[j].actions \in Seq(Actions)
    BY NodeIs
  <2>3. ToSet(nodes[j].actions \o entry.actions) = ToSet(nodes[j].actions) \cup ToSet(entry.actions)
    BY <2>2, Joined
  <2>4. CollectedBy(Bind(nodes, entry)[j]) = CollectedBy(nodes[j]) \cup CollectedBy(NodeOf(entry))
    <3> DEFINE F(a) == [node |-> NodeAt(nodes[j].id), mode |-> nodes[j].delivery.mode,
                        schedule |-> read_schedule_of(nodes[j].delivery),
                        mapping |-> a.mapping, kind |-> a.kind]
    <3>1. CollectedBy(nodes[j]) = {F(a) : a \in ToSet(nodes[j].actions)}
      BY CollectedByIs
    <3>2. CollectedBy(NodeOf(entry)) = {F(a) : a \in ToSet(entry.actions)}
      <4>1. /\ NodeOf(entry).actions = entry.actions
            /\ NodeOf(entry).id = nodes[j].id
            /\ NodeOf(entry).delivery.mode = nodes[j].delivery.mode
            /\ read_schedule_of(NodeOf(entry).delivery) = read_schedule_of(nodes[j].delivery)
        BY <2>1 DEF Joins, Alike, NodeOf
      <4> QED
        BY <4>1, CollectedByIs
    <3>3. CollectedBy(Bind(nodes, entry)[j]) =
            {F(a) : a \in ToSet(nodes[j].actions) \cup ToSet(entry.actions)}
      <4>1. /\ Bind(nodes, entry)[j].id = nodes[j].id
            /\ Bind(nodes, entry)[j].delivery = nodes[j].delivery
            /\ Bind(nodes, entry)[j].actions = nodes[j].actions \o entry.actions
        <5>1. PICK joined : joined = nodes[j].actions \o entry.actions
          OBVIOUS
        <5>2. Bind(nodes, entry)[j] = [id |-> nodes[j].id, delivery |-> nodes[j].delivery,
                                       actions |-> joined]
          BY <2>1, <5>1, Zenon DEF Joins
        <5>3. /\ Bind(nodes, entry)[j].id = nodes[j].id
              /\ Bind(nodes, entry)[j].delivery = nodes[j].delivery
              /\ Bind(nodes, entry)[j].actions = joined
          BY <5>2
        <5> QED
          BY <5>1, <5>3, Zenon
      <4> QED
        BY <2>3, <4>1, CollectedByIs
    <3> HIDE DEF F
    <3> QED
      BY <3>1, <3>2, <3>3
  <2>5. \A k \in DOMAIN nodes : k # j => CollectedBy(Bind(nodes, entry)[k]) = CollectedBy(nodes[k])
    BY <2>1 DEF Joins
  <2>6. DOMAIN Bind(nodes, entry) = DOMAIN nodes
    BY <2>1 DEF Joins
  <2> QED
    BY <2>4, <2>5, <2>6 DEF Collected
<1>2. CASE IsAdded(nodes, entry)
  BY <1>2 DEF IsAdded, Collected
<1> QED
  BY <1>1, <1>2, BindIs

\* Nodes of the first mappings, up to the n-th.
IsUpTo(nodes, n) ==
    /\ IsApart(nodes)
    /\ IsInOnePlace(nodes)
    /\ \A j \in DOMAIN nodes : \A a \in DOMAIN nodes[j].actions : nodes[j].actions[a].mapping <= n

\* With the next mapping's entry, nodes are still apart and actions in one place.
LEMMA BindKeeps ==
    ASSUME NEW I, NEW D, NEW nodes \in Nodes(I, D), NEW n \in Nat \ {0}, IsUpTo(nodes, n - 1),
           NEW entry, entry.ref \in I, entry.delivery \in D, entry.actions \in Seq(Actions),
           IsInjective(entry.actions), \A a \in DOMAIN entry.actions : entry.actions[a].mapping = n
    PROVE  IsUpTo(Bind(nodes, entry), n)
<1> DEFINE new == Bind(nodes, entry)
<1>1. ASSUME NEW j \in DOMAIN nodes
      PROVE  /\ nodes[j].actions \in Seq(Actions)
             /\ \A a \in DOMAIN nodes[j].actions : /\ nodes[j].actions[a].mapping \in Nat
                                                   /\ nodes[j].actions[a].mapping < n
  <2>1. nodes[j].actions \in Seq(Actions)
    BY NodeIs
  <2>2. \A a \in DOMAIN nodes[j].actions : nodes[j].actions[a] \in Actions
    BY <2>1, ElementOfSeq, LenProperties
  <2>3. \A a \in DOMAIN nodes[j].actions : nodes[j].actions[a].mapping <= n - 1
    BY DEF IsUpTo
  <2> QED
    BY <2>1, <2>2, <2>3 DEF Actions
<1>2. CASE \E j \in DOMAIN nodes : Joins(nodes, entry, j)
  <2>1. PICK j \in DOMAIN nodes : Joins(nodes, entry, j)
    BY <1>2
  <2> DEFINE u == nodes[j].actions
             v == entry.actions
  <2>2. /\ DOMAIN new = DOMAIN nodes
        /\ new[j] = [id |-> nodes[j].id, delivery |-> nodes[j].delivery, actions |-> u \o v]
        /\ \A k \in DOMAIN nodes : k # j => new[k] = nodes[k]
    BY <2>1 DEF Joins
  <2> HIDE DEF new
  <2>11. u \in Seq(Actions) /\ v \in Seq(Actions)
    BY <1>1
  <2> HIDE DEF u, v
  <2>3. /\ Len(u) \in Nat
        /\ \A a \in DOMAIN u : (u \o v)[a] = u[a]
        /\ \A a \in DOMAIN v : (u \o v)[Len(u) + a] = v[a]
        /\ \A a \in DOMAIN (u \o v) : a \in DOMAIN u \/ \E b \in DOMAIN v : a = Len(u) + b
    BY <2>11, Joined
  <2>4. \A k \in DOMAIN nodes : new[k].id = nodes[k].id /\ new[k].delivery = nodes[k].delivery
    BY <2>2
  <2>5. IsApart(new)
    BY <2>2, <2>4 DEF IsUpTo, IsApart, Alike
  <2> DEFINE IsOld(k, a) == a \in DOMAIN nodes[k].actions /\ new[k].actions[a] = nodes[k].actions[a]
             IsNew(k, a) == k = j /\ \E b \in DOMAIN v : a = Len(u) + b /\ new[k].actions[a] = v[b]
  <2>6. ASSUME NEW k \in DOMAIN new, NEW a \in DOMAIN new[k].actions
        PROVE  IsOld(k, a) \/ IsNew(k, a)
    <3>1. CASE k # j
      BY <2>2, <3>1
    <3>2. CASE k = j
      <4>1. PICK joined : joined = u \o v
        OBVIOUS
      <4>2. new[j] = [id |-> nodes[j].id, delivery |-> nodes[j].delivery, actions |-> joined]
        BY <2>2, <4>1, Zenon
      <4>3. new[j].actions = joined
        BY <4>2
      <4>4. /\ \A c \in DOMAIN u : joined[c] = u[c]
            /\ \A c \in DOMAIN v : joined[Len(u) + c] = v[c]
            /\ \A c \in DOMAIN joined : c \in DOMAIN u \/ \E b \in DOMAIN v : c = Len(u) + b
        BY <2>3, <4>1, Zenon
      <4>5. a \in DOMAIN joined
        BY <3>2, <4>3
      <4>6. CASE a \in DOMAIN u
        BY <3>2, <4>3, <4>4, <4>6 DEF u
      <4>7. CASE \E b \in DOMAIN v : a = Len(u) + b
        BY <3>2, <4>3, <4>4, <4>7
      <4> QED
        BY <4>4, <4>5, <4>6, <4>7
    <3> QED
      BY <3>1, <3>2
  <2>7. ASSUME NEW k \in DOMAIN nodes, NEW a, IsOld(k, a)
        PROVE  new[k].actions[a].mapping \in Nat /\ new[k].actions[a].mapping < n
    BY <1>1, <2>7
  <2>8. ASSUME NEW k, NEW a, IsNew(k, a)
        PROVE  new[k].actions[a].mapping = n
    BY <2>8 DEF v
  <2>9. \A k \in DOMAIN new : \A a \in DOMAIN new[k].actions : new[k].actions[a].mapping <= n
    <3> SUFFICES ASSUME NEW k \in DOMAIN new, NEW a \in DOMAIN new[k].actions
                 PROVE  new[k].actions[a].mapping <= n
      OBVIOUS
    <3> HIDE DEF IsOld, IsNew
    <3> QED
      BY <2>2, <2>6, <2>7, <2>8
  <2>10. IsInOnePlace(new)
    <3> SUFFICES ASSUME NEW k \in DOMAIN new, NEW l \in DOMAIN new,
                        NEW a \in DOMAIN new[k].actions, NEW b \in DOMAIN new[l].actions,
                        new[k].actions[a] = new[l].actions[b]
                 PROVE  k = l /\ a = b
      BY DEF IsInOnePlace
    <3>1. (IsOld(k, a) \/ IsNew(k, a)) /\ (IsOld(l, b) \/ IsNew(l, b))
      BY <2>6
    <3>2. CASE IsOld(k, a) /\ IsOld(l, b)
      <4>1. k \in DOMAIN nodes /\ l \in DOMAIN nodes
        BY <2>2
      <4>2. nodes[k].actions[a] = nodes[l].actions[b]
        BY <3>2
      <4>3. a \in DOMAIN nodes[k].actions /\ b \in DOMAIN nodes[l].actions
        BY <3>2
      <4>4. IsInOnePlace(nodes)
        BY DEF IsUpTo
      <4>5. \A c \in DOMAIN nodes[k].actions, d \in DOMAIN nodes[l].actions :
                nodes[k].actions[c] = nodes[l].actions[d] => k = l /\ c = d
        BY <4>1, <4>4, Zenon DEF IsInOnePlace
      <4> QED
        BY <4>2, <4>3, <4>5, Zenon
    <3>3. CASE IsNew(k, a) /\ IsNew(l, b)
      <4>1. PICK c \in DOMAIN v, d \in DOMAIN v :
                a = Len(u) + c /\ b = Len(u) + d /\ new[k].actions[a] = v[c] /\ new[l].actions[b] = v[d]
        BY <3>3
      <4>2. c = d
        BY <4>1 DEF v, IsInjective
      <4> QED
        BY <3>3, <4>1, <4>2
    <3>4. ~(IsOld(k, a) /\ IsNew(l, b)) /\ ~(IsNew(k, a) /\ IsOld(l, b))
      <4> HIDE DEF IsOld, IsNew
      <4> QED
        BY <2>2, <2>7, <2>8
    <3> QED
      BY <3>1, <3>2, <3>3, <3>4
  <2> QED
    BY <2>5, <2>9, <2>10 DEF IsUpTo, new
<1>3. CASE IsAdded(nodes, entry)
  <2> DEFINE e == Len(nodes) + 1
  <2>1. /\ DOMAIN new = DOMAIN nodes \cup {e} /\ e \notin DOMAIN nodes
        /\ new[e] = NodeOf(entry)
        /\ \A k \in DOMAIN nodes : new[k] = nodes[k]
        /\ \A k \in DOMAIN nodes : ~Alike(nodes[k], NodeOf(entry))
    BY <1>3 DEF IsAdded
  <2>2. NodeOf(entry).actions = entry.actions
    BY DEF NodeOf
  <2> HIDE DEF new, e
  <2>3. IsApart(new)
    <3>1. \A k \in DOMAIN nodes : ~Alike(NodeOf(entry), nodes[k])
      BY <2>1 DEF Alike
    <3> QED
      BY <2>1, <3>1 DEF IsUpTo, IsApart
  <2>4. \A k \in DOMAIN new : \A a \in DOMAIN new[k].actions : new[k].actions[a].mapping <= n
    BY <1>1, <2>1, <2>2
  <2>5. IsInOnePlace(new)
    <3> SUFFICES ASSUME NEW k \in DOMAIN new, NEW l \in DOMAIN new,
                        NEW a \in DOMAIN new[k].actions, NEW b \in DOMAIN new[l].actions,
                        new[k].actions[a] = new[l].actions[b]
                 PROVE  k = l /\ a = b
      BY DEF IsInOnePlace
    <3>1. CASE k \in DOMAIN nodes /\ l \in DOMAIN nodes
      BY <2>1, <3>1 DEF IsUpTo, IsInOnePlace
    <3>2. CASE k = e /\ l = e
      BY <2>1, <2>2, <3>2 DEF IsInjective
    <3>3. ~(k \in DOMAIN nodes /\ l = e) /\ ~(k = e /\ l \in DOMAIN nodes)
      BY <1>1, <2>1, <2>2
    <3> QED
      BY <2>1, <3>1, <3>2, <3>3
  <2> QED
    BY <2>3, <2>4, <2>5 DEF IsUpTo, new
<1> QED
  BY <1>2, <1>3, BindIs

\* An entry made of the i-th mapping.
IsEntry(entry, i) ==
    /\ entry.actions \in Seq(Actions)
    /\ IsInjective(entry.actions)
    /\ \A a \in DOMAIN entry.actions : entry.actions[a].mapping = i

\* The nodes of a device type are apart, and are what its entries with a node are
\* collected for.
LEMMA BoundIs ==
    ASSUME NEW entries, NEW n \in Nat, Len(entries) = n, DOMAIN entries = 1 .. n,
           \A i \in 1 .. n : IsEntry(entries[i], i)
    PROVE  LET nodes == Bound(entries)[Len(entries)]
           IN  /\ IsApart(nodes) /\ IsInOnePlace(nodes)
               /\ Collected(nodes) =
                    UNION {CollectedBy(NodeOf(entries[i])) : i \in {j \in 1 .. n : entries[j].ref # NoNode}}
<1> DEFINE I == {entries[i].ref : i \in 1 .. n}
           D == {entries[i].delivery : i \in 1 .. n}
           V == Nodes(I, D)
           After(nodes, k) == IF entries[k].ref = NoNode THEN nodes ELSE Bind(nodes, entries[k])
           step == [x \in V \X (1 .. n) |-> After(x[1], x[2])]
           IsBound(f) == f = [k \in 0 .. n |-> IF k = 0 THEN <<>> ELSE After(f[k - 1], k)]
<1>1. ASSUME NEW k \in 1 .. n
      PROVE  /\ entries[k].ref \in I /\ entries[k].delivery \in D
             /\ entries[k].actions \in Seq(Actions)
             /\ IsInjective(entries[k].actions)
             /\ \A a \in DOMAIN entries[k].actions : entries[k].actions[a].mapping = k
  BY DEF IsEntry
<1>2. <<>> \in V
  BY DEF Nodes
<1>3. ASSUME NEW nodes \in V, NEW k \in 1 .. n PROVE After(nodes, k) \in V
  <2> HIDE DEF I, D
  <2>1. Bind(nodes, entries[k]) \in V
    BY <1>1, BindIs
  <2> QED
    BY <2>1
<1> HIDE DEF I, D, V, After
<1>4. step \in [V \X (1 .. n) -> V]
  BY <1>3
<1>5. \A nodes \in V, k \in 1 .. n : step[<<nodes, k>>] = After(nodes, k)
  OBVIOUS
<1> HIDE DEF step
<1>6. PICK f \in [0 .. n -> V] : f[0] = <<>> /\ \A k \in 1 .. n : f[k] = step[<<f[k - 1], k>>]
  <2>1. PICK base \in V : base = <<>>
    BY <1>2
  <2>2. step \in Steps(V, n)
    BY <1>4, Zenon DEF Steps
  <2>3. \E f \in [0 .. n -> V] : IsRun(f, n, base, step)
    BY <2>2, Recursion
  <2> QED
    BY <2>1, <2>3, Zenon DEF IsRun
<1>7. ASSUME NEW k \in 1 .. n PROVE f[k] = After(f[k - 1], k) /\ f[k - 1] \in V
  <2>1. k - 1 \in 0 .. n /\ k \in 0 .. n /\ k # 0
    OBVIOUS
  <2>2. f[k] = step[<<f[k - 1], k>>] /\ f[k - 1] \in V
    BY <1>6, <2>1
  <2> QED
    BY <1>5, <2>2
<1>8. IsBound(f)
  <2>1. \A k \in 0 .. n : f[k] = IF k = 0 THEN <<>> ELSE After(f[k - 1], k)
    <3>1. f[0] = <<>>
      BY <1>6
    <3> QED
      BY <1>7, <3>1
  <2> QED
    BY <1>6, <2>1
<1>9. PICK g : g = Bound(entries)
  OBVIOUS
<1>10. IsBound(g)
  <2>1. Bound(entries) = CHOOSE h : IsBound(h)
    BY DEF Bound, After
  <2> HIDE DEF IsBound
  <2> QED
    BY <1>8, <1>9, <2>1
<1>11. g[0] = <<>> /\ \A k \in 1 .. n : g[k] = After(g[k - 1], k)
  BY <1>10
<1> DEFINE Of(k) == UNION {CollectedBy(NodeOf(entries[i])) : i \in {j \in 1 .. k : entries[j].ref # NoNode}}
           IsGood(k) == g[k] \in V /\ IsUpTo(g[k], k) /\ Collected(g[k]) = Of(k)
           S == {k \in 0 .. n : IsGood(k)}
<1>12. 0 \in S
  <2>1. IsUpTo(<<>>, 0) /\ Collected(<<>>) = {} /\ Of(0) = {}
    <3>1. DOMAIN <<>> = {}
      OBVIOUS
    <3> QED
      BY <3>1 DEF IsUpTo, IsApart, IsInOnePlace, Collected
  <2> HIDE DEF Of
  <2>2. IsGood(0)
    BY <1>2, <1>11, <2>1
  <2> HIDE DEF IsGood
  <2> QED
    BY <2>2
<1>13. ASSUME NEW k \in 1 .. n, k - 1 \in S PROVE k \in S
  <2>1. /\ g[k - 1] \in V /\ IsUpTo(g[k - 1], k - 1) /\ Collected(g[k - 1]) = Of(k - 1)
        /\ g[k] = After(g[k - 1], k)
    <3> HIDE DEF Of
    <3> QED
      BY <1>11, <1>13
  <2>2. {j \in 1 .. k : entries[j].ref # NoNode} =
            {j \in 1 .. k - 1 : entries[j].ref # NoNode} \cup {j \in {k} : entries[j].ref # NoNode}
    <3>1. 1 .. k = (1 .. k - 1) \cup {k}
      OBVIOUS
    <3> QED
      BY <3>1
  <2>3. CASE entries[k].ref = NoNode
    <3>1. g[k] = g[k - 1]
      BY <2>1, <2>3 DEF After
    <3>2. Of(k) = Of(k - 1)
      <4>1. {j \in {k} : entries[j].ref # NoNode} = {}
        BY <2>3
      <4> QED
        BY <2>2, <4>1
    <3>3. IsUpTo(g[k], k)
      <4> SUFFICES ASSUME NEW j \in DOMAIN g[k], NEW a \in DOMAIN g[k][j].actions
                   PROVE  g[k][j].actions[a].mapping <= k
        BY <2>1, <3>1 DEF IsUpTo
      <4>1. g[k][j].actions[a].mapping <= k - 1
        BY <2>1, <3>1 DEF IsUpTo
      <4>2. g[k][j].actions[a].mapping \in Nat
        <5>1. g[k] \in Nodes(I, D)
          BY <2>1, <3>1 DEF V
        <5>2. g[k][j].actions \in Seq(Actions)
          BY <5>1, NodeIs
        <5>3. g[k][j].actions[a] \in Actions
          BY <5>2, ElementOfSeq, LenProperties
        <5> QED
          BY <5>3 DEF Actions
      <4> QED
        BY <4>1, <4>2
    <3> HIDE DEF Of
    <3> QED
      BY <2>1, <3>1, <3>2, <3>3
  <2>4. CASE entries[k].ref # NoNode
    <3>1. g[k] = Bind(g[k - 1], entries[k])
      BY <2>1, <2>4 DEF After
    <3>2. k \in Nat \ {0}
      OBVIOUS
    <3>3. /\ g[k] \in V
          /\ IsUpTo(g[k], k)
          /\ Collected(g[k]) = Collected(g[k - 1]) \cup CollectedBy(NodeOf(entries[k]))
      <4>1. Bind(g[k - 1], entries[k]) \in V
        BY <1>1, <2>1, BindIs DEF V
      <4>2. IsUpTo(Bind(g[k - 1], entries[k]), k)
        BY <1>1, <2>1, <3>2, BindKeeps DEF V
      <4>3. Collected(Bind(g[k - 1], entries[k])) =
                Collected(g[k - 1]) \cup CollectedBy(NodeOf(entries[k]))
        BY <1>1, <2>1, BindCollects DEF V
      <4> QED
        BY <3>1, <4>1, <4>2, <4>3
    <3>4. Of(k) = Of(k - 1) \cup CollectedBy(NodeOf(entries[k]))
      <4>1. {j \in {k} : entries[j].ref # NoNode} = {k}
        BY <2>4
      <4> QED
        BY <2>2, <4>1
    <3> HIDE DEF Of
    <3>5. IsGood(k)
      BY <2>1, <3>3, <3>4
    <3> HIDE DEF IsGood
    <3> QED
      BY <3>5
  <2> QED
    BY <2>3, <2>4
<1>14. n \in S
  <2> HIDE DEF S
  <2> QED
    BY <1>12, <1>13, Handed
<1>15. IsGood(n)
  BY <1>14
<1> HIDE DEF IsBound
<1> QED
  BY <1>9, <1>15 DEF IsUpTo

-----------------------------------------------------------------------------
(* Plans.                                                                  *)

\* An entry's actions are of its mapping.
LEMMA EntryIs ==
    ASSUME loaded \in Catalogs, NEW t \in ToSet(loaded), NEW i \in DOMAIN t.mappings
    PROVE  IsEntry(EntryOf(t, i), i)
<1>1. i \in Nat /\ t.mappings[i].creations \subseteq Kinds
  BY TypeIs
<1>2. /\ actions_of(t, i) \in Seq(Actions) /\ IsInjective(actions_of(t, i))
      /\ ToSet(actions_of(t, i)) = {[mapping |-> i, kind |-> k] : k \in t.mappings[i].creations}
  BY <1>1, ActionsOf
<1>3. \A a \in DOMAIN actions_of(t, i) : actions_of(t, i)[a].mapping = i
  BY <1>2 DEF ToSet
<1>4. EntryOf(t, i).actions \in {<<>>, actions_of(t, i)}
  BY DEF EntryOf, NoEntry
<1>5. <<>> \in Seq(Actions) /\ DOMAIN <<>> = {}
  OBVIOUS
<1> QED
  BY <1>2, <1>3, <1>4, <1>5 DEF IsEntry, IsInjective

\* The answers are counted off in the order of the entries that ask.
LEMMA PlaceOf ==
    ASSUME NEW p, NEW n \in Nat, DOMAIN p.entries = 1 .. n, NEW i \in Pending(p)
    PROVE  /\ Place(p, i) \in DOMAIN pending_paths(p)
           /\ pending_paths(p)[Place(p, i)] = i
<1> DEFINE Upto(j) == {k \in Pending(p) : k <= j}
<1>1. Pending(p) \subseteq 1 .. n
  BY DEF Pending
<1>2. IsFiniteSet(Pending(p)) /\ Cardinality(Pending(p)) \in Nat
  <2>1. IsFiniteSet(1 .. n)
    BY FS_Interval
  <2> QED
    BY <1>1, <2>1, FS_Subset, FS_CardinalityType
<1>3. ASSUME NEW j \in Pending(p)
      PROVE  /\ Place(p, j) = Cardinality(Upto(j)) /\ Place(p, j) \in 1 .. Cardinality(Pending(p))
             /\ IsFiniteSet(Upto(j))
  <2>1. Upto(j) \in SUBSET Pending(p) /\ j \in Upto(j)
    BY <1>1
  <2>2. Place(p, j) = Cardinality(Upto(j))
    BY DEF Place
  <2> HIDE DEF Upto
  <2>3. /\ IsFiniteSet(Upto(j)) /\ Cardinality(Upto(j)) <= Cardinality(Pending(p))
        /\ Cardinality(Upto(j)) \in Nat /\ Cardinality(Upto(j)) # 0
    BY <1>2, <2>1, FS_Subset, FS_CardinalityType, FS_EmptySet
  <2> QED
    BY <1>2, <2>2, <2>3
<1>4. ASSUME NEW j \in Pending(p), NEW k \in Pending(p), j < k PROVE Place(p, j) # Place(p, k)
  <2>1. Upto(j) \in SUBSET Upto(k) /\ k \in Upto(k) /\ k \notin Upto(j)
    BY <1>1, <1>4
  <2>2. IsFiniteSet(Upto(k))
    BY <1>3
  <2>3. Place(p, j) = Cardinality(Upto(j)) /\ Place(p, k) = Cardinality(Upto(k))
    BY <1>3
  <2> HIDE DEF Upto
  <2>4. Cardinality(Upto(k)) = Cardinality(Upto(j)) => Upto(k) = Upto(j)
    BY <2>1, <2>2, FS_Subset
  <2> QED
    BY <2>1, <2>3, <2>4
<1>5. \A j \in Pending(p) : Place(p, j) = Place(p, i) => j = i
  <2>1. \A j \in Pending(p) : j < i \/ i < j \/ i = j
    BY <1>1
  <2> QED
    BY <1>4, <2>1
<1>6. (CHOOSE j \in Pending(p) : Place(p, j) = Place(p, i)) = i
  BY <1>5
<1> QED
  BY <1>3, <1>6 DEF pending_paths

\* The entries of a plan with the answers in.
Entries(p) ==
    [i \in DOMAIN p.entries |->
        IF i \in Pending(p) THEN [p.entries[i] EXCEPT !.ref = Translated(p.root, p.entries[i].path)]
        ELSE p.entries[i]]

\* What an answer is for, it gets.
LEMMA ResolvedIs ==
    ASSUME loaded \in Catalogs, NEW t \in ToSet(loaded), NEW p, p = plan_of(t)
    PROVE  /\ set_resolved(p, Answers(p)).id = t.id
           /\ set_resolved(p, Answers(p)).entries = Entries(p)
           /\ Pending(p) = {} => p.id = t.id /\ p.entries = Entries(p)
<1>1. /\ p = [id |-> p.id, root |-> p.root, entries |-> p.entries]
      /\ p.id = t.id /\ DOMAIN p.entries = 1 .. Len(t.mappings) /\ Len(t.mappings) \in Nat
      /\ p.entries = [i \in DOMAIN p.entries |-> p.entries[i]]
  BY TypeIs DEF plan_of
<1>2. ASSUME NEW i \in Pending(p) PROVE Answers(p)[Place(p, i)] = Translated(p.root, p.entries[i].path)
  <2>1. Place(p, i) \in DOMAIN pending_paths(p) /\ pending_paths(p)[Place(p, i)] = i
    BY <1>1, PlaceOf
  <2> QED
    BY <2>1 DEF Answers
<1>3. /\ set_resolved(p, Answers(p)).id = p.id
      /\ set_resolved(p, Answers(p)).entries =
            [i \in DOMAIN p.entries |->
                IF i \in Pending(p) THEN [p.entries[i] EXCEPT !.ref = Answers(p)[Place(p, i)]]
                ELSE p.entries[i]]
  BY <1>1 DEF set_resolved
<1>4. set_resolved(p, Answers(p)).entries = Entries(p)
  BY <1>2, <1>3 DEF Entries
<1>5. Pending(p) = {} => p.entries = Entries(p)
  BY <1>1 DEF Entries
<1> QED
  BY <1>1, <1>3, <1>4, <1>5

\* An empty path leads nowhere.
LEMMA NoPathNoNode ==
    ASSUME NEW t, NEW entry, entry.ref = NoText, entry.path = <<>>
    PROVE  NodesMeant(t, entry) = {}
<1> DEFINE from == [root |-> RootMeant(t), path |-> PathMeant(entry.path)]
<1>1. PathMeant(<<>>) = <<>>
  BY DEF PathMeant
<1>2. from \notin DOMAIN Space
  <2>1. from.path = <<>>
    BY <1>1
  <2> HIDE DEF from
  <2> QED
    BY <2>1, SpaceAssumption
<1> QED
  BY <1>2 DEF NodesMeant

\* An entry with its answer in is collected as its author asked.
LEMMA EntryCollects ==
    ASSUME table \in Tables, loaded \in Catalogs, NEW t \in ToSet(loaded), IsUnambiguous(t),
           NEW p, p = plan_of(t), p.root # NoNode, NEW i \in DOMAIN t.mappings
    PROVE  LET entry == Entries(p)[i]
           IN  /\ entry.ref # NoNode => IsSupported(t, i) /\ CollectedBy(NodeOf(entry)) = AskedBy(t, i)
               /\ entry.ref = NoNode /\ IsSupported(t, i) => AskedBy(t, i) = {}
<1> DEFINE m == t.mappings[i]
           names == to_qualified_names(m.path)
           d == DeliveryFor(t, names)
           ref == IF m.ref = NoText THEN NoNode ELSE parse_node_id(m.ref)
           made == [ref |-> ref, path |-> names, delivery |-> d, actions |-> actions_of(t, i)]
           entry == Entries(p)[i]
           Ignored == \/ m.creations = {}
                      \/ \E j \in DOMAIN m.path : is_regex(m.path[j])
                      \/ m.ref # NoText /\ ref = NoNode
                      \/ m.ref = NoText /\ names = <<>>
                      \/ d = NoDelivery
<1>1. d = DeliveryMeant(t, m)
  BY DeliveredAsMeant
<1>2. EntryOf(t, i) = IF Ignored THEN NoEntry ELSE made
  BY DEF EntryOf
<1>3. p.entries[i] = EntryOf(t, i) /\ DOMAIN p.entries = DOMAIN t.mappings /\ NodeAt(p.root) = RootMeant(t)
  BY RootReadAsMeant DEF plan_of
<1>4. m.ref # NoText => /\ ref # NoNode <=> IsMeaningful(m.ref)
                        /\ IsMeaningful(m.ref) => NodeAt(ref) = NodeMeant(m.ref)
  <2>1. m.ref # NoText => m.ref.index \in Nat
    BY TypeIs DEF NodeTexts
  <2> QED
    BY <2>1, NodeReadAsMeant
<1>5. m.ref # NoText => NodesMeant(t, m) = IF IsMeaningful(m.ref) THEN {NodeMeant(m.ref)} ELSE {}
  BY DEF NodesMeant
<1>6. IsSupported(t, i) <=> d # NoDelivery /\ \A k \in DOMAIN m.path : ~is_regex(m.path[k])
  BY <1>1 DEF IsSupported
<1>7. AskedBy(t, i) = {[node |-> node, mode |-> d.mode, schedule |-> read_schedule_of(d),
                        mapping |-> i, kind |-> kind] : node \in NodesMeant(t, m), kind \in m.creations}
  BY <1>1 DEF AskedBy
<1>8. m.path \in Seq(Segments)
  BY TypeIs
<1>9. m.ref = NoText /\ names = <<>> => NodesMeant(t, m) = {}
  <2>1. names = <<>> => DOMAIN m.path = {}
    <3>1. DOMAIN names = DOMAIN m.path /\ DOMAIN <<>> = {}
      BY DEF to_qualified_names
    <3> HIDE DEF names
    <3> QED
      BY <3>1
  <2>2. DOMAIN m.path = {} => m.path = <<>>
    BY <1>8, LenProperties, EmptySeq
  <2> HIDE DEF m, names
  <2>3. m.ref = NoText /\ m.path = <<>> => NodesMeant(t, m) = {}
    BY NoPathNoNode
  <2> QED
    BY <2>1, <2>2, <2>3
<1>10. CASE Ignored
  <2>1. entry = NoEntry /\ entry.ref = NoNode
    <3>1. p.entries[i] = NoEntry
      BY <1>2, <1>3, <1>10
    <3>2. i \notin Pending(p)
      BY <3>1 DEF Pending
    <3> QED
      BY <1>3, <3>1, <3>2 DEF Entries, NoEntry
  <2>2. IsSupported(t, i) => m.creations = {} \/ NodesMeant(t, m) = {}
    <3> HIDE DEF m, names, d, ref
    <3> QED
      BY <1>4, <1>5, <1>6, <1>9, <1>10
  <2>3. m.creations = {} \/ NodesMeant(t, m) = {} => AskedBy(t, i) = {}
    <3> HIDE DEF m, d
    <3> QED
      BY <1>7
  <2> HIDE DEF m, names, d, ref, made, entry, Ignored
  <2>4. IsSupported(t, i) => AskedBy(t, i) = {}
    BY <2>2, <2>3
  <2> QED
    BY <2>1, <2>4, Zenon DEF entry
<1>11. CASE ~Ignored
  <2>1. IsSupported(t, i)
    BY <1>6, <1>11
  <2>2. p.entries[i] = made /\ made # NoEntry
    <3>1. d # NoDelivery /\ made.delivery = d /\ NoEntry.delivery = NoDelivery
      BY <1>11 DEF NoEntry
    <3> QED
      BY <1>2, <1>3, <1>11, <3>1
  <2>3. /\ entry.delivery = d /\ entry.actions = actions_of(t, i)
        /\ NodesMeant(t, m) = IF entry.ref = NoNode THEN {} ELSE {NodeAt(entry.ref)}
    <3>1. CASE m.ref # NoText
      <4>1. ref # NoNode
        BY <1>11, <3>1
      <4>2. i \notin Pending(p)
        BY <2>2, <4>1 DEF Pending
      <4>3. entry = made
        BY <1>3, <2>2, <4>2 DEF Entries
      <4>4. entry.ref = ref /\ entry.delivery = d /\ entry.actions = actions_of(t, i)
        BY <4>3
      <4> HIDE DEF m, d, ref, made, entry
      <4> QED
        BY <1>4, <1>5, <3>1, <4>1, <4>4
    <3>2. CASE m.ref = NoText
      <4>1. i \in Pending(p)
        BY <1>3, <2>2, <3>2 DEF Pending
      <4>2. entry = [made EXCEPT !.ref = Translated(p.root, names)]
        <5>1. entry = [p.entries[i] EXCEPT !.ref = Translated(p.root, p.entries[i].path)]
          BY <1>3, <4>1 DEF Entries
        <5>2. made.path = names
          OBVIOUS
        <5> HIDE DEF entry, made, names
        <5> QED
          BY <2>2, <5>1, <5>2
      <4>3. /\ entry.ref = Translated(p.root, names) /\ entry.delivery = d
            /\ entry.actions = actions_of(t, i)
        BY <4>2
      <4>4. NodesMeant(t, m) = IF Translated(p.root, names) = NoNode THEN {}
                               ELSE {NodeAt(Translated(p.root, names))}
        <5>1. PICK node : node = Translated(p.root, names)
          OBVIOUS
        <5>2. NodesMeant(t, m) = IF node = NoNode THEN {} ELSE {NodeAt(node)}
          BY <1>3, <3>2, <5>1, TranslatedAsMeant
        <5> QED
          BY <5>1, <5>2
      <4> HIDE DEF m, names, d, made, entry
      <4> QED
        BY <4>3, <4>4
    <3> QED
      BY <3>1, <3>2
  <2>4. ToSet(actions_of(t, i)) = {[mapping |-> i, kind |-> k] : k \in m.creations}
    BY TypeIs, ActionsOf
  <2> HIDE DEF m, names, d, ref, made, entry, Ignored
  <2>5. CASE entry.ref = NoNode
    <3>1. AskedBy(t, i) = {}
      BY <1>7, <2>3, <2>5
    <3> QED
      BY <2>5, <3>1 DEF entry
  <2>6. CASE entry.ref # NoNode
    <3> DEFINE F(a) == [node |-> NodeAt(entry.ref), mode |-> d.mode, schedule |-> read_schedule_of(d),
                        mapping |-> a.mapping, kind |-> a.kind]
    <3>1. CollectedBy(NodeOf(entry)) = {F(a) : a \in ToSet(actions_of(t, i))}
      <4>1. /\ NodeOf(entry).id = entry.ref /\ NodeOf(entry).delivery = d
            /\ NodeOf(entry).actions = actions_of(t, i)
        BY <2>3 DEF NodeOf
      <4> QED
        BY <4>1, CollectedByIs
    <3>2. AskedBy(t, i) = {F([mapping |-> i, kind |-> k]) : k \in m.creations}
      BY <1>7, <2>3, <2>6
    <3>3. {F(a) : a \in ToSet(actions_of(t, i))} = {F([mapping |-> i, kind |-> k]) : k \in m.creations}
      <4> HIDE DEF F
      <4> QED
        BY <2>4
    <3>4. CollectedBy(NodeOf(entry)) = AskedBy(t, i)
      BY <3>1, <3>2, <3>3
    <3> QED
      BY <2>1, <2>6, <3>4 DEF entry
  <2> QED
    BY <2>5, <2>6
<1> QED
  BY <1>10, <1>11

\* What a device type has been planned and asked for: all its author asked, and no
\* value twice.
LEMMA FinishIs ==
    ASSUME loaded \in Catalogs, NEW t \in ToSet(loaded), NEW p, p = plan_of(t),
           NEW q, q.id = t.id, q.entries = Entries(p)
    PROVE  /\ finish(q).id = t.id
           /\ IsApart(finish(q).nodes) /\ IsInOnePlace(finish(q).nodes)
           /\ table \in Tables /\ IsUnambiguous(t) /\ p.root # NoNode =>
                Collected(finish(q).nodes) = Asked(t)
<1> DEFINE n == Len(t.mappings)
           entries == Entries(p)
<1>1. n \in Nat /\ DOMAIN t.mappings = 1 .. n
  BY TypeIs
<1>2. p.entries = [i \in 1 .. n |-> EntryOf(t, i)] /\ DOMAIN entries = 1 .. n
  BY <1>1 DEF plan_of, Entries
<1>3. Len(entries) = n
  <2> HIDE DEF entries, n
  <2>1. entries = [i \in 1 .. n |-> entries[i]]
    BY <1>2 DEF Entries, entries
  <2> QED
    BY <1>1, <2>1
<1>4. ASSUME NEW i \in 1 .. n PROVE IsEntry(entries[i], i)
  <2>1. IsEntry(p.entries[i], i) /\ p.entries[i] = EntryOf(t, i)
    BY <1>1, <1>2, EntryIs
  <2>2. entries[i].actions = p.entries[i].actions
    <3>1. DOMAIN p.entries[i] = {"ref", "path", "delivery", "actions"}
      BY <2>1 DEF EntryOf, NoEntry
    <3>2. entries[i] \in {p.entries[i],
                          [p.entries[i] EXCEPT !.ref = Translated(p.root, p.entries[i].path)]}
      BY <1>2 DEF Entries
    <3> HIDE DEF entries
    <3> QED
      BY <3>1, <3>2
  <2> QED
    BY <2>1, <2>2 DEF IsEntry
<1>5. finish(q).id = t.id /\ finish(q).nodes = Bound(entries)[Len(entries)]
  BY DEF finish
<1> DEFINE nodes == Bound(entries)[Len(entries)]
<1>6. /\ IsApart(nodes) /\ IsInOnePlace(nodes)
      /\ Collected(nodes) =
            UNION {CollectedBy(NodeOf(entries[i])) : i \in {j \in 1 .. n : entries[j].ref # NoNode}}
  <2> HIDE DEF n, entries
  <2> QED
    BY <1>1, <1>2, <1>3, <1>4, BoundIs
<1>7. ASSUME table \in Tables, IsUnambiguous(t), p.root # NoNode PROVE Collected(nodes) = Asked(t)
  <2>1. \A i \in 1 .. n :
            /\ entries[i].ref # NoNode =>
                IsSupported(t, i) /\ CollectedBy(NodeOf(entries[i])) = AskedBy(t, i)
            /\ entries[i].ref = NoNode /\ IsSupported(t, i) => AskedBy(t, i) = {}
    BY <1>1, <1>7, EntryCollects
  <2>2. Asked(t) = UNION {AskedBy(t, i) : i \in {j \in 1 .. n : IsSupported(t, j)}}
    BY <1>1 DEF Asked
  <2> HIDE DEF n, entries, nodes
  <2> QED
    BY <1>6, <2>1, <2>2
<1> HIDE DEF nodes
<1> QED
  BY <1>5, <1>6, <1>7 DEF nodes

-----------------------------------------------------------------------------
(* The loop.                                                               *)

\* What is left of a sequence after its first k elements.
Beyond(s, k) == SubSeq(s, k + 1, Len(s))

\* It is as long as what is left, and in order.
LEMMA BeyondIs ==
    ASSUME NEW S, NEW s \in Seq(S), NEW k \in Nat, k <= Len(s)
    PROVE  /\ Beyond(s, k) \in Seq(S) /\ Len(Beyond(s, k)) = Len(s) - k
           /\ \A i \in 1 .. Len(s) - k : Beyond(s, k)[i] = s[k + i]
<1>1. PICK m, n : m = k + 1 /\ n = Len(s)
  OBVIOUS
<1>2. n \in Nat /\ m \in Nat \ {0} /\ n <= Len(s) /\ m <= n + 1
  BY <1>1, LenProperties
<1>3. PICK slice : slice = SubSeq(s, m, n)
  OBVIOUS
<1>4. /\ slice \in Seq(S) /\ Len(slice) = n - m + 1
      /\ \A i \in 1 .. n - m + 1 : slice[i] = s[m + i - 1]
  BY <1>2, <1>3, Slice
<1>5. n - m + 1 = Len(s) - k /\ \A i \in 1 .. Len(s) - k : m + i - 1 = k + i
  BY <1>1, <1>2
<1>6. Beyond(s, k) = slice
  BY <1>1, <1>3, Zenon DEF Beyond
<1> QED
  BY <1>4, <1>5, <1>6

\* The next device type is the first of the rest.
LEMMA NextInTurn ==
    ASSUME NEW S, NEW all \in Seq(S), NEW k \in Nat, k < Len(all)
    PROVE  /\ Head(Beyond(all, k)) = all[k + 1] /\ Head(Beyond(all, k)) \in S
           /\ Tail(Beyond(all, k)) \in Seq(S)
           /\ Len(Tail(Beyond(all, k))) = Len(all) - (k + 1)
           /\ Tail(Beyond(all, k)) = Beyond(all, k + 1)
<1>1. PICK n : n = Len(all)
  OBVIOUS
<1>2. n \in Nat /\ k + 1 \in Nat /\ k + 1 <= n /\ k <= n /\ k < n
  BY <1>1, LenProperties
<1>3. PICK rest : rest = Beyond(all, k)
  OBVIOUS
<1>4. /\ rest \in Seq(S) /\ Len(rest) = n - k
      /\ \A i \in 1 .. n - k : rest[i] = all[k + i]
  BY <1>1, <1>2, <1>3, BeyondIs
<1>5. rest # <<>>
  <2>1. Len(rest) # 0
    BY <1>2, <1>4
  <2> QED
    BY <1>4, <2>1, EmptySeq
<1>6. PICK tail : tail = Tail(rest)
  OBVIOUS
<1>7. /\ Head(rest) = rest[1] /\ Head(rest) \in S
      /\ tail \in Seq(S) /\ Len(tail) = Len(rest) - 1
      /\ \A i \in 1 .. Len(tail) : tail[i] = rest[i + 1]
  BY <1>4, <1>5, <1>6, HeadTailProperties
<1>8. PICK left : left = Beyond(all, k + 1)
  OBVIOUS
<1>9. /\ left \in Seq(S) /\ Len(left) = n - (k + 1)
      /\ \A i \in 1 .. n - (k + 1) : left[i] = all[(k + 1) + i]
  BY <1>1, <1>2, <1>8, BeyondIs
<1>10. Len(tail) = n - (k + 1)
  BY <1>2, <1>4, <1>7
<1>11. tail = left
  <2>1. Len(tail) = Len(left)
    BY <1>9, <1>10
  <2>2. ASSUME NEW i \in 1 .. Len(tail) PROVE tail[i] = left[i]
    <3>1. i + 1 \in 1 .. n - k /\ i \in 1 .. n - (k + 1) /\ (k + 1) + i = k + (i + 1)
      BY <1>2, <1>10
    <3> QED
      BY <1>4, <1>7, <1>9, <3>1
  <2> QED
    BY <1>7, <1>9, <2>1, <2>2, SeqEqual
<1>12. rest[1] = all[k + 1]
  <2>1. 1 \in 1 .. n - k
    BY <1>2
  <2> QED
    BY <1>4, <2>1
<1> QED
  BY <1>1, <1>3, <1>6, <1>7, <1>8, <1>10, <1>11, <1>12, Zenon

\* Within a session, what is read and what is meant stay the same.
LEMMA MeaningStays ==
    ASSUME UNCHANGED inputs, NEW t
    PROVE  /\ IsUnambiguous(t)' <=> IsUnambiguous(t)
           /\ Applicable(t)' <=> Applicable(t)
           /\ Asked(t)' = Asked(t)
           /\ \A nodes : Collected(nodes)' = Collected(nodes)
           /\ (accepts_device_type(t) /\ applies(t))' <=> accepts_device_type(t) /\ applies(t)
           /\ plan_of(t)' = plan_of(t)
<1>1. table' = table /\ known' = known /\ allowed' = allowed
  BY DEF inputs
<1>2. \A uri : index_of(uri)' = index_of(uri)
  BY <1>1 DEF index_of, SelectInSeq
<1>3. \A parts : Prefix(parts)' = Prefix(parts)
  BY <1>2 DEF Prefix
<1>4. Uris' = Uris
  BY <1>1 DEF Uris
<1>5. \A node : NodeAt(node)' = NodeAt(node)
  BY <1>1 DEF NodeAt
<1>6. \A name : NameAt(name)' = NameAt(name)
  BY <1>1 DEF NameAt
<1>7. IsUnambiguous(t)' <=> IsUnambiguous(t)
  BY <1>3 DEF IsUnambiguous, ReadsOneWay
<1>8. \A text : NodeMeant(text)' = NodeMeant(text) /\ (IsMeaningful(text)' <=> IsMeaningful(text))
  BY <1>4, <1>5 DEF NodeMeant, IsMeaningful
<1>9. Applicable(t)' <=> Applicable(t)
  BY <1>1, <1>8 DEF Applicable
<1>10. \A segment : NameMeant(segment)' = NameMeant(segment)
  BY <1>4, <1>6 DEF NameMeant
<1>11. \A path : PathMeant(path)' = PathMeant(path)
  BY <1>10 DEF PathMeant
<1>12. \A entry : DeliveryMeant(t, entry)' = DeliveryMeant(t, entry)
  BY <1>11 DEF DeliveryMeant, SelectInSeq
<1>13. RootMeant(t)' = RootMeant(t)
  BY <1>8 DEF RootMeant
<1>14. \A entry : NodesMeant(t, entry)' = NodesMeant(t, entry)
  BY <1>4, <1>8, <1>11, <1>13 DEF NodesMeant
<1>15. \A i : AskedBy(t, i)' = AskedBy(t, i) /\ (IsSupported(t, i)' <=> IsSupported(t, i))
  BY <1>12, <1>14 DEF AskedBy, IsSupported
<1>16. Asked(t)' = Asked(t)
  BY <1>15 DEF Asked
<1>17. \A node : CollectedBy(node)' = CollectedBy(node)
  BY <1>5 DEF CollectedBy
<1>18. \A nodes : Collected(nodes)' = Collected(nodes)
  BY <1>17 DEF Collected
<1>19. \A text : parse_node_id(text)' = parse_node_id(text)
  BY <1>2 DEF parse_node_id
<1>20. (accepts_device_type(t) /\ applies(t))' <=> accepts_device_type(t) /\ applies(t)
  BY <1>1, <1>19 DEF accepts_device_type, applies, matches_server_ids, matches_node_ids
<1>21. \A path : to_qualified_names(path)' = to_qualified_names(path)
  BY <1>3 DEF to_qualified_names, to_qualified_name
<1>22. \A path : DeliveryFor(t, path)' = DeliveryFor(t, path)
  BY <1>21 DEF DeliveryFor, SelectInSeq
<1>23. \A i : EntryOf(t, i)' = EntryOf(t, i)
  BY <1>19, <1>21, <1>22 DEF EntryOf
<1>24. plan_of(t)' = plan_of(t)
  BY <1>19, <1>23 DEF plan_of
<1> QED
  BY <1>7, <1>9, <1>16, <1>18, <1>20, <1>24

\* One more device type is done with, whose id is new.
LEMMA Onward ==
    ASSUME ResolveIInv, at # "failed", todo # <<>>, UNCHANGED inputs, todo' = Tail(todo),
           NEW t, t = Head(todo)
    PROVE  /\ t \in ToSet(loaded)
           /\ todo' \in Seq(ToSet(loaded))' /\ Passed' >= 0
           /\ todo' = SubSeq(loaded', Passed' + 1, Len(loaded'))
           /\ PassedTypes' = PassedTypes \cup {t}
           /\ \A s \in PassedTypes : s.id # t.id
<1> DEFINE S == ToSet(loaded)
<1>1. /\ loaded \in Seq(S) /\ todo \in Seq(S) /\ loaded' = loaded
      /\ \A i, j \in DOMAIN loaded : loaded[i].id = loaded[j].id => i = j
      /\ Passed >= 0 /\ todo = Beyond(loaded, Passed)
  BY CatalogAssumption DEF ResolveIInv, ResolveTypeOK, InTurn, inputs, Beyond
<1>2. Passed = Len(loaded) - Len(todo) /\ Passed' = Len(loaded) - Len(Tail(todo))
  BY <1>1 DEF Passed
<1>3. PICK k \in Nat : k = Passed
  <2>1. Passed \in Int
    BY <1>1, <1>2, LenProperties
  <2> QED
    BY <1>1, <2>1
<1>4. /\ k + 1 \in 1 .. Len(loaded)
      /\ t = loaded[k + 1] /\ t \in S
      /\ Tail(todo) \in Seq(S)
      /\ Passed' = k + 1
      /\ Tail(todo) = Beyond(loaded, k + 1)
  <2> HIDE DEF S
  <2>1. /\ k + 1 \in 1 .. Len(loaded)
        /\ Head(todo) = loaded[k + 1] /\ Head(todo) \in S
        /\ Tail(todo) \in Seq(S)
        /\ Len(loaded) - Len(Tail(todo)) = k + 1
        /\ Tail(todo) = Beyond(loaded, k + 1)
    <3>1. PICK m, n : m = Len(loaded) /\ n = Len(todo)
      OBVIOUS
    <3>2. m \in Nat /\ n \in Nat \ {0}
      BY <1>1, <3>1, LenProperties, EmptySeq
    <3>3. k < m /\ k + 1 \in 1 .. m
      <4>1. k = m - n
        BY <1>2, <1>3, <3>1, Zenon
      <4> QED
        BY <3>2, <4>1
    <3>4. /\ loaded \in Seq(S) /\ k < Len(loaded) /\ k + 1 \in 1 .. Len(loaded)
          /\ todo = Beyond(loaded, k)
      BY <1>1, <1>3, <3>1, <3>3, Zenon
    <3>5. /\ Head(todo) = loaded[k + 1] /\ Head(todo) \in S
          /\ Tail(todo) \in Seq(S)
          /\ Len(Tail(todo)) = Len(loaded) - (k + 1)
          /\ Tail(todo) = Beyond(loaded, k + 1)
      BY <3>4, NextInTurn, Zenon
    <3>6. Len(loaded) - Len(Tail(todo)) = k + 1
      <4>1. PICK l : l = Len(Tail(todo))
        OBVIOUS
      <4>2. l = m - (k + 1)
        BY <3>1, <3>5, <4>1, Zenon
      <4>3. m - l = k + 1
        BY <3>2, <4>2
      <4> QED
        BY <3>1, <4>1, <4>3, Zenon
    <3> QED
      BY <3>4, <3>5, <3>6, Zenon
  <2> QED
    BY <1>2, <2>1
<1>5. PassedTypes = {loaded[i] : i \in 1 .. k} /\ PassedTypes' = {loaded[i] : i \in 1 .. k + 1}
  BY <1>1, <1>3, <1>4 DEF PassedTypes
<1>6. 1 .. k + 1 = (1 .. k) \cup {k + 1}
  OBVIOUS
<1>7. PassedTypes' = PassedTypes \cup {t}
  BY <1>4, <1>5, <1>6
<1>8. \A s \in PassedTypes : s.id # t.id
  <2>1. DOMAIN loaded = 1 .. Len(loaded) /\ Len(loaded) \in Nat
    BY <1>1, LenProperties
  <2>2. ASSUME NEW i \in 1 .. k PROVE loaded[i].id # t.id
    <3>1. i \in DOMAIN loaded /\ k + 1 \in DOMAIN loaded /\ i # k + 1
      BY <1>4, <2>1
    <3> QED
      BY <1>1, <1>4, <3>1
  <2> QED
    BY <1>5, <2>2
<1>9. PICK m : m = Passed'
  OBVIOUS
<1>10. todo' = SubSeq(loaded', Passed' + 1, Len(loaded'))
  <2>1. todo' = Beyond(loaded', m)
    BY <1>1, <1>4, <1>9
  <2> QED
    BY <1>9, <2>1, Zenon DEF Beyond
<1>11. todo' \in Seq(ToSet(loaded))' /\ Passed' >= 0
  <2>1. Passed' >= 0
    BY <1>4
  <2> QED
    BY <1>1, <1>4, <2>1, Zenon
<1> QED
  BY <1>4, <1>7, <1>8, <1>10, <1>11, Zenon

\* Device types that were done with have what they had.
LEMMA OthersStay ==
    ASSUME UNCHANGED inputs, NEW s, GotAsMeant(s), Got(s.id)' = Got(s.id)
    PROVE  GotAsMeant(s)'
BY MeaningStays DEF GotAsMeant

\* One that does not apply is passed over, and gets nothing.
LEMMA PassOverKeeps ==
    ASSUME ResolveIInv, PassOver
    PROVE  ResolveIInv'
<1>1. PICK t : t = Head(todo)
  OBVIOUS
<1>2. /\ at = "next" /\ at' = at /\ todo # <<>> /\ todo' = Tail(todo)
      /\ UNCHANGED inputs /\ plan' = plan /\ out' = out
      /\ ~(accepts_device_type(t) /\ applies(t) /\ plan_of(t).root # NoNode)
  BY <1>1 DEF PassOver
<1>3. /\ t \in ToSet(loaded)
      /\ todo' \in Seq(ToSet(loaded))' /\ Passed' >= 0
      /\ todo' = SubSeq(loaded', Passed' + 1, Len(loaded'))
      /\ PassedTypes' = PassedTypes \cup {t}
      /\ \A s \in PassedTypes : s.id # t.id
  BY <1>1, <1>2, Onward
<1>4. loaded' = loaded /\ table' = table /\ known' = known /\ allowed' = allowed
  BY <1>2 DEF inputs
<1>5. \A id : Got(id)' = Got(id)
  <2>1. \A nodes : Collected(nodes)' = Collected(nodes)
    BY <1>2, MeaningStays
  <2> QED
    BY <1>2, <2>1 DEF Got
<1>6. /\ \A m \in DOMAIN out : \E s \in PassedTypes : out[m].id = s.id
      /\ \A s \in PassedTypes : GotAsMeant(s)
  BY <1>2 DEF ResolveIInv, ByPassed
<1>7. GotAsMeant(t)'
  <2>1. ~Applicable(t)
    BY <1>2, <1>3, AppliesAsMeant DEF ResolveIInv, ResolveTypeOK
  <2>2. Got(t.id) = {}
    <3>1. \A m \in DOMAIN out : out[m].id # t.id
      BY <1>3, <1>6
    <3> QED
      BY <3>1 DEF Got
  <2>3. GotAsMeant(t)
    BY <2>1, <2>2 DEF GotAsMeant
  <2> QED
    BY <1>2, <1>5, <2>3, OthersStay
<1>8. ByPassed'
  <2>1. \A s \in PassedTypes : GotAsMeant(s)'
    BY <1>2, <1>5, <1>6, OthersStay
  <2> QED
    BY <1>2, <1>3, <1>6, <1>7, <2>1 DEF ByPassed
<1>9. ResolveTypeOK'
  BY <1>2, <1>3, <1>4 DEF ResolveIInv, ResolveTypeOK
<1>10. InTurn'
  <2>1. plan = NoPlan
    BY <1>2 DEF ResolveIInv, InTurn
  <2> QED
    BY <1>2, <1>3, <2>1 DEF InTurn, NoPlan
<1>11. CollectedOnce'
  BY <1>2 DEF ResolveIInv, CollectedOnce, IsApart, IsInOnePlace, Alike
<1> QED
  BY <1>8, <1>9, <1>10, <1>11 DEF ResolveIInv

\* A sequence, and one more.
IsOneMore(u, s, x) ==
    /\ u \in Seq(ToSet(u))
    /\ DOMAIN u = DOMAIN s \cup {Len(s) + 1} /\ Len(s) + 1 \notin DOMAIN s
    /\ \A i \in DOMAIN s : u[i] = s[i]
    /\ u[Len(s) + 1] = x

\* That is what appending makes.
LEMMA Appended ==
    ASSUME NEW s, s \in Seq(ToSet(s)), NEW x
    PROVE  IsOneMore(Append(s, x), s, x)
<1>6. PICK u : u = Append(s, x)
  OBVIOUS
<1> DEFINE S == ToSet(s) \cup {x}
<1>1. s \in Seq(S) /\ x \in S /\ Len(s) \in Nat /\ DOMAIN s = 1 .. Len(s)
  <2>1. Len(s) \in Nat /\ DOMAIN s = 1 .. Len(s)
    BY LenProperties
  <2>2. \A i \in 1 .. Len(s) : s[i] \in S
    BY <2>1 DEF ToSet
  <2> HIDE DEF S
  <2>3. s = [i \in 1 .. Len(s) |-> s[i]]
    BY <2>1, LenProperties
  <2> QED
    BY <2>1, <2>2, <2>3 DEF S
<1> HIDE DEF S
<1>2. /\ u \in Seq(S) /\ Len(u) = Len(s) + 1
      /\ \A i \in 1 .. Len(s) : u[i] = s[i]
      /\ u[Len(s) + 1] = x
  BY <1>1, <1>6, AppendProperties
<1>3. DOMAIN u = 1 .. Len(s) + 1
  BY <1>2, LenProperties
<1>4. 1 .. Len(s) + 1 = DOMAIN s \cup {Len(s) + 1} /\ Len(s) + 1 \notin DOMAIN s
  BY <1>1
<1>5. S = ToSet(u)
  BY <1>1, <1>2, <1>3, <1>4 DEF S, ToSet
<1>7. IsOneMore(u, s, x)
  BY <1>1, <1>2, <1>3, <1>4, <1>5 DEF IsOneMore
<1> QED
  BY <1>6, <1>7, Zenon

\* One that is concluded gets what it asks for, and the others keep what they have.
LEMMA ConcludeKeeps ==
    ASSUME ResolveIInv, at # "failed", todo # <<>>, UNCHANGED inputs,
           NEW t, t = Head(todo), accepts_device_type(t), applies(t), plan_of(t).root # NoNode,
           NEW q, q.id = t.id, q.entries = Entries(plan_of(t)), Conclude(q)
    PROVE  ResolveIInv'
<1>1. /\ at' = "next" /\ todo' = Tail(todo) /\ plan' = NoPlan
      /\ out' = IF finish(q).nodes = <<>> THEN out ELSE Append(out, finish(q))
  BY DEF Conclude
<1>2. /\ t \in ToSet(loaded)
      /\ todo' \in Seq(ToSet(loaded))' /\ Passed' >= 0
      /\ todo' = SubSeq(loaded', Passed' + 1, Len(loaded'))
      /\ PassedTypes' = PassedTypes \cup {t}
      /\ \A s \in PassedTypes : s.id # t.id
  BY <1>1, Onward
<1>3. loaded' = loaded /\ table' = table /\ known' = known /\ allowed' = allowed
  BY DEF inputs
<1>4. /\ loaded \in Catalogs /\ table \in Tables /\ out \in Seq(ToSet(out)) /\ CollectedOnce
      /\ \A m \in DOMAIN out : \E s \in PassedTypes : out[m].id = s.id
      /\ \A s \in PassedTypes : GotAsMeant(s)
  BY DEF ResolveIInv, ResolveTypeOK, ByPassed
<1>5. PICK last : last = finish(q)
  OBVIOUS
<1>6. /\ last.id = t.id
      /\ IsApart(last.nodes) /\ IsInOnePlace(last.nodes)
      /\ IsUnambiguous(t) => Collected(last.nodes) = Asked(t)
  BY <1>2, <1>4, <1>5, FinishIs
<1>7. \A nodes : Collected(nodes)' = Collected(nodes)
  BY MeaningStays
<1>8. Collected(<<>>) = {}
  <2>1. DOMAIN <<>> = {}
    OBVIOUS
  <2> QED
    BY <2>1 DEF Collected
<1>9. \A m \in DOMAIN out : out[m].id # t.id
  BY <1>2, <1>4
<1> DEFINE Adds == /\ out' \in Seq(ToSet(out))' /\ CollectedOnce'
                   /\ \A m \in DOMAIN out' : \E s \in PassedTypes' : out'[m].id = s.id
                   /\ \A id : id # t.id => Got(id)' = Got(id)
                   /\ Got(t.id)' = Collected(last.nodes)
<1>10. ASSUME last.nodes = <<>> PROVE Adds
  <2>1. out' = out
    BY <1>1, <1>5, <1>10
  <2>2. \A id : Got(id)' = Got(id)
    BY <1>7, <2>1 DEF Got
  <2>3. Got(t.id)' = Collected(last.nodes)
    <3>1. Got(t.id) = {}
      BY <1>9 DEF Got
    <3> QED
      BY <1>8, <1>10, <2>2, <3>1
  <2>4. out' \in Seq(ToSet(out))'
    BY <1>4, <2>1
  <2>5. \A m \in DOMAIN out' : \E s \in PassedTypes' : out'[m].id = s.id
    BY <1>2, <1>4, <2>1
  <2>6. CollectedOnce'
    BY <1>4, <2>1 DEF CollectedOnce, IsApart, IsInOnePlace, Alike
  <2> QED
    BY <2>2, <2>3, <2>4, <2>5, <2>6, Zenon
<1>11. ASSUME last.nodes # <<>> PROVE Adds
  <2> DEFINE e == Len(out) + 1
  <2>1. /\ out' \in Seq(ToSet(out))'
        /\ DOMAIN out' = DOMAIN out \cup {e} /\ e \notin DOMAIN out
        /\ \A m \in DOMAIN out : out'[m] = out[m]
        /\ out'[e] = last
    <3>1. out' = Append(out, last)
      BY <1>1, <1>5, <1>11
    <3>2. PICK u : u = out'
      OBVIOUS
    <3>3. IsOneMore(u, out, last)
      <4>1. IsOneMore(Append(out, last), out, last)
        BY <1>4, Appended
      <4> QED
        BY <3>1, <3>2, <4>1, Zenon
    <3> QED
      BY <3>2, <3>3 DEF ToSet, IsOneMore
  <2> HIDE DEF e
  <2>2. \A id : id # t.id => Got(id)' = Got(id)
    BY <1>6, <1>7, <2>1 DEF Got
  <2>3. Got(t.id)' = Collected(last.nodes)
    <3>1. {l \in DOMAIN out' : out'[l].id = t.id} = {e}
      BY <1>6, <1>9, <2>1
    <3> QED
      BY <1>7, <2>1, <3>1 DEF Got
  <2>4. \A m \in DOMAIN out' : \E s \in PassedTypes' : out'[m].id = s.id
    BY <1>2, <1>4, <1>6, <2>1
  <2>5. CollectedOnce'
    BY <1>4, <1>6, <2>1 DEF CollectedOnce, IsApart, IsInOnePlace, Alike
  <2> QED
    BY <2>1, <2>2, <2>3, <2>4, <2>5, Zenon
<1>12. /\ out' \in Seq(ToSet(out))' /\ CollectedOnce'
       /\ \A m \in DOMAIN out' : \E s \in PassedTypes' : out'[m].id = s.id
       /\ \A id : id # t.id => Got(id)' = Got(id)
       /\ Got(t.id)' = Collected(last.nodes)
  <2> HIDE DEF Adds
  <2>1. Adds
    BY <1>10, <1>11
  <2> QED
    BY <2>1, Zenon DEF Adds
<1>13. GotAsMeant(t)'
  <2>1. Applicable(t)
    BY <1>2, <1>4, AppliesAsMeant
  <2>2. IsUnambiguous(t)' <=> IsUnambiguous(t)
    BY MeaningStays
  <2>3. Applicable(t)' <=> Applicable(t)
    BY MeaningStays
  <2>4. Asked(t)' = Asked(t)
    BY MeaningStays
  <2> QED
    BY <1>6, <1>12, <2>1, <2>2, <2>3, <2>4 DEF GotAsMeant
<1>14. ASSUME NEW s \in PassedTypes PROVE GotAsMeant(s)'
  <2>1. Got(s.id)' = Got(s.id) /\ GotAsMeant(s)
    BY <1>2, <1>4, <1>12
  <2> QED
    BY <2>1, OthersStay
<1>15. ByPassed'
  BY <1>2, <1>12, <1>13, <1>14 DEF ByPassed
<1>16. ResolveTypeOK'
  BY <1>1, <1>2, <1>3, <1>12 DEF ResolveIInv, ResolveTypeOK
<1>17. InTurn'
  BY <1>1, <1>2 DEF InTurn, NoPlan
<1> QED
  BY <1>12, <1>15, <1>16, <1>17 DEF ResolveIInv

-----------------------------------------------------------------------------
(* The theorems.                                                           *)

\* Nothing is done with at first.
LEMMA Start ==
    ASSUME ResolveInit
    PROVE  ResolveIInv
<1> DEFINE S == ToSet(loaded)
<1>1. /\ loaded \in Seq(S) /\ Len(loaded) \in Nat /\ todo = loaded /\ out = <<>> /\ plan = NoPlan
      /\ at = "table"
  BY CatalogAssumption, LenProperties DEF ResolveInit
<1>2. PICK slice : slice = SubSeq(loaded, 1, Len(loaded))
  OBVIOUS
<1> HIDE DEF S
<1>3. slice = loaded
  <2>1. 1 \in Nat \ {0} /\ Len(loaded) <= Len(loaded) /\ 1 <= Len(loaded) + 1
    BY <1>1
  <2>2. /\ slice \in Seq(S) /\ Len(slice) = Len(loaded) - 1 + 1
        /\ \A i \in 1 .. Len(loaded) - 1 + 1 : slice[i] = loaded[1 + i - 1]
    BY <1>1, <1>2, <2>1, Slice
  <2>3. Len(slice) = Len(loaded) /\ \A i \in 1 .. Len(slice) : slice[i] = loaded[i]
    BY <1>1, <2>2
  <2> QED
    BY <1>1, <2>2, <2>3, SeqEqual
<1>4. Passed = 0 /\ PassedTypes = {}
  BY <1>1 DEF Passed, PassedTypes
<1>5. Passed >= 0 /\ todo = SubSeq(loaded, Passed + 1, Len(loaded))
  BY <1>1, <1>2, <1>3, <1>4
<1>6. DOMAIN <<>> = {} /\ <<>> \in Seq(ToSet(<<>>))
  OBVIOUS
<1>7. ResolveTypeOK
  BY <1>1, <1>6 DEF ResolveTypeOK, ResolveInit, S
<1>8. InTurn
  BY <1>1, <1>5 DEF InTurn
<1>9. ByPassed
  BY <1>1, <1>4, <1>6 DEF ByPassed
<1>10. CollectedOnce
  BY <1>1, <1>6 DEF CollectedOnce
<1> QED
  BY <1>7, <1>8, <1>9, <1>10 DEF ResolveIInv

\* A step that concludes no device type keeps what all of them have.
LEMMA RestKeeps ==
    ASSUME ResolveIInv, UNCHANGED <<inputs, todo, out>>, at # "failed"
    PROVE  ByPassed' /\ CollectedOnce'
<1>1. loaded' = loaded /\ todo' = todo /\ out' = out
  BY DEF inputs
<1>2. PassedTypes' = PassedTypes
  BY <1>1 DEF PassedTypes, Passed
<1>3. \A id : Got(id)' = Got(id)
  <2>1. \A nodes : Collected(nodes)' = Collected(nodes)
    BY MeaningStays
  <2> QED
    BY <1>1, <2>1 DEF Got
<1>4. ASSUME NEW s \in PassedTypes PROVE GotAsMeant(s)'
  <2>1. GotAsMeant(s)
    BY DEF ResolveIInv, ByPassed
  <2> QED
    BY <1>3, <2>1, OthersStay
<1>5. ByPassed'
  BY <1>1, <1>2, <1>4 DEF ResolveIInv, ByPassed
<1>6. CollectedOnce'
  BY <1>1 DEF ResolveIInv, CollectedOnce, IsApart, IsInOnePlace, Alike
<1> QED
  BY <1>5, <1>6

\* A device type is planned; with no path pending it is concluded as planned.
LEMMA PlanNextKeeps ==
    ASSUME ResolveIInv, PlanNext
    PROVE  ResolveIInv'
<1>1. PICK t : t = Head(todo)
  OBVIOUS
<1>2. PICK p : p = plan_of(t)
  OBVIOUS
<1>3. /\ at = "next" /\ todo # <<>> /\ UNCHANGED inputs
      /\ accepts_device_type(t) /\ applies(t) /\ p.root # NoNode
      /\ \/ Pending(p) = {} /\ Conclude(p)
         \/ plan' = p /\ at' = "translate" /\ UNCHANGED <<todo, out>>
  BY <1>1, <1>2 DEF PlanNext
<1>4. t \in ToSet(loaded) /\ loaded \in Catalogs
  <2>1. loaded \in Catalogs /\ todo \in Seq(ToSet(loaded))
    BY DEF ResolveIInv, ResolveTypeOK
  <2> QED
    BY <1>1, <1>3, <2>1, HeadTailProperties
<1>5. CASE Pending(p) = {} /\ Conclude(p)
  <2>1. p.id = t.id /\ p.entries = Entries(p)
    BY <1>2, <1>4, <1>5, ResolvedIs
  <2> QED
    BY <1>1, <1>2, <1>3, <1>5, <2>1, ConcludeKeeps
<1>6. CASE plan' = p /\ at' = "translate" /\ UNCHANGED <<todo, out>>
  <2>1. ByPassed' /\ CollectedOnce'
    BY <1>3, <1>6, RestKeeps
  <2>2. loaded' = loaded /\ table' = table /\ known' = known /\ allowed' = allowed
    BY <1>3 DEF inputs
  <2>3. ResolveTypeOK'
    BY <1>6, <2>2 DEF ResolveIInv, ResolveTypeOK
  <2>4. (accepts_device_type(t) /\ applies(t))' /\ plan' = plan_of(t)' /\ plan'.root # NoNode
    BY <1>2, <1>3, <1>6, MeaningStays
  <2>5. InTurn'
    <3>1. Passed' = Passed /\ at # "failed"
      BY <1>3, <1>6, <2>2 DEF Passed
    <3>2. Passed' >= 0 /\ todo' = SubSeq(loaded', Passed' + 1, Len(loaded'))
      BY <1>6, <2>2, <3>1 DEF ResolveIInv, InTurn
    <3>3. t \in ToSet(loaded') /\ t = Head(todo') /\ todo' # <<>>
      BY <1>1, <1>3, <1>4, <1>6, <2>2
    <3> QED
      BY <1>6, <2>4, <3>2, <3>3 DEF InTurn, NoNode
  <2> QED
    BY <2>1, <2>3, <2>5 DEF ResolveIInv
<1> QED
  BY <1>3, <1>5, <1>6

\* A device type is concluded with the answers in its plan.
LEMMA TranslateKeeps ==
    ASSUME ResolveIInv, Translate
    PROVE  ResolveIInv'
<1>1. at = "translate" /\ UNCHANGED inputs /\ Conclude(set_resolved(plan, Answers(plan)))
  BY DEF Translate
<1>2. PICK t \in ToSet(loaded) : /\ t = Head(todo)
                                 /\ accepts_device_type(t) /\ applies(t)
                                 /\ plan = plan_of(t) /\ plan.root # NoNode
  BY <1>1 DEF ResolveIInv, InTurn
<1>3. todo # <<>> /\ loaded \in Catalogs
  BY <1>1 DEF ResolveIInv, InTurn, ResolveTypeOK
<1>4. PICK p : p = plan
  OBVIOUS
<1>5. PICK q : q = set_resolved(p, Answers(p))
  OBVIOUS
<1>6. q.id = t.id /\ q.entries = Entries(p)
  BY <1>2, <1>3, <1>4, <1>5, ResolvedIs
<1>7. Conclude(q)
  BY <1>1, <1>4, <1>5
<1> QED
  BY <1>1, <1>2, <1>3, <1>4, <1>6, <1>7, ConcludeKeeps

\* ResolveIInv is inductive.
THEOREM ResolveInductive == ResolveSpec => []ResolveIInv
<1>1. ResolveInit => ResolveIInv
  BY Start
<1>2. ResolveIInv /\ [ResolveNext]_resolveVars => ResolveIInv'
  <2> SUFFICES ASSUME ResolveIInv, [ResolveNext]_resolveVars PROVE ResolveIInv'
    OBVIOUS
  <2>1. CASE ReadTable
    <3>1. /\ at = "table" /\ at' = "next" /\ UNCHANGED <<inputs, todo, plan, out>>
      BY <2>1 DEF ReadTable
    <3>2. loaded' = loaded /\ table' = table /\ known' = known /\ allowed' = allowed
      BY <3>1 DEF inputs
    <3>3. ByPassed' /\ CollectedOnce'
      BY <3>1, RestKeeps
    <3>4. ResolveTypeOK' /\ InTurn'
      BY <3>1, <3>2 DEF ResolveIInv, ResolveTypeOK, InTurn, Passed
    <3> QED
      BY <3>3, <3>4 DEF ResolveIInv
  <2>2. CASE PassOver
    BY <2>2, PassOverKeeps
  <2>3. CASE PlanNext
    BY <2>3, PlanNextKeeps
  <2>4. CASE Translate
    BY <2>4, TranslateKeeps
  <2>5. CASE RequestFails
    <3>1. at' = "failed" /\ out' = <<>> /\ todo' = <<>> /\ plan' = NoPlan /\ UNCHANGED inputs
      BY <2>5 DEF RequestFails
    <3>2. loaded' = loaded /\ table' = table /\ known' = known /\ allowed' = allowed
      BY <3>1 DEF inputs
    <3>3. DOMAIN <<>> = {} /\ \A S : <<>> \in Seq(S)
      OBVIOUS
    <3>4. ResolveTypeOK'
      BY <3>1, <3>2, <3>3 DEF ResolveIInv, ResolveTypeOK
    <3>5. InTurn' /\ ByPassed' /\ CollectedOnce'
      BY <3>1, <3>3 DEF InTurn, ByPassed, CollectedOnce, NoPlan
    <3> QED
      BY <3>4, <3>5 DEF ResolveIInv
  <2>6. CASE AllDone
    <3>1. /\ at = "next" /\ todo = <<>> /\ at' = "done" /\ UNCHANGED <<inputs, todo, plan, out>>
      BY <2>6 DEF AllDone
    <3>2. loaded' = loaded /\ table' = table /\ known' = known /\ allowed' = allowed
      BY <3>1 DEF inputs
    <3>3. ByPassed' /\ CollectedOnce'
      BY <3>1, RestKeeps
    <3>4. ResolveTypeOK' /\ InTurn'
      BY <3>1, <3>2 DEF ResolveIInv, ResolveTypeOK, InTurn, Passed
    <3> QED
      BY <3>3, <3>4 DEF ResolveIInv
  <2>7. CASE UNCHANGED resolveVars
    <3>1. UNCHANGED <<inputs, at, todo, plan, out>>
      BY <2>7 DEF resolveVars, inputs
    <3>2. loaded' = loaded /\ table' = table /\ known' = known /\ allowed' = allowed
      BY <3>1 DEF inputs
    <3>3. ResolveTypeOK'
      BY <3>1, <3>2 DEF ResolveIInv, ResolveTypeOK
    <3>4. at # "failed" => ByPassed' /\ CollectedOnce'
      BY <3>1, RestKeeps
    <3>5. at = "failed" => ByPassed' /\ CollectedOnce'
      BY <3>1 DEF ResolveIInv, ByPassed, CollectedOnce, IsApart, IsInOnePlace, Alike
    <3>6. InTurn'
      <4>1. ASSUME NEW t, accepts_device_type(t) /\ applies(t)
            PROVE  (accepts_device_type(t) /\ applies(t))'
        BY <3>1, <4>1, MeaningStays
      <4>2. \A t : plan_of(t)' = plan_of(t)
        BY <3>1, MeaningStays
      <4>3. at = "translate" => \E t \in ToSet(loaded') : /\ t = Head(todo')
                                                          /\ (accepts_device_type(t) /\ applies(t))'
                                                          /\ plan' = plan_of(t)' /\ plan'.root # NoNode
        BY <3>1, <3>2, <4>1, <4>2 DEF ResolveIInv, InTurn
      <4> QED
        BY <3>1, <3>2, <4>3 DEF ResolveIInv, InTurn, Passed, NoPlan, NoNode
    <3> QED
      BY <3>3, <3>4, <3>5, <3>6 DEF ResolveIInv
  <2> QED
    BY <2>1, <2>2, <2>3, <2>4, <2>5, <2>6, <2>7 DEF ResolveNext
<1> QED
  BY <1>1, <1>2, PTL DEF ResolveSpec

\* Resolution is type correct: what remains are device types, mappings are listed.
THEOREM ResolveTypeCorrect == ResolveSpec => []ResolveTypeOK
<1>1. ResolveIInv => ResolveTypeOK
  BY DEF ResolveIInv
<1> QED
  BY <1>1, ResolveInductive, PTL

\* When all device types are done with, each that can be read in one way has got,
\* of every entry this gateway supports, the node its author meant, delivered as
\* its author meant; and one that does not apply here has got nothing.
THEOREM BoundAsMeant == ResolveSpec => []AsAuthored
<1>1. ResolveIInv => AsAuthored
  <2> SUFFICES ASSUME ResolveIInv, at = "done", NEW t \in ToSet(loaded) PROVE GotAsMeant(t)
    BY DEF AsAuthored
  <2>1. /\ todo = <<>> /\ loaded \in Catalogs
        /\ \A s \in PassedTypes : GotAsMeant(s)
    BY DEF ResolveIInv, ResolveTypeOK, InTurn, ByPassed
  <2>2. DOMAIN loaded = 1 .. Len(loaded) /\ Len(loaded) \in Nat
    BY <2>1, CatalogAssumption, LenProperties
  <2>3. Passed = Len(loaded)
    BY <2>1, <2>2 DEF Passed
  <2>4. t \in PassedTypes
    BY <2>2, <2>3 DEF PassedTypes, ToSet
  <2> QED
    BY <2>1, <2>4
<1> QED
  BY <1>1, ResolveInductive, PTL

\* No value is collected twice for one purpose, however a device type is written.
THEOREM NothingTwice == ResolveSpec => []CollectedOnce
<1>1. ResolveIInv => CollectedOnce
  BY DEF ResolveIInv
<1> QED
  BY <1>1, ResolveInductive, PTL

=============================================================================
