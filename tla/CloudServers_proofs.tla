------------------------- MODULE CloudServers_proofs -------------------------
(***************************************************************************)
(* What a poll publishes and adopts, for every number of servers, every    *)
(* page size and any edits of the inventory between two requests, checked  *)
(* by TLAPS.                                                               *)
(***************************************************************************)
EXTENDS CloudServers, SequenceTheorems, TLAPS

-----------------------------------------------------------------------------
(* Pages and lists.                                                        *)

\* Where a page begins and ends.
LEMMA PageBounds ==
    ASSUME NEW n \in 1 .. MaxPages
    PROVE  /\ n * PageSize \in Nat
           /\ (n - 1) * PageSize \in Nat
           /\ n * PageSize = (n - 1) * PageSize + PageSize
           /\ (n - 1) * PageSize < n * PageSize
           /\ n * PageSize <= MaxPages * PageSize
           /\ (n + 1 - 1) * PageSize = n * PageSize
           /\ MaxPages * PageSize \in Nat
<1> USE PageAssumption
<1>1. n \in Nat \ {0} /\ n <= MaxPages /\ PageSize \in Nat \ {0} /\ MaxPages \in Nat
  OBVIOUS
<1>2. n * PageSize \in Nat /\ (n - 1) * PageSize \in Nat /\ MaxPages * PageSize \in Nat
  BY <1>1
<1>3. n * PageSize = (n - 1) * PageSize + PageSize
  BY <1>1
<1>4. n * PageSize <= MaxPages * PageSize
  <2>1. PICK d \in Nat : MaxPages = n + d
    <3>1. MaxPages - n \in Nat /\ MaxPages = n + (MaxPages - n)
      BY <1>1
    <3> QED
      BY <3>1
  <2>2. MaxPages * PageSize = n * PageSize + d * PageSize
    BY <1>1, <2>1
  <2>3. d * PageSize \in Nat
    BY <1>1
  <2> QED
    BY <1>2, <2>2, <2>3
<1>5. n + 1 - 1 = n
  BY <1>1
<1> QED
  BY <1>1, <1>2, <1>3, <1>4, <1>5

\* A page holds the children of its range, and is full unless they end in it.
LEMMA PageHolds ==
    ASSUME TypeOK, NEW n \in 1 .. MaxPages
    PROVE  /\ PageOf(n) \in Seq(Servers)
           /\ \A s \in ToSet(PageOf(n)) : \E i \in DOMAIN children :
                 children[i] = s /\ i <= n * PageSize
           /\ \A i \in DOMAIN children :
                 (n - 1) * PageSize < i /\ i <= n * PageSize => children[i] \in ToSet(PageOf(n))
           /\ Len(PageOf(n)) < PageSize => Len(children) < n * PageSize
           /\ PageOf(n) = <<>> => Len(children) <= (n - 1) * PageSize
<1> DEFINE from == (n - 1) * PageSize + 1
           end == n * PageSize
           upTo == IF end < Len(children) THEN end ELSE Len(children)
<1>1. /\ children \in Seq(Servers)
      /\ Len(children) \in Nat
      /\ DOMAIN children = 1 .. Len(children)
      /\ \A i \in 1 .. Len(children) : children[i] \in Servers
  BY LenProperties, ElementOfSeq DEF TypeOK
<1>2. /\ from \in Nat \ {0} /\ end \in Nat
      /\ end = from - 1 + PageSize
      /\ PageSize \in Nat \ {0}
  BY PageBounds, PageAssumption
<1>3. PageOf(n) = SubSeq(children, from, upTo)
  BY DEF PageOf
<1>4. from - 1 = (n - 1) * PageSize /\ end = n * PageSize
  BY <1>2, PageBounds
<1> HIDE DEF from, end
<1>5. upTo \in Nat /\ upTo <= Len(children) /\ upTo <= end
  BY <1>1, <1>2
<1>6. /\ PageOf(n) \in Seq(Servers)
      /\ Len(PageOf(n)) = IF from <= upTo THEN upTo - from + 1 ELSE 0
      /\ \A i \in 1 .. upTo - from + 1 : PageOf(n)[i] = children[from + i - 1]
  <2>1. \A i \in from .. upTo : children[i] \in Servers
    BY <1>1, <1>2, <1>5
  <2>2. from \in Int /\ upTo \in Int
    BY <1>2, <1>5
  <2> HIDE DEF upTo
  <2> QED
    BY <1>3, <2>1, <2>2, SubSeqProperties
<1>7. DOMAIN PageOf(n) = 1 .. Len(PageOf(n)) /\ Len(PageOf(n)) \in Nat
  BY <1>6, LenProperties
<1>8. ASSUME NEW k \in DOMAIN PageOf(n)
      PROVE  \E i \in DOMAIN children : children[i] = PageOf(n)[k] /\ i <= end
  <2>1. k \in 1 .. upTo - from + 1 /\ from + k - 1 \in 1 .. upTo
    BY <1>2, <1>5, <1>6, <1>7
  <2>2. PageOf(n)[k] = children[from + k - 1]
    BY <1>6, <2>1
  <2>3. from + k - 1 \in DOMAIN children /\ from + k - 1 <= end
    BY <1>1, <1>2, <1>5, <2>1
  <2> QED
    BY <2>2, <2>3
<1>9. ASSUME NEW i \in DOMAIN children, from <= i, i <= end
      PROVE  children[i] \in ToSet(PageOf(n))
  <2>1. i <= upTo /\ i - from + 1 \in 1 .. upTo - from + 1 /\ from + (i - from + 1) - 1 = i
    BY <1>1, <1>2, <1>9
  <2>2. i - from + 1 \in DOMAIN PageOf(n) /\ PageOf(n)[i - from + 1] = children[i]
    BY <1>2, <1>5, <1>6, <1>7, <2>1
  <2> QED
    BY <2>2 DEF ToSet
<1>10. Len(PageOf(n)) < PageSize => Len(children) < end
  BY <1>1, <1>2, <1>5, <1>6
<1>11. PageOf(n) = <<>> => Len(children) <= from - 1
  <2>1. PageOf(n) = <<>> => Len(PageOf(n)) = 0
    OBVIOUS
  <2> QED
    BY <1>1, <1>2, <1>5, <1>6, <2>1
<1>12. \A i \in DOMAIN children : (n - 1) * PageSize < i <=> from <= i
  BY <1>1, <1>2, <1>4
<1> QED
  BY <1>4, <1>6, <1>8, <1>9, <1>10, <1>11, <1>12 DEF ToSet

\* Taking out one element moves up those behind it.
LEMMA OneRemoved ==
    ASSUME NEW S, NEW c \in Seq(S), NEW n \in DOMAIN c
    PROVE  /\ RemoveAt(c, n) \in Seq(S)
           /\ DOMAIN RemoveAt(c, n) = 1 .. Len(c) - 1
           /\ DOMAIN c = 1 .. Len(c)
           /\ Len(c) \in Nat
           /\ \A i \in 1 .. Len(c) - 1 :
                 RemoveAt(c, n)[i] = IF i < n THEN c[i] ELSE c[i + 1]
<1> DEFINE a == SubSeq(c, 1, n - 1)
           b == SubSeq(c, n + 1, Len(c))
<1>1. /\ DOMAIN c = 1 .. Len(c) /\ Len(c) \in Nat /\ n \in 1 .. Len(c)
      /\ \A i \in 1 .. Len(c) : c[i] \in S
  BY LenProperties, ElementOfSeq
<1>2. /\ a \in Seq(S) /\ Len(a) = n - 1
      /\ \A i \in 1 .. n - 1 : a[i] = c[i]
  <2>1. \A i \in 1 .. n - 1 : c[i] \in S
    BY <1>1
  <2>2. 1 \in Int /\ n - 1 \in Int
    BY <1>1
  <2>3. /\ a \in Seq(S)
        /\ Len(a) = IF 1 <= n - 1 THEN n - 1 - 1 + 1 ELSE 0
        /\ \A i \in 1 .. n - 1 - 1 + 1 : a[i] = c[1 + i - 1]
    BY <2>1, <2>2, SubSeqProperties
  <2> QED
    BY <1>1, <2>3
<1>3. /\ b \in Seq(S) /\ Len(b) = Len(c) - n
      /\ \A i \in 1 .. Len(c) - n : b[i] = c[n + i]
  <2>1. \A i \in n + 1 .. Len(c) : c[i] \in S
    BY <1>1
  <2>2. n + 1 \in Int /\ Len(c) \in Int
    BY <1>1
  <2>3. /\ b \in Seq(S)
        /\ Len(b) = IF n + 1 <= Len(c) THEN Len(c) - (n + 1) + 1 ELSE 0
        /\ \A i \in 1 .. Len(c) - (n + 1) + 1 : b[i] = c[n + 1 + i - 1]
    BY <2>1, <2>2, SubSeqProperties
  <2> QED
    BY <1>1, <2>3
<1>4. RemoveAt(c, n) = a \o b
  BY DEF RemoveAt
<1> HIDE DEF a, b
<1>5. /\ a \o b \in Seq(S)
      /\ Len(a \o b) = Len(a) + Len(b)
      /\ \A i \in 1 .. Len(a) + Len(b) : (a \o b)[i] = IF i <= Len(a) THEN a[i] ELSE b[i - Len(a)]
  BY <1>2, <1>3, ConcatProperties
<1>6. DOMAIN (a \o b) = 1 .. Len(c) - 1
  <2>1. DOMAIN (a \o b) = 1 .. Len(a \o b)
    BY <1>5, LenProperties
  <2>2. Len(a \o b) = Len(c) - 1
    BY <1>1, <1>2, <1>3, <1>5
  <2> QED
    BY <2>1, <2>2
<1>7. ASSUME NEW i \in 1 .. Len(c) - 1
      PROVE  (a \o b)[i] = IF i < n THEN c[i] ELSE c[i + 1]
  <2>1. CASE i < n
    BY <1>1, <1>2, <1>3, <1>5, <2>1
  <2>2. CASE ~(i < n)
    <3>1. i - (n - 1) \in 1 .. Len(c) - n /\ n + (i - (n - 1)) = i + 1 /\ ~(i <= Len(a))
      BY <1>1, <1>2, <2>2
    <3>2. (a \o b)[i] = b[i - (n - 1)]
      BY <1>1, <1>2, <1>3, <1>5, <3>1
    <3>3. b[i - (n - 1)] = c[n + (i - (n - 1))]
      BY <1>3, <3>1
    <3> QED
      BY <2>2, <3>1, <3>2, <3>3
  <2> QED
    BY <2>1, <2>2
<1> QED
  BY <1>1, <1>4, <1>5, <1>6, <1>7

-----------------------------------------------------------------------------
(* Types.                                                                  *)

\* Putting a server into a set of servers.
LEMMA PushedIsMap ==
    ASSUME TypeOK, NEW s \in Servers, NEW cfg \in Configs
    PROVE  /\ IsMap(MapInsert(found, s, cfg), Servers, Configs)
           /\ DOMAIN MapInsert(found, s, cfg) = DOMAIN found \cup {s}
           /\ MapInsert(found, s, cfg)[s] = cfg
           /\ \A x \in DOMAIN found : x # s => MapInsert(found, s, cfg)[x] = found[x]
BY DEF TypeOK, IsMap, MapInsert

\* No set at all is a set of servers.
LEMMA EmptyIsMap == IsMap(EmptyMap, Servers, Configs) /\ DOMAIN EmptyMap = {}
BY DEF IsMap, EmptyMap

\* Nothing exists and nothing is known at the start.
LEMMA InitInv == Init => IInv
<1> SUFFICES ASSUME Init PROVE IInv
  OBVIOUS
<1>1. TypeOK
  <2>1. <<>> \in Seq(Servers)
    BY EmptySeq
  <2>2. 0 \in 0 .. MaxGateways /\ 0 \in 0 .. MaxEdits /\ 0 \in 0 .. MaxOutages
        /\ 1 \in 1 .. MaxPages
    BY BoundAssumption, PageAssumption
  <2>3. /\ settings \in [Servers -> Configs \cup {Unusable}]
        /\ claim \in [Servers -> {"nobody", "own", "other"}]
    BY DEF Init
  <2> QED
    BY <2>1, <2>2, <2>3, EmptyIsMap DEF Init, TypeOK
<1>2. DOMAIN children = {} /\ ToSet(children) = {} /\ Handled = {}
  BY EmptyIsMap DEF Init, Handled, BeingRead, ToSet
<1>3. ObjectsByLife /\ WithinPages /\ AdoptedFirst /\ OneDevicePerServerOnline
  BY <1>2 DEF Init, ObjectsByLife, WithinPages, AdoptedFirst, OneDevicePerServerOnline,
              OneDevicePerServer, Exists
<1>4. ReadingByPlace
  BY EmptyIsMap DEF Init, ReadingByPlace
<1>5. Witnessed /\ OnlineWhileFetching /\ Covered
  BY DEF Init, Witnessed, OnlineWhileFetching, Covered, Fetching
<1> QED
  BY <1>1, <1>3, <1>4, <1>5 DEF IInv

\* A server that is read is one of the usable, with its settings.
LEMMA UsableType ==
    ASSUME TypeOK
    PROVE  /\ Usable \subseteq Servers
           /\ \A s \in Usable : settings[s] \in Configs
           /\ \A s \in Servers : Exists(s) <=> s \in ToSet(children)
           /\ ToSet(children) \subseteq Servers
<1>1. DOMAIN children = 1 .. Len(children) /\ \A i \in 1 .. Len(children) : children[i] \in Servers
  BY LenProperties, ElementOfSeq DEF TypeOK
<1> QED
  BY <1>1 DEF TypeOK, Usable, Exists, ToSet

\* The provider's steps.
LEMMA ProviderType ==
    ASSUME TypeOK, ReadingByPlace, Provider
    PROVE  TypeOK'
<1>1. CASE GatewayFound \/ WakeUp
  <2>1. during' \subseteq Servers \X Configs /\ steady' \subseteq Servers
    BY <1>1, UsableType DEF GatewayFound, WakeUp, Begins, TypeOK, history
  <2>2. /\ IsMap(found', Servers, Configs) /\ page' \in 1 .. MaxPages
        /\ gateway_mo_id' \in 0 .. MaxGateways /\ pc' \in {"list", "lookup"}
        /\ UNCHANGED <<todo, last, reading, cloud, signals, published, served>>
    BY <1>1, EmptyIsMap, PageAssumption DEF GatewayFound, WakeUp, Begins, TypeOK, poll
  <2> QED
    BY <2>1, <2>2 DEF TypeOK, cloud, signals
<1>2. CASE NoGateway \/ Return \/ ListGone \/ ListFails \/ Unheard \/ Unclaimed
  <2>1. /\ pc' \in {"asleep", "returned", "plant"}
        /\ gateway_mo_id' \in 0 .. MaxGateways
        /\ UNCHANGED <<cloud, signals, poll, published, served, history>>
    BY <1>2, BoundAssumption
       DEF NoGateway, Return, ListGone, ListFails, Unheard, Unclaimed, TypeOK
  <2> QED
    BY <2>1 DEF TypeOK, cloud, signals, poll, history
<1>3. CASE ListPage
  <2>1. PageOf(page) \in Seq(Servers)
    BY PageHolds DEF TypeOK
  <2> QED
    BY <1>3, <2>1 DEF ListPage, TypeOK, cloud, signals, history
<1>4. CASE ReadServer \/ SkipChild
  <2>1. todo' \in Seq(Servers)
    BY <1>4, HeadTailProperties DEF ReadServer, SkipChild, TypeOK
  <2>2. reading' \in {<<>>} \cup (Servers \X Configs)
    BY <1>4, UsableType DEF ReadServer, SkipChild, TypeOK
  <2>3. /\ pc' \in {"read", "check"}
        /\ UNCHANGED <<cloud, signals, gateway_mo_id, page, last, found, published,
                       served, history>>
    BY <1>4 DEF ReadServer, SkipChild
  <2> QED
    BY <2>1, <2>2, <2>3 DEF TypeOK, cloud, signals, history
<1>5. CASE PageDone
  <2>1. page' \in 1 .. MaxPages /\ pc' \in {"publish", "list"}
    BY <1>5, PageAssumption DEF PageDone, TypeOK
  <2> QED
    BY <1>5, <2>1 DEF PageDone, TypeOK, cloud, signals, history
<1>6. CASE NothingToPlant \/ Plant
  <2>1. reading \in Servers \X Configs
    BY <1>6 DEF NothingToPlant, Plant, ReadingByPlace, TypeOK
  <2>2. IsMap(found', Servers, Configs) /\ reading' = <<>> /\ pc' = "read"
    BY <1>6, <2>1, PushedIsMap DEF NothingToPlant, Plant, Pushed
  <2>3. claim' \in [Servers -> {"nobody", "own", "other"}]
    BY <1>6 DEF NothingToPlant, Plant, TypeOK, cloud
  <2>4. UNCHANGED <<online, outages, gateway, gateways, children, used, settings, edits,
                    learned, signals, gateway_mo_id, page, todo, last, published,
                    served, history>>
    BY <1>6 DEF NothingToPlant, Plant, cloud
  <2> QED
    BY <2>2, <2>3, <2>4 DEF TypeOK, signals, history
<1>7. CASE Publish
  <2>1. IsMap(published', Servers, Configs) /\ served' \subseteq Servers
    BY <1>7 DEF Publish, TypeOK, IsMap
  <2> QED
    BY <1>7, <2>1 DEF Publish, TypeOK, cloud, signals, poll, history
<1> QED
  BY <1>1, <1>2, <1>3, <1>4, <1>5, <1>6, <1>7 DEF Provider

\* Everybody else: users, the mapper, the network, the end of the process.
World ==
    \/ GatewayCreated
    \/ \E s \in Servers : \E cfg \in Configs \cup {Unusable} : AddServer(s, cfg)
    \/ \E s \in Servers : \E cfg \in Configs \cup {Unusable} : EditServer(s, cfg)
    \/ \E s \in Servers : DeleteServer(s)
    \/ DeleteGateway
    \/ \E s \in Servers : StrangerClaims(s)
    \/ \E s \in Servers : MapperLearns(s)
    \/ GoesOffline
    \/ ComesBack
    \/ Cancel
    \/ ConsumersEnd
    \/ UNCHANGED vars

\* Steps of everybody else.
LEMMA WorldType ==
    ASSUME TypeOK, World
    PROVE  TypeOK'
<1>1. CASE GatewayCreated
  <2>1. gateways + 1 \in 0 .. MaxGateways
    BY <1>1, BoundAssumption DEF GatewayCreated, TypeOK
  <2> QED
    BY <1>1, <2>1 DEF GatewayCreated, TypeOK, signals, provider, poll, history
<1>2. CASE \E s \in Servers : \E cfg \in Configs \cup {Unusable} : AddServer(s, cfg)
  <2>1. PICK s \in Servers, cfg \in Configs \cup {Unusable} : AddServer(s, cfg)
    BY <1>2
  <2>2. children' \in Seq(Servers)
    BY <2>1, AppendProperties DEF AddServer, TypeOK
  <2>3. settings' \in [Servers -> Configs \cup {Unusable}] /\ used' \subseteq Servers
    BY <2>1 DEF AddServer, TypeOK
  <2>4. edits' \in 0 .. MaxEdits
    BY <2>1, BoundAssumption DEF AddServer, TypeOK
  <2>5. during' \subseteq Servers \X Configs
    BY <2>1 DEF AddServer, TypeOK
  <2> QED
    BY <2>1, <2>2, <2>3, <2>4, <2>5 DEF AddServer, TypeOK, signals, provider, poll
<1>3. CASE \E s \in Servers : \E cfg \in Configs \cup {Unusable} : EditServer(s, cfg)
  <2>1. PICK s \in Servers, cfg \in Configs \cup {Unusable} : EditServer(s, cfg)
    BY <1>3
  <2>2. settings' \in [Servers -> Configs \cup {Unusable}] /\ steady' \subseteq Servers
    BY <2>1 DEF EditServer, TypeOK
  <2>3. edits' \in 0 .. MaxEdits
    BY <2>1, BoundAssumption DEF EditServer, TypeOK
  <2>4. during' \subseteq Servers \X Configs
    BY <2>1 DEF EditServer, TypeOK
  <2> QED
    BY <2>1, <2>2, <2>3, <2>4 DEF EditServer, TypeOK, signals, provider, poll
<1>4. CASE \E s \in Servers : DeleteServer(s)
  <2>1. PICK s \in Servers : DeleteServer(s)
    BY <1>4
  <2>2. children' \in Seq(Servers)
    BY <2>1, OneRemoved DEF DeleteServer, TypeOK
  <2>3. claim' \in [Servers -> {"nobody", "own", "other"}] /\ steady' \subseteq Servers
    BY <2>1 DEF DeleteServer, Released, TypeOK
  <2>4. edits' \in 0 .. MaxEdits
    BY <2>1, BoundAssumption DEF DeleteServer, TypeOK
  <2> QED
    BY <2>1, <2>2, <2>3, <2>4 DEF DeleteServer, TypeOK, signals, provider, poll
<1>5. CASE DeleteGateway
  <2>1. children' \in Seq(Servers)
    BY <1>5, EmptySeq DEF DeleteGateway
  <2>2. claim' \in [Servers -> {"nobody", "own", "other"}]
    BY <1>5 DEF DeleteGateway, Released, TypeOK
  <2>3. edits' \in 0 .. MaxEdits /\ gateway' \in 0 .. MaxGateways
    BY <1>5, BoundAssumption DEF DeleteGateway, TypeOK
  <2> QED
    BY <1>5, <2>1, <2>2, <2>3 DEF DeleteGateway, TypeOK, signals, provider, poll
<1>6. CASE (\E s \in Servers : StrangerClaims(s)) \/ (\E s \in Servers : MapperLearns(s))
  <2>1. claim' \in [Servers -> {"nobody", "own", "other"}] /\ learned' \subseteq Servers
    BY <1>6 DEF StrangerClaims, MapperLearns, TypeOK
  <2> QED
    BY <1>6, <2>1 DEF StrangerClaims, MapperLearns, TypeOK, signals, provider, poll, history
<1>7. CASE GoesOffline
  <2>1. outages' \in 0 .. MaxOutages
    BY <1>7, BoundAssumption DEF GoesOffline, TypeOK
  <2> QED
    BY <1>7, <2>1 DEF GoesOffline, TypeOK, signals, provider, poll, history
<1>8. CASE ComesBack \/ Cancel \/ ConsumersEnd \/ UNCHANGED vars
  BY <1>8 DEF ComesBack, Cancel, ConsumersEnd, vars, TypeOK, signals, provider, poll, history, cloud
<1> QED
  BY <1>1, <1>2, <1>3, <1>4, <1>5, <1>6, <1>7, <1>8 DEF World

-----------------------------------------------------------------------------
(* The provider's steps and what they look at.                             *)

\* The next child is one of those to read.
LEMMA TodoParts ==
    ASSUME TypeOK, todo # <<>>
    PROVE  ToSet(todo) = {Head(todo)} \cup ToSet(Tail(todo))
<1>1. /\ Tail(todo) \in Seq(Servers)
      /\ Len(todo) \in Nat \ {0}
      /\ DOMAIN todo = 1 .. Len(todo)
      /\ DOMAIN Tail(todo) = 1 .. Len(todo) - 1
      /\ \A i \in DOMAIN Tail(todo) : Tail(todo)[i] = todo[i + 1]
      /\ Head(todo) = todo[1]
  BY HeadTailProperties, LenProperties, EmptySeq DEF TypeOK
<1>2. \A i \in DOMAIN todo : i = 1 \/ i - 1 \in DOMAIN Tail(todo)
  BY <1>1
<1>3. \A i \in DOMAIN Tail(todo) : i + 1 \in DOMAIN todo
  BY <1>1
<1>4. \A i \in DOMAIN todo : i # 1 => todo[i] = Tail(todo)[i - 1]
  BY <1>1, <1>2
<1>5. 1 \in DOMAIN todo
  BY <1>1
<1> QED
  BY <1>1, <1>2, <1>3, <1>4, <1>5 DEF ToSet

\* The provider handles nothing that it has not listed, within the pages it reads.
LEMMA HandledIsListed ==
    ASSUME IInv, Provider
    PROVE  \A s \in Handled' :
               \/ s \in Handled
               \/ \E i \in DOMAIN children : children[i] = s /\ i <= MaxPages * PageSize
<1>1. CASE GatewayFound \/ WakeUp
  BY <1>1, EmptyIsMap DEF GatewayFound, WakeUp, Begins, Handled, BeingRead, poll
<1>2. CASE NoGateway \/ Return \/ ListGone \/ ListFails \/ Unheard \/ Unclaimed \/ PageDone
  BY <1>2 DEF NoGateway, Return, ListGone, ListFails, Unheard, Unclaimed, PageDone, Handled,
              BeingRead, poll
<1>3. CASE ListPage
  <2>1. page \in 1 .. MaxPages
    BY DEF IInv, TypeOK
  <2>2. \A s \in ToSet(PageOf(page)) : \E i \in DOMAIN children :
            children[i] = s /\ i <= page * PageSize
    BY <2>1, PageHolds DEF IInv
  <2>3. \A i \in DOMAIN children : i <= page * PageSize => i <= MaxPages * PageSize
    <3>1. DOMAIN children \subseteq Nat
      BY LenProperties DEF IInv, TypeOK
    <3> QED
      BY <2>1, <3>1, PageBounds
  <2>4. Handled' \subseteq Handled \cup ToSet(PageOf(page))
    BY <1>3 DEF ListPage, Handled, BeingRead
  <2> QED
    BY <2>2, <2>3, <2>4
<1>4. CASE ReadServer
  <2>1. ToSet(todo) = {Head(todo)} \cup ToSet(Tail(todo))
    BY <1>4, TodoParts DEF ReadServer, IInv
  <2>2. BeingRead' = {Head(todo)}
    BY <1>4 DEF ReadServer, BeingRead
  <2> QED
    BY <1>4, <2>1, <2>2 DEF ReadServer, Handled
<1>5. CASE SkipChild
  <2>1. ToSet(todo) = {Head(todo)} \cup ToSet(Tail(todo))
    BY <1>5, TodoParts DEF SkipChild, IInv
  <2> QED
    BY <1>5, <2>1 DEF SkipChild, Handled, BeingRead
<1>6. CASE NothingToPlant \/ Plant
  <2>1. reading \in Servers \X Configs
    BY <1>6 DEF NothingToPlant, Plant, IInv, ReadingByPlace, TypeOK
  <2>2. DOMAIN found' = DOMAIN found \cup {reading[1]} /\ BeingRead' = {}
    BY <1>6, <2>1, PushedIsMap DEF NothingToPlant, Plant, Pushed, BeingRead, IInv
  <2>3. BeingRead = {reading[1]}
    BY <2>1 DEF BeingRead
  <2>4. UNCHANGED <<todo, served>>
    BY <1>6 DEF NothingToPlant, Plant
  <2> QED
    BY <2>2, <2>3, <2>4 DEF Handled
<1>7. CASE Publish
  BY <1>7 DEF Publish, Handled, BeingRead, poll
<1> QED
  BY <1>1, <1>2, <1>3, <1>4, <1>5, <1>6, <1>7 DEF Provider

\* The provider leaves the inventory alone, and of the claims changes at most
\* that of what it adopts.
LEMMA ProviderLeaves ==
    ASSUME IInv, Provider
    PROVE  /\ UNCHANGED <<online, outages, gateway, children, used, settings>>
           /\ Usable' = Usable
           /\ \A s : Exists(s)' <=> Exists(s)
           /\ \/ claim' = claim
              \/ Plant /\ claim[reading[1]] = "nobody"
                 /\ claim' = [claim EXCEPT ![reading[1]] = "own"]
<1>1. UNCHANGED <<online, outages, gateway, children, used, settings>>
  BY DEF Provider, GatewayFound, NoGateway, WakeUp, Return, ListPage, ListGone, ListFails,
         ReadServer, SkipChild, PageDone, NothingToPlant, Unclaimed, Plant, Publish, Unheard, cloud
<1>2. claim' = claim \/ Plant
  BY DEF Provider, GatewayFound, NoGateway, WakeUp, Return, ListPage, ListGone, ListFails,
         ReadServer, SkipChild, PageDone, NothingToPlant, Unclaimed, Publish, Unheard, cloud
<1>3. Plant => \/ claim' = claim
               \/ claim[reading[1]] = "nobody" /\ claim' = [claim EXCEPT ![reading[1]] = "own"]
  BY DEF Plant
<1> QED
  BY <1>1, <1>2, <1>3 DEF Usable, Exists

\* Lists, ids and pages stay what they were.
LEMMA ProviderLists ==
    ASSUME IInv, Provider
    PROVE  ObjectsByLife' /\ ReadingByPlace' /\ WithinPages' /\ OnlineWhileFetching'
<1>1. DOMAIN children = 1 .. Len(children)
  BY LenProperties DEF IInv, TypeOK
<1>2. /\ \A s \in Handled : s \in used
      /\ \A i \in DOMAIN children : children[i] \in used
  BY DEF IInv, ObjectsByLife, ToSet
<1>3. ObjectsByLife'
  <2>1. \A s \in Handled' : s \in used
    BY <1>2, HandledIsListed
  <2>2. \A s \in Servers \ (used \cup Strangers) : claim'[s] = "nobody"
    <3>1. Plant => reading \in Servers \X Configs /\ reading[1] \in Handled
      BY DEF Plant, IInv, ReadingByPlace, TypeOK, Handled, BeingRead
    <3> QED
      BY <1>2, <3>1, ProviderLeaves DEF IInv, ObjectsByLife, TypeOK
  <2> QED
    BY <2>1, <2>2, ProviderLeaves DEF IInv, ObjectsByLife
<1>4. WithinPages'
  <2> SUFFICES ASSUME NEW i \in DOMAIN children, children[i] \in Handled'
               PROVE  i <= MaxPages * PageSize
    BY ProviderLeaves DEF WithinPages
  <2>1. CASE children[i] \in Handled
    BY <2>1 DEF IInv, WithinPages
  <2>2. CASE \E j \in DOMAIN children : children[j] = children[i] /\ j <= MaxPages * PageSize
    BY <2>2 DEF IInv, ObjectsByLife
  <2> QED
    BY <2>1, <2>2, HandledIsListed
<1>5. ReadingByPlace'
  <2>1. CASE GatewayFound \/ NoGateway \/ WakeUp \/ Return \/ ListPage \/ ListGone \/ ListFails
    BY <2>1 DEF GatewayFound, WakeUp, Begins, NoGateway, Return, ListPage, ListGone, ListFails,
                IInv, ReadingByPlace, poll
  <2>2. CASE ReadServer
    <3>1. reading' # <<>> /\ pc' = "check" /\ UNCHANGED <<published, served>>
      BY <2>2 DEF ReadServer
    <3> QED
      BY <3>1 DEF IInv, ReadingByPlace
  <2>3. CASE SkipChild \/ PageDone \/ Unclaimed \/ Unheard
    BY <2>3 DEF SkipChild, PageDone, Unclaimed, Unheard, IInv, ReadingByPlace, poll
  <2>4. CASE NothingToPlant \/ Plant
    BY <2>4 DEF NothingToPlant, Plant, Pushed, IInv, ReadingByPlace
  <2>5. CASE Publish
    BY <2>5 DEF Publish, IInv, ReadingByPlace, poll
  <2> QED
    BY <2>1, <2>2, <2>3, <2>4, <2>5 DEF Provider
<1>6. OnlineWhileFetching'
  <2>1. CASE GatewayFound \/ WakeUp
    BY <2>1 DEF GatewayFound, WakeUp, Begins, IInv, OnlineWhileFetching, Fetching, cloud
  <2>2. CASE NoGateway \/ Return \/ ListGone \/ ListFails \/ Unheard \/ Publish
    BY <2>2 DEF NoGateway, Return, ListGone, ListFails, Unheard, Publish,
                IInv, OnlineWhileFetching, Fetching, cloud
  <2>3. CASE ListPage \/ ReadServer \/ SkipChild \/ PageDone \/ Unclaimed
    BY <2>3 DEF ListPage, ReadServer, SkipChild, PageDone, Unclaimed,
                IInv, OnlineWhileFetching, Fetching, cloud
  <2>4. CASE NothingToPlant \/ Plant
    BY <2>4 DEF NothingToPlant, Plant, Pushed, IInv, OnlineWhileFetching, Fetching, cloud
  <2> QED
    BY <2>1, <2>2, <2>3, <2>4 DEF Provider
<1> QED
  BY <1>3, <1>4, <1>5, <1>6

\* What the provider finds, history has seen in this poll.
LEMMA ProviderWitnessed ==
    ASSUME IInv, Provider
    PROVE  Witnessed'
<1>1. CASE GatewayFound \/ (WakeUp /\ gateway_mo_id # 0)
  <2>1. /\ during' = {<<s, settings[s]>> : s \in Usable}
        /\ found' = EmptyMap /\ reading' = reading /\ pc \in {"lookup", "asleep"}
    BY <1>1 DEF GatewayFound, WakeUp, Begins
  <2>2. reading' = <<>>
    BY <2>1 DEF IInv, ReadingByPlace
  <2> QED
    BY <2>1, <2>2, EmptyIsMap, ProviderLeaves DEF Witnessed
<1>2. CASE NoGateway \/ Return \/ ListGone \/ ListFails \/ Unheard \/ Publish
           \/ (WakeUp /\ gateway_mo_id = 0)
  BY <1>2 DEF NoGateway, Return, ListGone, ListFails, Unheard, Publish, WakeUp, Witnessed, Fetching
<1>3. CASE ListPage \/ SkipChild \/ PageDone \/ Unclaimed
  <2>1. UNCHANGED <<found, reading, during>> /\ Fetching
    BY <1>3 DEF ListPage, SkipChild, PageDone, Unclaimed, Fetching, poll, history
  <2> QED
    BY <2>1, ProviderLeaves DEF IInv, Witnessed
<1>4. CASE ReadServer
  <2>1. /\ UNCHANGED <<found, during>> /\ Fetching
        /\ reading' = <<Head(todo), settings[Head(todo)]>>
        /\ Head(todo) \in Usable
    BY <1>4 DEF ReadServer, Fetching, history
  <2> QED
    BY <2>1, ProviderLeaves DEF IInv, Witnessed
<1>5. CASE NothingToPlant \/ Plant
  <2>1. reading \in Servers \X Configs /\ Fetching /\ during' = during /\ reading' = <<>>
        /\ found' = MapInsert(found, reading[1], reading[2])
    BY <1>5 DEF NothingToPlant, Plant, Pushed, IInv, ReadingByPlace, TypeOK, Fetching, history
  <2>2. /\ DOMAIN found' = DOMAIN found \cup {reading[1]}
        /\ found'[reading[1]] = reading[2]
        /\ \A x \in DOMAIN found : x # reading[1] => found'[x] = found[x]
    BY <2>1, PushedIsMap DEF IInv
  <2>3. <<reading[1], reading[2]>> \in during
    BY <2>1 DEF IInv, Witnessed
  <2> QED
    BY <2>1, <2>2, <2>3, ProviderLeaves DEF IInv, Witnessed
<1> QED
  BY <1>1, <1>2, <1>3, <1>4, <1>5 DEF Provider

\* What was usable all through a poll is not lost between its requests.
LEMMA ProviderCovered ==
    ASSUME IInv, Provider
    PROVE  Covered'
<1>1. steady' \subseteq Usable'
  <2>1. steady' = steady \/ steady' \subseteq Usable
    BY DEF Provider, GatewayFound, NoGateway, WakeUp, Return, ListPage, ListGone, ListFails,
           ReadServer, SkipChild, PageDone, NothingToPlant, Unclaimed, Plant, Publish, Unheard,
           Begins, history
  <2> QED
    BY <2>1, ProviderLeaves DEF IInv, Covered
<1> SUFFICES ASSUME outages = 0, Fetching', NEW i \in DOMAIN children, children[i] \in steady'
             PROVE  \/ children[i] \in (DOMAIN found \cup BeingRead)'
                    \/ pc' \in {"read", "check", "plant"} /\ children[i] \in ToSet(todo')
                    \/ Ahead(i)'
  BY <1>1, ProviderLeaves DEF Covered
<1>2. /\ i \in Nat \ {0} /\ i <= Len(children) /\ Len(children) \in Nat
      /\ page \in 1 .. MaxPages
  BY LenProperties DEF IInv, TypeOK
<1>3. CASE GatewayFound \/ WakeUp
  <2>1. pc' = "list" /\ page' = 1
    BY <1>3 DEF GatewayFound, WakeUp, Begins, Fetching
  <2>2. (1 - 1) * PageSize = 0
    BY PageAssumption
  <2> QED
    BY <1>2, <2>1, <2>2 DEF Ahead
<1>4. CASE ~(GatewayFound \/ WakeUp)
  <2>1. Fetching /\ steady' = steady
    BY <1>4 DEF Provider, NoGateway, Return, ListPage, ListGone, ListFails, ReadServer,
                SkipChild, PageDone, NothingToPlant, Unclaimed, Plant, Publish, Unheard,
                Fetching, history
  <2>2. online
    BY <2>1 DEF IInv, OnlineWhileFetching, TypeOK
  <2>3. children[i] \in Usable
    BY <2>1 DEF IInv, Covered
  <2>4. \/ children[i] \in DOMAIN found \cup BeingRead
        \/ pc \in {"read", "check", "plant"} /\ children[i] \in ToSet(todo)
        \/ Ahead(i)
    BY <2>1 DEF IInv, Covered
  <2>5. CASE ListPage
    <3>1. /\ UNCHANGED <<found, reading, page>> /\ pc = "list"
          /\ todo' = PageOf(page) /\ last' = (Len(PageOf(page)) < PageSize)
          /\ pc' = IF PageOf(page) = <<>> THEN "publish" ELSE "read"
      BY <2>5 DEF ListPage
    <3>2. CASE children[i] \in DOMAIN found \cup BeingRead
      BY <3>1, <3>2 DEF BeingRead
    <3>3. CASE i > (page - 1) * PageSize
      <4>1. pc' = "read"
        BY <1>2, <3>1, <3>3, PageHolds, PageBounds DEF IInv
      <4>2. CASE i <= page * PageSize
        <5>1. children[i] \in ToSet(PageOf(page))
          BY <1>2, <3>3, <4>2, PageHolds, PageBounds DEF IInv
        <5> QED
          BY <3>1, <4>1, <5>1
      <4>3. CASE i > page * PageSize
        <5>1. ~(Len(PageOf(page)) < PageSize)
          BY <1>2, <4>3, PageHolds, PageBounds DEF IInv
        <5> QED
          BY <3>1, <4>1, <4>3, <5>1 DEF Ahead
      <4> QED
        BY <1>2, <4>2, <4>3, PageBounds
    <3> QED
      BY <2>4, <3>1, <3>2, <3>3 DEF Ahead
  <2>6. CASE ReadServer
    <3>1. /\ UNCHANGED <<found, page, last>> /\ pc = "read" /\ pc' = "check"
          /\ reading' = <<Head(todo), settings[Head(todo)]>> /\ todo' = Tail(todo)
          /\ ToSet(todo) = {Head(todo)} \cup ToSet(Tail(todo))
      BY <2>6, TodoParts DEF ReadServer, IInv
    <3>2. BeingRead' = {Head(todo)} /\ BeingRead = {}
      BY <3>1 DEF BeingRead, IInv, ReadingByPlace
    <3> QED
      BY <2>4, <3>1, <3>2 DEF Ahead
  <2>7. CASE SkipChild
    <3>1. /\ UNCHANGED <<found, page, last, reading, pc>> /\ pc = "read"
          /\ todo' = Tail(todo) /\ Head(todo) \notin Usable
          /\ ToSet(todo) = {Head(todo)} \cup ToSet(Tail(todo))
      BY <2>2, <2>7, TodoParts DEF SkipChild, IInv
    <3> QED
      BY <2>3, <2>4, <3>1 DEF Ahead, BeingRead
  <2>8. CASE PageDone
    <3>1. /\ UNCHANGED <<found, reading>> /\ pc = "read" /\ ToSet(todo) = {}
      BY <2>8 DEF PageDone, ToSet
    <3>2. CASE children[i] \in DOMAIN found \cup BeingRead
      BY <3>1, <3>2 DEF BeingRead
    <3>3. CASE ~last /\ i > page * PageSize
      <4>1. CASE page = MaxPages
        BY <2>8, <3>3, <4>1 DEF PageDone, Ahead
      <4>2. CASE page # MaxPages
        BY <2>8, <3>3, <4>2, <1>2, PageBounds DEF PageDone, Ahead
      <4> QED
        BY <4>1, <4>2
    <3> QED
      BY <2>4, <3>1, <3>2, <3>3 DEF Ahead
  <2>9. CASE Unclaimed
    BY <2>4, <2>9 DEF Unclaimed, Ahead, BeingRead, poll
  <2>10. CASE NothingToPlant \/ Plant
    <3>1. reading \in Servers \X Configs /\ reading' = <<>> /\ pc' = "read"
          /\ pc \in {"check", "plant"}
          /\ found' = MapInsert(found, reading[1], reading[2])
          /\ UNCHANGED <<todo, page, last>>
      BY <2>10 DEF NothingToPlant, Plant, Pushed, IInv, ReadingByPlace, TypeOK
    <3>2. DOMAIN found' = DOMAIN found \cup BeingRead
      <4>1. BeingRead = {reading[1]}
        BY <3>1 DEF BeingRead
      <4> QED
        BY <3>1, <4>1, PushedIsMap DEF IInv
    <3> QED
      BY <2>4, <3>1, <3>2 DEF Ahead
  <2>11. ~(NoGateway \/ Return \/ ListGone \/ ListFails \/ Unheard \/ Publish)
    BY DEF NoGateway, Return, ListGone, ListFails, Unheard, Publish, Fetching
  <2> QED
    BY <1>4, <2>5, <2>6, <2>7, <2>8, <2>9, <2>10, <2>11 DEF Provider
<1> QED
  BY <1>3, <1>4

\* Before the first outage nothing is pushed that is not adopted.
LEMMA ProviderAdopted ==
    ASSUME IInv, Provider
    PROVE  AdoptedFirst' /\ OneDevicePerServerOnline'
<1> USE DEF AdoptedFirst, OneDevicePerServerOnline, OneDevicePerServer
<1>1. /\ \A s \in Servers : claim'[s] = claim[s] \/ claim'[s] = "own"
      /\ \A s \in Servers : claim[s] = "own" => claim'[s] = "own"
  <2>1. claim \in [Servers -> {"nobody", "own", "other"}]
    BY DEF IInv, TypeOK
  <2> QED
    BY <2>1, ProviderLeaves
<1>2. OneDevicePerServerOnline'
  BY <1>1, ProviderLeaves DEF IInv
<1>3. CASE GatewayFound \/ WakeUp
  <2>1. DOMAIN found' \subseteq DOMAIN found /\ served' = served
    BY <1>3, EmptyIsMap DEF GatewayFound, WakeUp, Begins, poll
  <2>2. DOMAIN found \cup served \subseteq Servers
    BY DEF IInv, TypeOK, IsMap
  <2> QED
    BY <1>1, <1>2, <2>1, <2>2, ProviderLeaves DEF IInv
<1>4. CASE ~(GatewayFound \/ WakeUp \/ NothingToPlant \/ Plant)
  <2>1. DOMAIN found' \cup served' \subseteq DOMAIN found \cup served
    BY <1>4 DEF Provider, NoGateway, Return, ListPage, ListGone, ListFails, ReadServer,
                SkipChild, PageDone, Unclaimed, Publish, Unheard, poll
  <2>2. DOMAIN found \cup served \subseteq Servers
    BY DEF IInv, TypeOK, IsMap
  <2> QED
    BY <1>1, <1>2, <2>1, <2>2, ProviderLeaves DEF IInv
<1>5. CASE NothingToPlant \/ Plant
  <2>1. /\ reading[1] \in Servers /\ served' = served
        /\ DOMAIN found' = DOMAIN found \cup {reading[1]}
    <3>1. reading \in Servers \X Configs
      BY <1>5 DEF NothingToPlant, Plant, IInv, ReadingByPlace, TypeOK
    <3>2. found' = MapInsert(found, reading[1], reading[2]) /\ served' = served
      BY <1>5 DEF NothingToPlant, Plant, Pushed
    <3>3. TypeOK /\ reading[1] \in Servers /\ reading[2] \in Configs
      BY <3>1 DEF IInv
    <3> HIDE DEF AdoptedFirst, OneDevicePerServerOnline, OneDevicePerServer
    <3> QED
      BY <3>2, <3>3, PushedIsMap
  <2>2. outages = 0 => online
    BY <1>5 DEF NothingToPlant, Plant, IInv, OnlineWhileFetching, Fetching
  <2>3. outages = 0 /\ Exists(reading[1]) => claim'[reading[1]] # "nobody"
    BY <1>5, <2>1, <2>2 DEF NothingToPlant, Plant, IInv, TypeOK, cloud
  <2>4. claim' \in [Servers -> {"nobody", "own", "other"}]
    <3>1. TypeOK'
      BY ProviderType DEF IInv
    <3> QED
      BY <3>1 DEF TypeOK
  <2>5. DOMAIN found \cup served \subseteq Servers
    BY DEF IInv, TypeOK, IsMap
  <2> QED
    BY <1>1, <1>2, <2>1, <2>3, <2>4, <2>5, ProviderLeaves DEF IInv
<1> QED
  BY <1>2, <1>3, <1>4, <1>5

-----------------------------------------------------------------------------
(* Steps of everybody else, and what the provider relies on.               *)

\* Nobody else touches what the provider holds, and most of them leave the list
\* of servers and what history watches alone as well.
LEMMA WorldLeaves ==
    ASSUME World
    PROVE  /\ UNCHANGED provider
           /\ UNCHANGED <<Handled, BeingRead, Fetching>>
           /\ \/ UNCHANGED <<children, used, settings, during, steady>>
              \/ \E s \in Servers : \E cfg \in Configs \cup {Unusable} : AddServer(s, cfg)
              \/ \E s \in Servers : \E cfg \in Configs \cup {Unusable} : EditServer(s, cfg)
              \/ \E s \in Servers : DeleteServer(s)
              \/ DeleteGateway
<1>1. UNCHANGED provider
  BY DEF World, GatewayCreated, AddServer, EditServer, DeleteServer, DeleteGateway,
         StrangerClaims, MapperLearns, GoesOffline, ComesBack, Cancel, ConsumersEnd, vars,
         provider, poll
<1>2. UNCHANGED <<Handled, BeingRead, Fetching>>
  BY <1>1 DEF provider, poll, Handled, BeingRead, Fetching
<1> QED
  BY <1>1, <1>2 DEF World, GatewayCreated, StrangerClaims, MapperLearns, GoesOffline, ComesBack,
                    Cancel, ConsumersEnd, vars, cloud, history

\* Only the network changes whether the cloud is reached, and counts its outages.
LEMMA NetworkMoves ==
    ASSUME IInv, World
    PROVE  \/ UNCHANGED <<online, outages>>
           \/ online' /\ outages' = outages
           \/ outages \in Nat /\ outages' = outages + 1
<1>1. GoesOffline => outages \in Nat /\ outages' = outages + 1
  BY DEF GoesOffline, IInv, TypeOK
<1>2. ComesBack => online' /\ outages' = outages
  BY DEF ComesBack
<1>3. GoesOffline \/ ComesBack \/ UNCHANGED <<online, outages>>
  BY DEF World, GatewayCreated, AddServer, EditServer, DeleteServer, DeleteGateway,
         StrangerClaims, MapperLearns, Cancel, ConsumersEnd, vars, cloud
<1> QED
  BY <1>1, <1>2, <1>3

\* A server that is added comes last, and nobody has known it.
LEMMA Added ==
    ASSUME IInv, NEW s \in Servers, NEW cfg \in Configs \cup {Unusable}, AddServer(s, cfg)
    PROVE  /\ DOMAIN children = 1 .. Len(children) /\ Len(children) \in Nat
           /\ DOMAIN children' = 1 .. Len(children) + 1
           /\ \A i \in DOMAIN children : children'[i] = children[i]
           /\ children'[Len(children) + 1] = s
           /\ s \notin ToSet(children) \cup Handled \cup steady
           /\ \A t \in Servers : Exists(t)' <=> t = s \/ Exists(t)
<1>1. children \in Seq(Servers) /\ children' = Append(children, s)
  BY DEF IInv, TypeOK, AddServer
<1>2. /\ DOMAIN children = 1 .. Len(children) /\ Len(children) \in Nat
      /\ DOMAIN children' = 1 .. Len(children) + 1
      /\ \A i \in DOMAIN children : children'[i] = children[i]
      /\ children'[Len(children) + 1] = s
  BY <1>1, AppendProperties, LenProperties
<1>3. s \notin ToSet(children) \cup Handled
  BY DEF IInv, ObjectsByLife, AddServer
<1>4. s \notin steady
  BY <1>3, UsableType DEF IInv, Covered, Usable
<1>5. ASSUME NEW t \in Servers PROVE Exists(t)' <=> t = s \/ Exists(t)
  <2>1. DOMAIN children' = DOMAIN children \cup {Len(children) + 1}
    BY <1>2
  <2> QED
    BY <1>2, <2>1 DEF Exists
<1> QED
  BY <1>2, <1>3, <1>4, <1>5

\* A server that is deleted is gone, and those behind it move up.
LEMMA Deleted ==
    ASSUME IInv, NEW s \in Servers, DeleteServer(s)
    PROVE  \E n \in DOMAIN children :
               /\ DOMAIN children = 1 .. Len(children) /\ Len(children) \in Nat
               /\ DOMAIN children' = 1 .. Len(children) - 1
               /\ \A i \in DOMAIN children' :
                     children'[i] = IF i < n THEN children[i] ELSE children[i + 1]
               /\ children[n] = s
               /\ steady' = steady \cap {children[j] : j \in 1 .. n - 1}
               /\ \A t \in Servers : Exists(t)' <=> t # s /\ Exists(t)
<1>1. PICK n \in DOMAIN children :
          /\ children[n] = s
          /\ children' = RemoveAt(children, n)
          /\ steady' = steady \cap {children[j] : j \in 1 .. n - 1}
  BY DEF DeleteServer
<1>2. /\ DOMAIN children = 1 .. Len(children) /\ Len(children) \in Nat
      /\ DOMAIN children' = 1 .. Len(children) - 1
      /\ \A i \in DOMAIN children' :
            children'[i] = IF i < n THEN children[i] ELSE children[i + 1]
  BY <1>1, OneRemoved DEF IInv, TypeOK
<1>3. \A i, j \in DOMAIN children : children[i] = children[j] => i = j
  BY DEF IInv, ObjectsByLife
<1>4. ASSUME NEW t \in Servers PROVE Exists(t)' <=> t # s /\ Exists(t)
  <2>1. ASSUME Exists(t)' PROVE t # s /\ Exists(t)
    <3>1. PICK i \in DOMAIN children' : children'[i] = t
      BY <2>1 DEF Exists
    <3>2. CASE i < n
      <4>1. i \in DOMAIN children /\ children[i] = t /\ i # n
        BY <1>2, <3>1, <3>2
      <4> QED
        BY <1>1, <1>3, <4>1 DEF Exists
    <3>3. CASE ~(i < n)
      <4>1. i + 1 \in DOMAIN children /\ children[i + 1] = t /\ i + 1 # n
        BY <1>2, <3>1, <3>3
      <4> QED
        BY <1>1, <1>3, <4>1 DEF Exists
    <3> QED
      BY <3>2, <3>3
  <2>2. ASSUME t # s, Exists(t) PROVE Exists(t)'
    <3>1. PICK i \in DOMAIN children : children[i] = t
      BY <2>2 DEF Exists
    <3>2. CASE i < n
      <4>1. i \in DOMAIN children' /\ children'[i] = t
        BY <1>2, <3>1, <3>2
      <4> QED
        BY <4>1 DEF Exists
    <3>3. CASE i > n
      <4>1. i - 1 \in DOMAIN children' /\ children'[i - 1] = t
        BY <1>2, <3>1, <3>3
      <4> QED
        BY <4>1 DEF Exists
    <3>4. i < n \/ i > n
      BY <1>1, <1>2, <2>2, <3>1
    <3> QED
      BY <3>2, <3>3, <3>4
  <2> QED
    BY <2>1, <2>2
<1> QED
  BY <1>1, <1>2, <1>4

\* Ids are not reused, lists only move up, and a restart is no outage.
LEMMA WorldLists ==
    ASSUME IInv, World
    PROVE  ObjectsByLife' /\ ReadingByPlace' /\ WithinPages' /\ OnlineWhileFetching'
<1>1. ReadingByPlace'
  BY WorldLeaves DEF IInv, ReadingByPlace, provider, poll
<1>2. OnlineWhileFetching'
  <2>1. UNCHANGED <<Fetching, gateway_mo_id>>
    BY WorldLeaves DEF provider
  <2> QED
    BY <2>1, NetworkMoves DEF IInv, OnlineWhileFetching
<1>3. \A t \in Servers \ (used' \cup Strangers) : claim'[t] = "nobody"
  <2>1. \A t \in Servers \ (used \cup Strangers) : claim[t] = "nobody" /\ t \notin served
    BY DEF IInv, ObjectsByLife, Handled
  <2>2. claim \in [Servers -> {"nobody", "own", "other"}] /\ used \subseteq used'
    BY DEF World, GatewayCreated, AddServer, EditServer, DeleteServer, DeleteGateway,
           StrangerClaims, MapperLearns, GoesOffline, ComesBack, Cancel, ConsumersEnd, vars,
           cloud, IInv, TypeOK
  <2>3. \A t \in Servers : \/ claim'[t] \in {claim[t], "nobody"}
                           \/ t \in Strangers
                           \/ t \in served
    BY <2>2 DEF World, GatewayCreated, AddServer, EditServer, DeleteServer, DeleteGateway,
           StrangerClaims, MapperLearns, GoesOffline, ComesBack, Cancel, ConsumersEnd, vars,
           cloud, Released
  <2> QED
    BY <2>1, <2>2, <2>3
<1>4. /\ \A i, j \in DOMAIN children : children[i] = children[j] => i = j
      /\ ToSet(children) \cup Handled \subseteq used
      /\ \A i \in DOMAIN children : children[i] \in Handled => i <= MaxPages * PageSize
      /\ Handled' = Handled
  BY WorldLeaves DEF IInv, ObjectsByLife, WithinPages
<1>5. CASE UNCHANGED <<children, used>>
  BY <1>1, <1>2, <1>3, <1>4, <1>5 DEF ObjectsByLife, WithinPages
<1>6. CASE \E s \in Servers : \E cfg \in Configs \cup {Unusable} : AddServer(s, cfg)
  <2>1. PICK s \in Servers, cfg \in Configs \cup {Unusable} : AddServer(s, cfg)
    BY <1>6
  <2>2. /\ DOMAIN children = 1 .. Len(children) /\ Len(children) \in Nat
        /\ DOMAIN children' = 1 .. Len(children) + 1
        /\ \A i \in DOMAIN children : children'[i] = children[i]
        /\ children'[Len(children) + 1] = s
        /\ s \notin ToSet(children) \cup Handled
    BY <2>1, Added
  <2>3. \A i \in DOMAIN children' : i \in DOMAIN children \/ i = Len(children) + 1
    BY <2>2
  <2>4. \A i \in DOMAIN children : children[i] # s
    BY <2>2 DEF ToSet
  <2>5. \A i, j \in DOMAIN children' : children'[i] = children'[j] => i = j
    BY <1>4, <2>2, <2>3, <2>4
  <2>6. ToSet(children') \cup Handled' \subseteq used'
    BY <1>4, <2>1, <2>2, <2>3 DEF ToSet, AddServer
  <2>7. WithinPages'
    BY <1>4, <2>2, <2>3 DEF WithinPages
  <2> QED
    BY <1>1, <1>2, <1>3, <2>5, <2>6, <2>7 DEF ObjectsByLife
<1>7. CASE \E s \in Servers : DeleteServer(s)
  <2>1. PICK s \in Servers : DeleteServer(s)
    BY <1>7
  <2>2. PICK n \in DOMAIN children :
            /\ DOMAIN children = 1 .. Len(children) /\ Len(children) \in Nat
            /\ DOMAIN children' = 1 .. Len(children) - 1
            /\ \A i \in DOMAIN children' :
                  children'[i] = IF i < n THEN children[i] ELSE children[i + 1]
    BY <2>1, Deleted
  <2>3. used' = used
    BY <2>1 DEF DeleteServer
  <2>4. ASSUME NEW i \in DOMAIN children', NEW j \in DOMAIN children', children'[i] = children'[j]
        PROVE  i = j
    <3>1. i \in DOMAIN children /\ i + 1 \in DOMAIN children
          /\ j \in DOMAIN children /\ j + 1 \in DOMAIN children
      BY <2>2
    <3>2. children[IF i < n THEN i ELSE i + 1] = children[IF j < n THEN j ELSE j + 1]
      BY <2>2, <2>4
    <3>3. (IF i < n THEN i ELSE i + 1) = (IF j < n THEN j ELSE j + 1)
      BY <1>4, <3>1, <3>2
    <3> QED
      BY <2>2, <3>1, <3>3
  <2>5. \A i \in DOMAIN children' : i \in DOMAIN children /\ i + 1 \in DOMAIN children
    BY <2>2
  <2>6. ToSet(children') \cup Handled' \subseteq used'
    BY <1>4, <2>2, <2>3, <2>5 DEF ToSet
  <2>7. ASSUME NEW i \in DOMAIN children', children'[i] \in Handled'
        PROVE  i <= MaxPages * PageSize
    <3>1. CASE i < n
      BY <1>4, <2>2, <2>5, <2>7, <3>1
    <3>2. CASE ~(i < n)
      <4>1. i + 1 <= MaxPages * PageSize
        BY <1>4, <2>2, <2>5, <2>7, <3>2
      <4>2. i \in Nat /\ MaxPages * PageSize \in Nat
        BY <2>2, PageAssumption
      <4> HIDE DEF Handled
      <4> QED
        BY <4>1, <4>2
    <3> QED
      BY <3>1, <3>2
  <2> QED
    BY <1>1, <1>2, <1>3, <2>4, <2>6, <2>7 DEF ObjectsByLife, WithinPages
<1>8. CASE DeleteGateway
  <2>1. children' = <<>> /\ used' = used /\ DOMAIN children' = {} /\ ToSet(children') = {}
    BY <1>8 DEF DeleteGateway, ToSet
  <2> QED
    BY <1>1, <1>2, <1>3, <1>4, <2>1 DEF ObjectsByLife, WithinPages
<1>9. (\E s \in Servers : \E cfg \in Configs \cup {Unusable} : EditServer(s, cfg))
          => UNCHANGED <<children, used>>
  BY DEF EditServer
<1> QED
  BY <1>5, <1>6, <1>7, <1>8, <1>9, WorldLeaves

\* History sees every edit.
LEMMA WorldWitnessed ==
    ASSUME IInv, World
    PROVE  Witnessed'
<1>1. UNCHANGED <<Fetching, found, reading>>
  BY WorldLeaves DEF provider, poll
<1> SUFFICES ASSUME Fetching
             PROVE  /\ during \subseteq during'
                    /\ \A t \in Usable' : <<t, settings'[t]>> \in during'
  BY <1>1 DEF IInv, Witnessed
<1>2. /\ settings \in [Servers -> Configs \cup {Unusable}]
      /\ \A t \in Usable : <<t, settings[t]>> \in during
  BY DEF IInv, TypeOK, Witnessed
<1>3. CASE UNCHANGED <<children, settings, during>>
  BY <1>2, <1>3 DEF Usable, Exists
<1>4. CASE \E s \in Servers : \E cfg \in Configs \cup {Unusable} : AddServer(s, cfg)
  <2>1. PICK s \in Servers, cfg \in Configs \cup {Unusable} : AddServer(s, cfg)
    BY <1>4
  <2>2. \A t \in Servers : Exists(t)' <=> t = s \/ Exists(t)
    BY <2>1, Added
  <2>3. /\ settings' = [settings EXCEPT ![s] = cfg]
        /\ during' = IF cfg = Unusable THEN during ELSE during \cup {<<s, cfg>>}
    BY <2>1 DEF AddServer
  <2>4. \A t \in Usable' : (t = s /\ cfg # Unusable) \/ (t # s /\ t \in Usable)
    BY <1>2, <2>2, <2>3 DEF Usable
  <2> QED
    BY <1>2, <2>3, <2>4 DEF Usable
<1>5. CASE \E s \in Servers : \E cfg \in Configs \cup {Unusable} : EditServer(s, cfg)
  <2>1. PICK s \in Servers, cfg \in Configs \cup {Unusable} : EditServer(s, cfg)
    BY <1>5
  <2>2. /\ settings' = [settings EXCEPT ![s] = cfg] /\ children' = children
        /\ during' = IF cfg = Unusable THEN during ELSE during \cup {<<s, cfg>>}
    BY <2>1 DEF EditServer
  <2>3. \A t \in Usable' : (t = s /\ cfg # Unusable) \/ (t # s /\ t \in Usable)
    BY <1>2, <2>2 DEF Usable, Exists
  <2> QED
    BY <1>2, <2>2, <2>3 DEF Usable
<1>6. CASE \E s \in Servers : DeleteServer(s)
  <2>1. PICK s \in Servers : DeleteServer(s)
    BY <1>6
  <2>2. \A t \in Servers : Exists(t)' => Exists(t)
    BY <2>1, Deleted
  <2>3. UNCHANGED <<settings, during>>
    BY <2>1 DEF DeleteServer
  <2> QED
    BY <1>2, <2>2, <2>3 DEF Usable
<1>7. CASE DeleteGateway
  <2>1. children' = <<>> /\ UNCHANGED <<settings, during>>
    BY <1>7 DEF DeleteGateway
  <2>2. Usable' = {}
    BY <2>1 DEF Usable, Exists
  <2> QED
    BY <2>1, <2>2
<1> QED
  BY <1>3, <1>4, <1>5, <1>6, <1>7, WorldLeaves

\* A server keeps its place, or history no longer counts on it.
LEMMA WorldCovered ==
    ASSUME IInv, World
    PROVE  Covered'
<1> DEFINE At(i) == \/ children[i] \in DOMAIN found \cup BeingRead
                    \/ pc \in {"read", "check", "plant"} /\ children[i] \in ToSet(todo)
                    \/ Ahead(i)
           Safe == outages = 0 /\ Fetching =>
                       \A i \in DOMAIN children : children[i] \in steady => At(i)
<1>1. /\ UNCHANGED <<Fetching, found, BeingRead, pc, todo, page, last>>
      /\ \A i : Ahead(i)' <=> Ahead(i)
      /\ outages' = 0 => outages = 0
  BY NetworkMoves, WorldLeaves DEF provider, poll, Ahead
<1>2. steady \subseteq Usable /\ Safe
  BY DEF IInv, Covered
<1>3. settings \in [Servers -> Configs \cup {Unusable}] /\ steady \subseteq Servers
  BY DEF IInv, TypeOK
<1> SUFFICES /\ steady' \subseteq Usable'
             /\ \A i \in DOMAIN children' : children'[i] \in steady' =>
                   i \in DOMAIN children /\ children[i] = children'[i] /\ children[i] \in steady
  BY <1>1, <1>2 DEF Covered
<1>4. CASE UNCHANGED <<children, settings, steady>>
  BY <1>2, <1>4 DEF Usable, Exists
<1>5. CASE \E s \in Servers : \E cfg \in Configs \cup {Unusable} : AddServer(s, cfg)
  <2>1. PICK s \in Servers, cfg \in Configs \cup {Unusable} : AddServer(s, cfg)
    BY <1>5
  <2>2. /\ settings' = [settings EXCEPT ![s] = cfg] /\ steady' = steady
    BY <2>1 DEF AddServer
  <2>3. /\ DOMAIN children = 1 .. Len(children) /\ Len(children) \in Nat
        /\ DOMAIN children' = 1 .. Len(children) + 1
        /\ \A i \in DOMAIN children : children'[i] = children[i]
        /\ children'[Len(children) + 1] = s
        /\ s \notin steady
        /\ \A t \in Servers : Exists(t)' <=> t = s \/ Exists(t)
    BY <2>1, Added
  <2>4. \A i \in DOMAIN children' : i \in DOMAIN children \/ i = Len(children) + 1
    BY <2>3
  <2>5. steady' \subseteq Usable'
    BY <1>2, <1>3, <2>2, <2>3 DEF Usable
  <2> QED
    BY <2>2, <2>3, <2>4, <2>5
<1>6. CASE \E s \in Servers : \E cfg \in Configs \cup {Unusable} : EditServer(s, cfg)
  <2>1. PICK s \in Servers, cfg \in Configs \cup {Unusable} : EditServer(s, cfg)
    BY <1>6
  <2>2. /\ settings' = [settings EXCEPT ![s] = cfg] /\ children' = children
        /\ steady' = IF cfg = Unusable THEN steady \ {s} ELSE steady
    BY <2>1 DEF EditServer
  <2>3. steady' \subseteq Usable'
    BY <1>2, <1>3, <2>2 DEF Usable, Exists
  <2> QED
    BY <2>2, <2>3
<1>7. CASE \E s \in Servers : DeleteServer(s)
  <2>1. PICK s \in Servers : DeleteServer(s)
    BY <1>7
  <2>2. PICK n \in DOMAIN children :
            /\ DOMAIN children = 1 .. Len(children) /\ Len(children) \in Nat
            /\ DOMAIN children' = 1 .. Len(children) - 1
            /\ \A i \in DOMAIN children' :
                  children'[i] = IF i < n THEN children[i] ELSE children[i + 1]
            /\ children[n] = s
            /\ steady' = steady \cap {children[j] : j \in 1 .. n - 1}
            /\ \A t \in Servers : Exists(t)' <=> t # s /\ Exists(t)
    BY <2>1, Deleted
  <2>3. \A i, j \in DOMAIN children : children[i] = children[j] => i = j
    BY DEF IInv, ObjectsByLife
  <2>4. 1 .. n - 1 \subseteq DOMAIN children /\ n \notin 1 .. n - 1
    BY <2>2
  <2>5. s \notin steady'
    BY <2>2, <2>3, <2>4
  <2>6. settings' = settings
    BY <2>1 DEF DeleteServer
  <2>7. steady' \subseteq Usable'
    BY <1>2, <1>3, <2>2, <2>5, <2>6 DEF Usable
  <2>8. ASSUME NEW i \in DOMAIN children', children'[i] \in steady'
        PROVE  i \in DOMAIN children /\ children[i] = children'[i] /\ children[i] \in steady
    <3>1. CASE i < n
      BY <2>2, <2>8, <3>1
    <3>2. CASE ~(i < n)
      <4>1. i + 1 \in DOMAIN children /\ children'[i] = children[i + 1] /\ i + 1 \notin 1 .. n - 1
        BY <2>2, <3>2
      <4> QED
        BY <2>2, <2>3, <2>4, <2>8, <4>1
    <3> QED
      BY <3>1, <3>2
  <2> QED
    BY <2>7, <2>8
<1>8. CASE DeleteGateway
  BY <1>8 DEF DeleteGateway
<1> QED
  BY <1>4, <1>5, <1>6, <1>7, <1>8, WorldLeaves

\* Before the first outage the mapper creates no device for what was adopted.
LEMMA WorldAdopted ==
    ASSUME IInv, World
    PROVE  AdoptedFirst' /\ OneDevicePerServerOnline'
<1>1. /\ claim \in [Servers -> {"nobody", "own", "other"}]
      /\ served \subseteq Servers /\ DOMAIN found \subseteq Servers
      /\ UNCHANGED <<found, served>>
  BY WorldLeaves DEF IInv, TypeOK, IsMap, provider, poll
<1>2. outages' = 0 => outages = 0
  BY NetworkMoves
<1>3. outages = 0 =>
          \A t \in Servers \ Strangers : Exists(t) =>
              claim[t] # "other" /\ (t \in DOMAIN found \cup served => claim[t] = "own")
  BY DEF IInv, AdoptedFirst, OneDevicePerServerOnline, OneDevicePerServer
<1> SUFFICES ASSUME outages = 0, NEW t \in Servers \ Strangers, Exists(t)'
             PROVE  claim'[t] # "other" /\ (t \in DOMAIN found \cup served => claim'[t] = "own")
  BY <1>1, <1>2 DEF AdoptedFirst, OneDevicePerServerOnline, OneDevicePerServer
<1>4. CASE /\ children' = children
           /\ claim'[t] = claim[t] \/ (t \in served /\ claim[t] = "nobody")
  BY <1>3, <1>4 DEF Exists
<1>5. CASE GatewayCreated \/ GoesOffline \/ ComesBack \/ Cancel \/ ConsumersEnd \/ UNCHANGED vars
           \/ \E s \in Servers : \E cfg \in Configs \cup {Unusable} : EditServer(s, cfg)
  BY <1>4, <1>5 DEF GatewayCreated, GoesOffline, ComesBack, Cancel, ConsumersEnd, vars, EditServer,
                    cloud
<1>6. CASE \E s \in Servers : StrangerClaims(s)
  BY <1>1, <1>4, <1>6 DEF StrangerClaims
<1>7. CASE \E s \in Servers : MapperLearns(s)
  BY <1>1, <1>4, <1>7 DEF MapperLearns
<1>8. CASE \E s \in Servers : \E cfg \in Configs \cup {Unusable} : AddServer(s, cfg)
  <2>1. PICK s \in Servers, cfg \in Configs \cup {Unusable} : AddServer(s, cfg)
    BY <1>8
  <2>2. s \notin Handled /\ (t = s \/ Exists(t)) /\ claim' = claim /\ s \notin used
    BY <2>1, Added DEF AddServer
  <2>3. CASE t = s
    BY <2>2, <2>3 DEF IInv, ObjectsByLife, Handled
  <2> QED
    BY <1>3, <2>2, <2>3
<1>9. CASE \E s \in Servers : DeleteServer(s)
  <2>1. PICK s \in Servers : DeleteServer(s)
    BY <1>9
  <2>2. t # s /\ Exists(t)
    BY <2>1, Deleted
  <2>3. claim'[t] = claim[t]
    BY <2>1, <2>2 DEF DeleteServer, Released
  <2> QED
    BY <1>3, <2>2, <2>3
<1>10. CASE DeleteGateway
  BY <1>10 DEF DeleteGateway, Exists
<1> QED
  BY <1>5, <1>6, <1>7, <1>8, <1>9, <1>10 DEF World

-----------------------------------------------------------------------------
(* What a run of the provider is bound to.                                 *)

\* Every step keeps the inductive invariant.
LEMMA NextInv == IInv /\ [Next]_vars => IInv'
<1> SUFFICES ASSUME IInv, [Next]_vars PROVE IInv'
  OBVIOUS
<1>1. CASE Provider
  <2>1. TypeOK'
    BY <1>1, ProviderType DEF IInv
  <2> QED
    BY <1>1, <2>1, ProviderLists, ProviderWitnessed, ProviderCovered, ProviderAdopted DEF IInv
<1>2. CASE World
  <2>1. TypeOK'
    BY <1>2, WorldType DEF IInv
  <2> QED
    BY <1>2, <2>1, WorldLists, WorldWitnessed, WorldCovered, WorldAdopted DEF IInv
<1>3. Provider \/ World
  BY DEF Next, World
<1> QED
  BY <1>1, <1>2, <1>3

\* The invariant holds in every state: lists, claims, what a poll has put
\* together and what history has seen of the inventory fit each other.
THEOREM Inductive == Spec => []IInv
BY InitInv, NextInv, PTL DEF Spec

\* Every variable keeps its type, and no page beyond MAX_PAGES is read.
THEOREM TypeCorrect == Spec => []TypeOK
<1>1. IInv => TypeOK
  BY DEF IInv
<1> QED
  BY <1>1, Inductive, PTL

\* adopt runs before out.push: while every request is answered the mapper
\* creates no second device for a server object that exists.
THEOREM AdoptedBeforePublished == Spec => []OneDevicePerServerOnline
<1>1. IInv => OneDevicePerServerOnline
  BY DEF IInv
<1> QED
  BY <1>1, Inductive, PTL

\* Of all steps only Publish changes the published set, to what the poll found.
LEMMA OnlyPublish ==
    ASSUME [Next]_vars, published' # published
    PROVE  Publish
<1>1. Provider
  BY WorldLeaves DEF Next, World, provider
<1> QED
  BY <1>1 DEF Provider, GatewayFound, NoGateway, WakeUp, Return, ListPage, ListGone, ListFails,
              ReadServer, SkipChild, PageDone, NothingToPlant, Unclaimed, Plant, Unheard

\* What fetch hands to the watch channel held in Cumulocity during that fetch,
\* however its pages and reads interleave with edits.
THEOREM PublishedHeld == Spec => NothingStale
<1>1. IInv /\ [Next]_vars =>
          [published' # published =>
              \A s \in DOMAIN published' : <<s, published'[s]>> \in during]_vars
  <2> SUFFICES ASSUME IInv, [Next]_vars, published' # published
               PROVE  \A s \in DOMAIN published' : <<s, published'[s]>> \in during
    OBVIOUS
  <2>1. published' = found /\ pc = "publish"
    BY OnlyPublish DEF Publish
  <2> QED
    BY <2>1 DEF IInv, Witnessed, Fetching
<1> QED
  BY <1>1, Inductive, PTL DEF Spec, NothingStale

\* A known server that stays usable and in its place all through a fetch is kept
\* by it, while every request is answered.
THEOREM KnownServersKept == Spec => KeepsKnownServersOnline
<1>1. IInv /\ [Next]_vars =>
          [published' # published /\ outages = 0 =>
              DOMAIN published \cap steady \subseteq DOMAIN published']_vars
  <2> SUFFICES ASSUME IInv, [Next]_vars, published' # published, outages = 0,
                      NEW s \in DOMAIN published, s \in steady
               PROVE  s \in DOMAIN published'
    OBVIOUS
  <2>1. published' = found /\ pc = "publish" /\ Fetching
    BY OnlyPublish DEF Publish, Fetching
  <2>2. s \in Handled
    BY DEF IInv, ReadingByPlace, Handled
  <2>3. s \in Servers /\ Exists(s)
    BY DEF IInv, Covered, Usable
  <2>4. PICK i \in DOMAIN children : children[i] = s
    BY <2>3 DEF Exists
  <2>5. i <= MaxPages * PageSize
    BY <2>2, <2>4 DEF IInv, WithinPages
  <2>6. i \in Nat /\ MaxPages * PageSize \in Nat
    BY LenProperties, PageAssumption DEF IInv, TypeOK
  <2>7. reading = <<>> /\ BeingRead = {}
    BY <2>1 DEF IInv, ReadingByPlace, BeingRead
  <2> QED
    BY <2>1, <2>4, <2>5, <2>6, <2>7 DEF IInv, Covered, Ahead
<1> QED
  BY <1>1, Inductive, PTL DEF Spec, KeepsKnownServersOnline

=============================================================================
