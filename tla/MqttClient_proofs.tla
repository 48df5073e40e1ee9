-------------------------- MODULE MqttClient_proofs --------------------------
(***************************************************************************)
(* The order and the durability of what goes through the MQTT client, for  *)
(* every set of publishers, every capacity and any number of outages,      *)
(* checked by TLAPS.                                                       *)
(***************************************************************************)
EXTENDS MqttClient, SequenceTheorems, TLAPS

-----------------------------------------------------------------------------
(* Three sequences in a row: what each step does to the line.              *)

\* Adding at the end of the channel adds at the end of the line.
LEMMA AppendToLine ==
    ASSUME NEW S, NEW a \in Seq(S), NEW b \in Seq(S), NEW c \in Seq(S), NEW x \in S
    PROVE  a \o b \o Append(c, x) = Append(a \o b \o c, x)
<1>1. a \o b \in Seq(S) /\ <<x>> \in Seq(S)
  OBVIOUS
<1> QED
  BY <1>1, AppendIsConcat, ConcatAssociative

\* Sending the next request moves a boundary within the line, not the line.
LEMMA SendFirst ==
    ASSUME NEW S, NEW a \in Seq(S), NEW b \in Seq(S), b # <<>>
    PROVE  Append(a, Head(b)) \o Tail(b) = a \o b
BY SMT

LEMMA DropFirst ==
    ASSUME NEW S, NEW a \in Seq(S), NEW b \in Seq(S), a # <<>>
    PROVE  Tail(a) \o b = Tail(a \o b)
BY SMT

\* The first of the three is where the row starts.
LEMMA ThreeInARow ==
    ASSUME NEW S, NEW a \in Seq(S), NEW b \in Seq(S), NEW c \in Seq(S)
    PROVE  /\ a \o b \o c \in Seq(S)
           /\ Len(a \o b \o c) = Len(a) + Len(b) + Len(c)
           /\ \A i \in 1 .. Len(a) : (a \o b \o c)[i] = a[i]
           /\ DOMAIN (a \o b \o c) = 1 .. Len(a \o b \o c)
<1> DEFINE ab == a \o b
<1>1. /\ ab \in Seq(S)
      /\ Len(ab) = Len(a) + Len(b)
      /\ \A i \in 1 .. Len(a) : ab[i] = a[i]
      /\ Len(a) \in Nat /\ Len(b) \in Nat /\ Len(c) \in Nat
  BY ConcatProperties, LenProperties
<1> HIDE DEF ab
<1>2. /\ ab \o c \in Seq(S)
      /\ Len(ab \o c) = Len(ab) + Len(c)
      /\ \A i \in 1 .. Len(ab) : (ab \o c)[i] = ab[i]
  <2>1. ab \in Seq(S) /\ Len(ab) \in Nat /\ Len(c) \in Nat
    BY <1>1
  <2>2. \A s, t \in Seq(S) :
           /\ s \o t \in Seq(S)
           /\ Len(s \o t) = Len(s) + Len(t)
           /\ \A i \in 1 .. Len(s) + Len(t) :
                 (s \o t)[i] = IF i <= Len(s) THEN s[i] ELSE t[i - Len(s)]
    BY ConcatProperties
  <2> QED
    BY <2>1, <2>2
<1>3. DOMAIN (ab \o c) = 1 .. Len(ab \o c)
  BY <1>2, LenProperties
<1> QED
  BY <1>1, <1>2, <1>3 DEF ab

\* The line is a sequence of requests, what was sent first in it.
LEMMA LineType ==
    ASSUME TypeOK
    PROVE  /\ Line \in Seq(Requests)
           /\ Len(Line) = Len(inflight) + Len(pending) + Len(queue)
           /\ \A i \in 1 .. Len(inflight) : Line[i] = inflight[i]
           /\ DOMAIN Line = 1 .. Len(Line)
BY ThreeInARow DEF TypeOK, Line

\* The n-th message of a publisher is a request.
LEMMA MessageType ==
    /\ \A p \in Publishers, n \in Nat \ {0} : [from |-> p, nth |-> n] \in Message
    /\ Message \subseteq Requests
    /\ Subscribe \in Requests
    /\ Subscribe \notin Message
    /\ \A m \in Message :
          /\ m.from \in Publishers
          /\ m.nth \in Nat \ {0}
          /\ m = [from |-> m.from, nth |-> m.nth]
          /\ Owner[m.from] \in Publishers
          /\ Ahead(m) \subseteq Message
BY OwnerAssumption DEF Message, Requests, Subscribe, Ahead

-----------------------------------------------------------------------------
(* The parts of the invariant that speak of the line, by what a step does  *)
(* to the line.                                                            *)

\* The broker receives nothing and the line stays: whatever moved within it.
LEMMA LineUnmoved ==
    ASSUME LineParts, Line' = Line, received' = received, accepted' = accepted
    PROVE  LineParts'
BY DEF LineParts, OnlyIssued, Issued, Kept, LineInOrder, ReceivedInOrder

\* The broker receives the first request of the line that was not sent yet,
\* having received all before it.
LEMMA LineReceived ==
    ASSUME LineParts, TypeOK, Line' = Line, accepted' = accepted,
           NEW i \in DOMAIN Line,
           \A j \in 1 .. i - 1 : Line[j] \in received,
           received' = received \cup {Line[i]}
    PROVE  LineParts'
<1>1. OnlyIssued' /\ Kept' /\ LineInOrder'
  BY DEF LineParts, OnlyIssued, Issued, Kept, LineInOrder
<1>2. ReceivedInOrder'
  <2> SUFFICES ASSUME NEW m \in received' \cap Message, NEW a \in Ahead(m)
               PROVE  a \in received'
    BY DEF ReceivedInOrder, Ahead
  <2>1. CASE m \in received
    BY <2>1 DEF LineParts, ReceivedInOrder
  <2>2. CASE m = Line[i]
    BY <2>2 DEF LineParts, LineInOrder
  <2> QED
    BY <2>1, <2>2
<1> QED
  BY <1>1, <1>2 DEF LineParts

\* The oldest request leaves the line, acknowledged: the broker has it.
LEMMA LineShortened ==
    ASSUME LineParts, TypeOK, Line # <<>>, Line[1] \in received,
           Line' = Tail(Line), received' = received, accepted' = accepted
    PROVE  LineParts'
<1>1. /\ Line' \in Seq(Requests)
      /\ DOMAIN Line' = 1 .. Len(Line) - 1
      /\ DOMAIN Line = 1 .. Len(Line)
      /\ Len(Line) \in Nat
      /\ \A i \in DOMAIN Line' : Line'[i] = Line[i + 1]
  BY LineType, HeadTailProperties, LenProperties
<1>2. OnlyIssued' /\ ReceivedInOrder'
  BY <1>1 DEF LineParts, OnlyIssued, Issued, ReceivedInOrder
<1>3. Kept'
  <2> SUFFICES ASSUME NEW p \in Publishers, NEW n \in 1 .. accepted[p],
                      [from |-> p, nth |-> n] \notin received
               PROVE  [from |-> p, nth |-> n] \in ToSet(Line')
    BY DEF Kept
  <2>1. PICK i \in DOMAIN Line : Line[i] = [from |-> p, nth |-> n]
    BY DEF LineParts, Kept, ToSet
  <2>2. i # 1 /\ i - 1 \in DOMAIN Line'
    BY <1>1, <2>1
  <2> QED
    BY <1>1, <2>1, <2>2 DEF ToSet
<1>4. LineInOrder'
  <2> SUFFICES ASSUME NEW i \in DOMAIN Line', Line'[i] \in Message,
                      NEW a \in Ahead(Line'[i]), a \notin received
               PROVE  \E j \in 1 .. i - 1 : Line'[j] = a
    BY DEF LineInOrder, Ahead
  <2>1. i + 1 \in DOMAIN Line /\ Line[i + 1] = Line'[i]
    BY <1>1
  <2>2. PICK j \in 1 .. i : Line[j] = a
    BY <1>1, <2>1 DEF LineParts, LineInOrder
  <2>3. j # 1 /\ j - 1 \in 1 .. i - 1 /\ j - 1 \in DOMAIN Line'
    BY <1>1, <2>2
  <2> QED
    BY <1>1, <2>2, <2>3
<1> QED
  BY <1>2, <1>3, <1>4 DEF LineParts

\* A request joins the line, after everything that must come before it: a
\* subscription, or the next message of a publisher whose entity is registered.
LEMMA LineExtended ==
    ASSUME LineParts, TypeOK,
           NEW m \in Requests,
           Line' = Append(Line, m),
           received' = received,
           accepted' \in [Publishers -> Nat],
           \A p \in Publishers : accepted[p] <= accepted'[p],
           \A p \in Publishers : \A n \in 1 .. accepted'[p] :
               n \in 1 .. accepted[p] \/ m = [from |-> p, nth |-> n],
           m \in Message => m.nth <= accepted'[m.from],
           m \in Message => \A a \in Ahead(m) : a \in received \cup ToSet(Line)
    PROVE  LineParts'
<1>1. /\ Line \in Seq(Requests)
      /\ DOMAIN Line = 1 .. Len(Line)
      /\ Len(Line) \in Nat
      /\ DOMAIN Line' = 1 .. Len(Line) + 1
      /\ \A i \in DOMAIN Line : Line'[i] = Line[i]
      /\ Line'[Len(Line) + 1] = m
  BY LineType, AppendProperties, LenProperties
<1>2. OnlyIssued'
  <2>1. \A x \in Requests : Issued(x) => Issued(x)'
    BY MessageType DEF Issued, TypeOK
  <2>2. Issued(m)'
    BY DEF Issued
  <2>3. received \subseteq Requests /\ \A i \in DOMAIN Line : Line[i] \in Requests
    BY <1>1, ElementOfSeq DEF TypeOK
  <2> QED
    BY <1>1, <2>1, <2>2, <2>3 DEF LineParts, OnlyIssued
<1>3. Kept'
  <2>1. ToSet(Line) \cup {m} \subseteq ToSet(Line')
    BY <1>1 DEF ToSet
  <2> QED
    BY <2>1 DEF LineParts, Kept
<1>4. LineInOrder'
  <2> SUFFICES ASSUME NEW i \in DOMAIN Line', Line'[i] \in Message,
                      NEW a \in Ahead(Line'[i]), a \notin received
               PROVE  \E j \in 1 .. i - 1 : Line'[j] = a
    BY DEF LineInOrder, Ahead
  <2>1. CASE i \in DOMAIN Line
    <3>1. PICK j \in 1 .. i - 1 : Line[j] = a
      BY <1>1, <2>1 DEF LineParts, LineInOrder
    <3> QED
      BY <1>1, <2>1, <3>1
  <2>2. CASE i = Len(Line) + 1
    <3>1. PICK j \in DOMAIN Line : Line[j] = a
      BY <1>1, <2>2 DEF ToSet
    <3> QED
      BY <1>1, <2>2, <3>1
  <2> QED
    BY <1>1, <2>1, <2>2
<1>5. ReceivedInOrder'
  BY DEF LineParts, ReceivedInOrder, Ahead
<1> QED
  BY <1>2, <1>3, <1>4, <1>5 DEF LineParts

-----------------------------------------------------------------------------
(* The inductive invariant: the initial state, then one lemma per kind of  *)
(* step.                                                                   *)

\* Nothing is accepted, sent or received at the start.
LEMMA InitInv == Init => IInv
<1> SUFFICES ASSUME Init PROVE IInv
  OBVIOUS
<1>1. TypeOK
  <2>1. outages \in 0 .. MaxOutages /\ todo \in 0 .. Subscriptions
    BY BoundsAssumption DEF Init
  <2>2. <<>> \in Seq(Requests) /\ Len(<<>>) = 0 /\ Len(<<>>) <= Capacity
    BY EmptySeq, BoundsAssumption
  <2> QED
    BY <2>1, <2>2 DEF Init, TypeOK
<1>2. Line = <<>> /\ DOMAIN Line = {}
  BY DEF Init, Line
<1>3. LinkDelivers /\ LineParts
  BY <1>2 DEF Init, LinkDelivers, LineParts, OnlyIssued, Kept, LineInOrder, ReceivedInOrder,
              ToSet
<1> QED
  BY <1>1, <1>3 DEF Init, IInv

\* A publish extends the line by the publisher's next message; the entity's
\* registration was accepted before, or is this message.
LEMMA PublishInv ==
    ASSUME IInv, NEW p \in Publishers, Publish(p)
    PROVE  IInv'
<1> DEFINE m == [from |-> p, nth |-> accepted[p] + 1]
<1>1. accepted[p] \in Nat /\ m \in Message /\ m \in Requests
  BY MessageType DEF IInv, TypeOK
<1>2. accepted' = [accepted EXCEPT ![p] = @ + 1] /\ accepted' \in [Publishers -> Nat]
  BY <1>1 DEF IInv, TypeOK, Publish
<1>3. TypeOK'
  <2>1. queue' \in Seq(Requests) /\ Len(queue') <= Capacity
    BY <1>1, AppendProperties, LenProperties, BoundsAssumption DEF IInv, TypeOK, Publish
  <2> QED
    BY <1>2, <2>1 DEF IInv, TypeOK, Publish
<1>4. LinkDelivers'
  BY DEF IInv, LinkDelivers, Publish
<1>5. Line' = Append(Line, m)
  BY <1>1, AppendToLine DEF IInv, TypeOK, Publish, Line
<1>6. \A a \in Ahead(m) : a \in received \cup ToSet(Line)
  <2>1. \A k \in 1 .. m.nth - 1 : [from |-> p, nth |-> k] \in received \cup ToSet(Line)
    BY <1>1 DEF IInv, LineParts, Kept
  <2>2. CASE p = Owner[p] /\ accepted[p] = 0
    BY <2>1, <2>2 DEF Ahead
  <2>3. CASE ~(p = Owner[p] /\ accepted[p] = 0)
    <3>1. accepted[Owner[p]] > 0
      <4>1. CASE p = Owner[p]
        BY <1>1, <2>3, <4>1
      <4>2. CASE p # Owner[p]
        BY <4>2 DEF Publish, MayPublish
      <4> QED
        BY <4>1, <4>2
    <3>2. [from |-> Owner[p], nth |-> 1] \in received \cup ToSet(Line)
      <4>1. Owner[p] \in Publishers /\ 1 \in 1 .. accepted[Owner[p]]
        BY <3>1, OwnerAssumption DEF IInv, TypeOK
      <4> QED
        BY <4>1 DEF IInv, LineParts, Kept
    <3> QED
      BY <2>1, <3>2 DEF Ahead
  <2> QED
    BY <2>2, <2>3
<1>7. LineParts'
  <2>1. \A q \in Publishers : accepted[q] <= accepted'[q]
    BY <1>1, <1>2 DEF IInv, TypeOK
  <2>2. \A q \in Publishers : \A n \in 1 .. accepted'[q] :
            n \in 1 .. accepted[q] \/ m = [from |-> q, nth |-> n]
    BY <1>1, <1>2 DEF IInv, TypeOK
  <2>3. m.nth <= accepted'[m.from]
    BY <1>1, <1>2 DEF IInv, TypeOK
  <2>4. received' = received
    BY DEF Publish
  <2> HIDE DEF m
  <2> QED
    BY <1>1, <1>2, <1>5, <1>6, <2>1, <2>2, <2>3, <2>4, LineExtended DEF IInv
<1> QED
  BY <1>3, <1>4, <1>7 DEF IInv, Publish

\* The loop's own subscriptions join the line behind what is there.
LEMMA ResubscribeInv ==
    ASSUME IInv, Resubscribe
    PROVE  IInv'
<1>1. Subscribe \in Requests /\ Subscribe \notin Message
  BY MessageType
<1>2. TypeOK' /\ (pc = "subscribing" => todo > 0)'
  <2>1. queue' \in Seq(Requests) /\ Len(queue') <= Capacity
    BY <1>1, AppendProperties, LenProperties, BoundsAssumption DEF IInv, TypeOK, Resubscribe
  <2>2. todo' \in 0 .. Subscriptions /\ (pc' = "subscribing" => todo' > 0)
    BY BoundsAssumption DEF IInv, TypeOK, Resubscribe
  <2> QED
    BY <2>1, <2>2 DEF IInv, TypeOK, Resubscribe
<1>3. LinkDelivers'
  BY DEF IInv, LinkDelivers, Resubscribe
<1>4. Line' = Append(Line, Subscribe)
  BY <1>1, AppendToLine DEF IInv, TypeOK, Resubscribe, Line
<1>5. LineParts'
  <2>1. received' = received /\ accepted' = accepted
    BY DEF Resubscribe
  <2>2. accepted \in [Publishers -> Nat]
    BY DEF IInv, TypeOK
  <2> QED
    BY <1>1, <1>4, <2>1, <2>2, LineExtended DEF IInv
<1> QED
  BY <1>2, <1>3, <1>5 DEF IInv

\* Sending moves the next request within the line; over a live connection the
\* broker receives it, having received all before it.
LEMMA TransmitInv ==
    ASSUME IInv, Transmit
    PROVE  IInv'
<1> DEFINE m == IF pending # <<>> THEN Head(pending) ELSE Head(queue)
           i == Len(inflight) + 1
<1>1. TypeOK'
  <2>1. m \in Requests
    BY HeadTailProperties DEF IInv, TypeOK, Transmit
  <2>2. inflight' \in Seq(Requests)
    BY <2>1, AppendProperties DEF IInv, TypeOK, Transmit
  <2>3. pending' \in Seq(Requests) /\ queue' \in Seq(Requests) /\ Len(queue') <= Capacity
    <3>1. CASE pending # <<>>
      BY <3>1, HeadTailProperties DEF IInv, TypeOK, Transmit
    <3>2. CASE pending = <<>>
      <4>1. queue' \in Seq(Requests) /\ Len(queue') = Len(queue) - 1
        BY <3>2, HeadTailProperties DEF IInv, TypeOK, Transmit
      <4>2. Len(queue) \in Nat
        BY LenProperties DEF IInv, TypeOK
      <4> QED
        BY <3>2, <4>1, <4>2, BoundsAssumption DEF IInv, TypeOK, Transmit
    <3> QED
      BY <3>1, <3>2
  <2> QED
    BY <2>1, <2>2, <2>3 DEF IInv, TypeOK, Transmit
<1>2. Line' = Line
  <2>1. CASE pending # <<>>
    <3>1. inflight' \o pending' = inflight \o pending
      BY <2>1, SendFirst DEF IInv, TypeOK, Transmit
    <3> QED
      BY <2>1, <3>1 DEF Transmit, Line
  <2>2. CASE pending = <<>>
    <3>1. inflight' \o queue' = inflight \o queue
      BY <2>2, SendFirst DEF IInv, TypeOK, Transmit
    <3>2. Line = inflight \o queue /\ Line' = inflight' \o queue'
      BY <1>1, <2>2, ConcatEmptySeq DEF IInv, TypeOK, Transmit, Line
    <3> QED
      BY <3>1, <3>2
  <2> QED
    BY <2>1, <2>2
<1>3. i \in DOMAIN Line /\ Line[i] = m
  <2>1. i \in 1 .. Len(inflight') /\ inflight'[i] = m
    <3>1. m \in Requests
      BY HeadTailProperties DEF IInv, TypeOK, Transmit
    <3> QED
      BY <3>1, AppendProperties, LenProperties DEF IInv, TypeOK, Transmit
  <2>2. /\ Len(Line') = Len(inflight') + Len(pending') + Len(queue')
        /\ \A k \in 1 .. Len(inflight') : Line'[k] = inflight'[k]
        /\ DOMAIN Line' = 1 .. Len(Line')
    BY <1>1, ThreeInARow DEF TypeOK, Line
  <2>3. Len(inflight') \in Nat /\ Len(pending') \in Nat /\ Len(queue') \in Nat
    BY <1>1, LenProperties DEF TypeOK
  <2> QED
    BY <1>1, <1>2, <2>1, <2>2, <2>3
<1>4. LinkDelivers' /\ LineParts'
  <2>1. CASE link
    <3>1. received' = received \cup {Line[i]} /\ accepted' = accepted
      BY <1>3, <2>1 DEF Transmit
    <3>2. \A j \in 1 .. i - 1 : Line[j] \in received
      <4>1. \A j \in 1 .. Len(inflight) : Line[j] = inflight[j] /\ j \in DOMAIN inflight
        BY LineType, LenProperties DEF IInv, TypeOK
      <4>2. Len(inflight) \in Nat
        BY LenProperties DEF IInv, TypeOK
      <4> QED
        BY <2>1, <4>1, <4>2 DEF IInv, LinkDelivers, ToSet
    <3>3. LineParts'
      <4> HIDE DEF i
      <4> QED
        BY <1>2, <1>3, <3>1, <3>2, LineReceived DEF IInv
    <3>4. LinkDelivers'
      <4>1. ToSet(inflight') \subseteq ToSet(inflight) \cup {m}
        <5>1. m \in Requests
          BY HeadTailProperties DEF IInv, TypeOK, Transmit
        <5> QED
          BY <5>1, AppendProperties, LenProperties DEF IInv, TypeOK, Transmit, ToSet
      <4> QED
        BY <1>3, <2>1, <3>1, <4>1 DEF IInv, LinkDelivers, Transmit
    <3> QED
      BY <3>3, <3>4
  <2>2. CASE ~link
    <3>1. LinkDelivers'
      BY <2>2 DEF IInv, LinkDelivers, Transmit
    <3>2. received' = received /\ accepted' = accepted
      BY <2>2 DEF Transmit
    <3> QED
      BY <1>2, <3>1, <3>2, LineUnmoved DEF IInv
  <2> QED
    BY <2>1, <2>2
<1> QED
  BY <1>1, <1>4 DEF IInv, Transmit

\* What the broker acknowledges it has received.
LEMMA AcknowledgedInv ==
    ASSUME IInv, Acknowledged
    PROVE  IInv'
<1>1. TypeOK'
  <2>1. inflight' \in Seq(Requests)
    BY HeadTailProperties DEF IInv, TypeOK, Acknowledged
  <2> QED
    BY <2>1 DEF IInv, TypeOK, Acknowledged
<1>2. Line' = Tail(Line)
  <2>1. pending \o queue \in Seq(Requests)
    BY ConcatProperties DEF IInv, TypeOK
  <2>2. Line = inflight \o (pending \o queue)
    BY ConcatAssociative DEF IInv, TypeOK, Line
  <2>3. Line' = inflight' \o (pending \o queue)
    <3>1. Line' = (inflight' \o pending) \o queue
      BY DEF Acknowledged, Line
    <3>2. /\ inflight' \in Seq(Requests)
          /\ pending \in Seq(Requests)
          /\ queue \in Seq(Requests)
      BY <1>1 DEF IInv, TypeOK, Acknowledged
    <3> QED
      BY <3>1, <3>2, ConcatAssociative
  <2> QED
    BY <2>1, <2>2, <2>3, DropFirst DEF IInv, TypeOK, Acknowledged
<1>3. Len(inflight) \in Nat \ {0} /\ DOMAIN inflight = 1 .. Len(inflight)
  BY EmptySeq, LenProperties DEF IInv, TypeOK, Acknowledged
<1>4. Line # <<>> /\ Line[1] \in received
  <2>1. Len(Line) # 0 /\ Line[1] = inflight[1]
    BY <1>3, LineType, LenProperties DEF IInv, TypeOK
  <2>2. inflight[1] \in received
    BY <1>3 DEF IInv, LinkDelivers, Acknowledged, ToSet
  <2> QED
    BY <2>1, <2>2, EmptySeq
<1>5. LineParts'
  <2>1. received' = received /\ accepted' = accepted
    BY DEF Acknowledged
  <2> QED
    BY <1>2, <1>4, <2>1, LineShortened DEF IInv
<1>6. LinkDelivers'
  <2>1. ToSet(inflight') \subseteq ToSet(inflight)
    BY <1>3, HeadTailProperties, LenProperties DEF IInv, TypeOK, Acknowledged, ToSet
  <2> QED
    BY <2>1 DEF IInv, LinkDelivers, Acknowledged
<1> QED
  BY <1>1, <1>5, <1>6 DEF IInv, Acknowledged

\* A lost connection puts the whole line back to be sent again, in its order.
LEMMA ConnectionLostInv ==
    ASSUME IInv, ConnectionLost
    PROVE  IInv'
<1>1. Line' = Line /\ pending' = Line
  <2>1. Line \in Seq(Requests) /\ <<>> \in Seq(Requests)
    BY LineType, EmptySeq DEF IInv
  <2>2. Line' = (<<>> \o Line) \o <<>>
    BY DEF ConnectionLost, Line
  <2> QED
    BY <2>1, <2>2, ConcatEmptySeq DEF ConnectionLost, Line
<1>2. TypeOK'
  <2>1. pending' \in Seq(Requests)
    BY <1>1, LineType DEF IInv
  <2>2. <<>> \in Seq(Requests) /\ Len(<<>>) = 0 /\ Len(<<>>) <= Capacity
    BY EmptySeq, BoundsAssumption
  <2> QED
    BY <2>1, <2>2 DEF IInv, TypeOK, ConnectionLost
<1>3. LinkDelivers'
  BY DEF IInv, LinkDelivers, ConnectionLost
<1>4. LineParts'
  <2>1. received' = received /\ accepted' = accepted
    BY DEF ConnectionLost
  <2> QED
    BY <1>1, <2>1, LineUnmoved DEF IInv
<1> QED
  BY <1>2, <1>3, <1>4 DEF IInv, ConnectionLost

\* Connecting, waiting, stopping, the broker and the signal leave the line be;
\* a new connection starts with nothing sent over it.
LEMMA OutsideLineInv ==
    ASSUME IInv,
           \/ ConnAck \/ ConnectFails \/ DelayOver \/ Stop
           \/ GoesAway \/ ComesBack \/ Cancel \/ UNCHANGED vars
    PROVE  IInv'
<1>1. UNCHANGED client
  BY DEF ConnAck, ConnectFails, DelayOver, Stop, GoesAway, ComesBack, Cancel, vars, client
<1>2. TypeOK' /\ (pc = "subscribing" => todo > 0)'
  <2>1. CASE ConnAck
    BY <1>1, <2>1, BoundsAssumption DEF IInv, TypeOK, client, ConnAck
  <2>2. CASE ConnectFails \/ DelayOver \/ Stop \/ UNCHANGED vars
    <3>1. pc' \in {pc, "polling", "delay", "stopped"}
          /\ UNCHANGED <<brokerUp, outages, cancelled, todo, connected, link>>
      BY <2>2 DEF ConnectFails, DelayOver, Stop, vars
    <3> QED
      BY <1>1, <3>1 DEF IInv, TypeOK, client
  <2>3. CASE GoesAway
    <3>1. outages' \in 0 .. MaxOutages
      BY <2>3, BoundsAssumption DEF IInv, TypeOK, GoesAway
    <3> QED
      BY <1>1, <2>3, <3>1 DEF IInv, TypeOK, client, GoesAway
  <2>4. CASE ComesBack \/ Cancel
    BY <1>1, <2>4 DEF IInv, TypeOK, client, ComesBack, Cancel
  <2> QED
    BY <2>1, <2>2, <2>3, <2>4
<1>3. LinkDelivers'
  BY <1>1 DEF IInv, LinkDelivers, client, ConnAck, ConnectFails, DelayOver, Stop,
         GoesAway, ComesBack, Cancel, vars, ToSet
<1>4. LineParts'
  <2>1. Line' = Line /\ received' = received /\ accepted' = accepted
    BY <1>1 DEF client, Line
  <2> QED
    BY <2>1, LineUnmoved DEF IInv
<1> QED
  BY <1>2, <1>3, <1>4 DEF IInv

\* Every step keeps the invariant.
LEMMA NextInv == IInv /\ [Next]_vars => IInv'
BY PublishInv, ResubscribeInv, TransmitInv, AcknowledgedInv, ConnectionLostInv,
   OutsideLineInv DEF Next, LoopStep

-----------------------------------------------------------------------------
(* The theorems.                                                           *)

\* The client's state is always one of the inductive invariant's.
THEOREM Inductive == Spec => []IInv
BY InitInv, NextInv, PTL DEF Spec

\* The channel never holds more than its capacity, and everything in it and
\* behind it is a request of the loop or of a publisher.
THEOREM TypeCorrect == Spec => []TypeOK
<1>1. IInv => TypeOK
  BY DEF IInv
<1> QED
  BY <1>1, Inductive, PTL

\* Through any number of outages, and for every capacity, the broker has the
\* registration of an entity before anything of it, and no publisher's messages
\* overtake each other.
THEOREM OrderKept == Spec => []RegistrationFirst
<1>1. IInv => RegistrationFirst
  <2> SUFFICES ASSUME IInv, NEW p \in Publishers, NEW n \in 1 .. Count[p], Received(p, n)
               PROVE  /\ \A k \in 1 .. n : Received(p, k)
                      /\ Received(Owner[p], 1)
    BY DEF RegistrationFirst
  <2> DEFINE m == [from |-> p, nth |-> n]
  <2>1. n \in Nat \ {0} /\ m \in received \cap Message
    BY CountAssumption, MessageType DEF Received
  <2>2. Ahead(m) \subseteq received
    BY <2>1 DEF IInv, LineParts, ReceivedInOrder
  <2>3. \A k \in 1 .. n : k = n \/ [from |-> p, nth |-> k] \in Ahead(m)
    BY <2>1 DEF Ahead
  <2>4. [from |-> Owner[p], nth |-> 1] \in Ahead(m) \cup {m}
    BY DEF Ahead
  <2> QED
    BY <2>1, <2>2, <2>3, <2>4 DEF Received
<1> QED
  BY <1>1, Inductive, PTL

\* While the loop runs, a publish that returned is with the broker or on its
\* way there, whatever outage came between.
THEOREM AcceptedIsKept == Spec => []NothingLost
<1>1. IInv => NothingLost
  BY DEF IInv, LineParts, Kept, NothingLost, Received
<1> QED
  BY <1>1, Inductive, PTL

=============================================================================
