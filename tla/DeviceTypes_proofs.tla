-------------------------- MODULE DeviceTypes_proofs --------------------------
(***************************************************************************)
(* What the provider publishes was there, it loses nothing it fetched, and *)
(* a file wins over the inventory: for every number of device types and    *)
(* files, every page size and any number of edits, checked by TLAPS.       *)
(***************************************************************************)
EXTENDS DeviceTypes, SequenceTheorems, FiniteSetTheorems, TLAPS

-----------------------------------------------------------------------------
(* The inventory's order and the history.                                  *)

\* There are as many device types as the order of the inventory names.
LEMMA TypesFinite == IsFiniteSet(Types)
<1>1. /\ TypeOrder \in [1 .. Len(TypeOrder) -> Types] /\ Len(TypeOrder) \in Nat
      /\ DOMAIN TypeOrder = 1 .. Len(TypeOrder)
  BY OrderAssumption, LenProperties
<1>2. TypeOrder \in Surjection(1 .. Len(TypeOrder), Types)
  BY <1>1, OrderAssumption DEF Surjection
<1>3. IsFiniteSet(1 .. Len(TypeOrder))
  BY <1>1, FS_Interval
<1> QED
  BY <1>2, <1>3, FS_Surjection

\* No object is further down the list than there are objects.
LEMMA Ranked ==
    ASSUME TypeOK, NEW t
    PROVE  /\ Rank(t) \in Nat /\ Cardinality(DOMAIN inventory) \in Nat
           /\ Rank(t) <= Cardinality(DOMAIN inventory)
<1>1. DOMAIN inventory \in SUBSET Types
  BY DEF TypeOK, IsMap
<1>2. IsFiniteSet(DOMAIN inventory)
  BY <1>1, TypesFinite, FS_Subset
<1> DEFINE above == {u \in DOMAIN inventory : Place(TypeOrder, u) <= Place(TypeOrder, t)}
<1>3. above \in SUBSET DOMAIN inventory /\ Rank(t) = Cardinality(above)
  BY DEF Rank
<1> HIDE DEF above
<1> QED
  BY <1>2, <1>3, FS_Subset, FS_CardinalityType

\* While none is deleted an object only moves down.
LEMMA RankRises ==
    ASSUME TypeOK, TypeOK', DOMAIN inventory \subseteq DOMAIN inventory', NEW t
    PROVE  Rank(t)' >= Rank(t) /\ Rank(t)' \in Nat
<1> DEFINE above(I) == {u \in DOMAIN I : Place(TypeOrder, u) <= Place(TypeOrder, t)}
<1>1. DOMAIN inventory' \in SUBSET Types
  BY DEF TypeOK, IsMap
<1>2. IsFiniteSet(DOMAIN inventory')
  BY <1>1, TypesFinite, FS_Subset
<1>3. /\ above(inventory') \in SUBSET DOMAIN inventory'
      /\ above(inventory) \in SUBSET above(inventory')
      /\ Rank(t) = Cardinality(above(inventory)) /\ Rank(t)' = Cardinality(above(inventory'))
  BY DEF Rank
<1> HIDE DEF above
<1>4. IsFiniteSet(above(inventory')) /\ IsFiniteSet(above(inventory))
  BY <1>2, <1>3, FS_Subset
<1>5. Cardinality(above(inventory)) <= Cardinality(above(inventory'))
  BY <1>3, <1>4, FS_Subset
<1>6. Rank(t) \in Nat /\ Rank(t)' \in Nat
  BY <1>3, <1>4, FS_CardinalityType
<1> QED
  BY <1>3, <1>5, <1>6

\* A log with one more edit.
LEMMA Logged ==
    ASSUME TypeOK, NEW x \in Types \cup Files, NEW removed \in BOOLEAN, Edited(x, removed)
    PROVE  /\ log' \in Seq([at : Types \cup Files, removed : BOOLEAN])
           /\ Edits \in Nat /\ Edits' = Edits + 1 /\ Edits' = ThisEdit /\ Edits' <= MaxEdits
           /\ ThisEdit \in 0 .. MaxEdits
           /\ \A i \in 1 .. Edits : log'[i] = log[i]
           /\ log'[ThisEdit] = [at |-> x, removed |-> removed]
BY AppendProperties, LenProperties, BoundAssumption DEF TypeOK, Edited, Edits, ThisEdit

\* What was found stays found: an edit is never taken back.
LEMMA FoundStays ==
    ASSUME Edits \in Nat, Edits' = Edits + 1, \A i \in 1 .. Edits : log'[i] = log[i],
           NEW x, NEW e \in Nat, NEW then \in Int, then <= Edits, Found(x, e, then)
    PROVE  Found(x, e, then)'
<1>1. e <= Edits' /\ (e > 0 => e \in 1 .. Edits) /\ \A i \in e + 1 .. then : i \in 1 .. Edits
  BY DEF Found
<1>2. e > 0 => log'[e].at = x
  BY <1>1 DEF Found, HeldAt
<1>3. \A i \in e + 1 .. then : log'[i].at # x
  BY <1>1 DEF Found, HeldAt
<1> QED
  BY <1>1, <1>2, <1>3 DEF Found, HeldAt

\* Numbers, and that lets go of TypeOK.
LEMMA Numbers ==
    ASSUME TypeOK
    PROVE  /\ Edits \in Nat /\ MaxEdits \in Nat
           /\ fetchedAt \in Nat /\ pulledAt \in Nat /\ listedAt \in Int
           /\ \A t \in DOMAIN inventory : t \in Types /\ inventory[t].edit \in Nat
                 /\ inventory[t].edit \in 0 .. MaxEdits /\ inventory[t].ok \in BOOLEAN
           /\ \A f \in DOMAIN files : f \in Files /\ files[f].edit \in Nat
                 /\ files[f] \in [edit : 0 .. MaxEdits, type : Types \cup {NoType}]
           /\ \A t \in DOMAIN got : t \in Types /\ got[t] \in Nat
           /\ \A t \in DOMAIN pulled : t \in Types /\ pulled[t] \in Nat
           /\ \A i \in DOMAIN text : text[i].edit \in Nat
           /\ text # <<>> => /\ DOMAIN text = {1} /\ 1 \in DOMAIN text
                             /\ text[1] \in [edit : 0 .. MaxEdits, type : Types]
           /\ \A t \in DOMAIN pushed : t \in Types /\ pushed[t].edit \in Nat
<1>1. /\ Edits \in Nat /\ MaxEdits \in Nat
      /\ fetchedAt \in Nat /\ pulledAt \in Nat /\ listedAt \in Int
  BY LenProperties, BoundAssumption DEF TypeOK, Edits
<1>2. /\ \A t \in DOMAIN inventory : t \in Types /\ inventory[t].edit \in 0 .. MaxEdits
                                     /\ inventory[t].ok \in BOOLEAN
      /\ \A f \in DOMAIN files :
            f \in Files /\ files[f] \in [edit : 0 .. MaxEdits, type : Types \cup {NoType}]
      /\ \A t \in DOMAIN got : t \in Types /\ got[t] \in 0 .. MaxEdits
      /\ \A t \in DOMAIN pulled : t \in Types /\ pulled[t] \in 0 .. MaxEdits
      /\ \A t \in DOMAIN pushed :
            t \in Types /\ pushed[t] \in [edit : 0 .. MaxEdits, fingerprint : -1 .. MaxEdits]
  BY DEF TypeOK, IsMap
<1>3. \A i \in DOMAIN text : text[i] \in [edit : 0 .. MaxEdits, type : Types]
  BY ElementOfSeq, LenProperties DEF TypeOK
<1>4. text # <<>> => Len(text) = 1 /\ DOMAIN text = 1 .. 1
  <2>1. text \in Seq([edit : 0 .. MaxEdits, type : Types]) /\ Len(text) <= 1
    BY DEF TypeOK
  <2>2. Len(text) \in Nat /\ DOMAIN text = 1 .. Len(text) /\ (Len(text) = 0 => text = <<>>)
    BY <2>1, LenProperties, EmptySeq
  <2> QED
    BY <2>1, <2>2
<1> QED
  BY <1>1, <1>2, <1>3, <1>4

-----------------------------------------------------------------------------
(* Types.                                                                  *)

\* No round has begun at the start, and no edit been made.
LEMMA InitInv == Init => IInv
<1> SUFFICES ASSUME Init PROVE IInv
  OBVIOUS
<1>1. /\ log = <<>> /\ text = <<>> /\ Len(log) = 0 /\ Len(text) = 0 /\ DOMAIN text = {}
      /\ \A S : <<>> \in Seq(S)
  BY EmptySeq DEF Init
<1>2. Edits = 0 /\ 0 \in 0 .. MaxEdits /\ 0 \in 0 .. MaxFaults
  BY <1>1, BoundAssumption DEF Edits
<1>3. /\ IsMap(got, Types, 0 .. MaxEdits) /\ IsMap(pulled, Types, 0 .. MaxEdits)
      /\ IsMap(pushed, Types, [edit : 0 .. MaxEdits, fingerprint : -1 .. MaxEdits])
      /\ IsMap(published, Types, Loaded)
      /\ DOMAIN got = {} /\ DOMAIN pulled = {} /\ DOMAIN pushed = {} /\ DOMAIN published = {}
  BY DEF Init, EmptyMap, IsMap
<1>4. IsMap(inventory, Types, [edit : 0 .. MaxEdits, ok : BOOLEAN])
  BY <1>2, StartAssumption DEF Init, IsMap
<1>5. IsMap(files, Files, [edit : 0 .. MaxEdits, type : Types \cup {NoType}])
  BY <1>2, StartAssumption DEF Init, IsMap
<1>6. Len(DeviceTypeIds) \in Nat \ {0}
  BY IdsAssumption, EmptySeq, LenProperties
<1>7. TypeOK
  <2>1. /\ 1 \in Nat \ {0} /\ 1 <= Len(DeviceTypeIds) /\ 1 <= MaxPages
        /\ -1 \in -1 .. MaxEdits /\ Edits <= MaxEdits
    BY <1>2, <1>6, BoundAssumption, PageAssumption
  <2>2. /\ page = 1 /\ listedAt = -1 /\ fetchedAt = 0 /\ pulledAt = 0 /\ faults = 0
        /\ pc = "poll" /\ mode \in {"off", "pages", "ids"} /\ listing = {}
        /\ cancelled \in BOOLEAN /\ consumers \in BOOLEAN /\ pulledWhole \in BOOLEAN
    BY DEF Init
  <2>3. /\ log \in Seq([at : Types \cup Files, removed : BOOLEAN])
        /\ text \in Seq([edit : 0 .. MaxEdits, type : Types]) /\ Len(text) <= 1
    BY <1>1
  <2> QED
    BY <1>1, <1>2, <1>3, <1>4, <1>5, <2>1, <2>2, <2>3 DEF TypeOK
<1>8. Newest /\ Past /\ Gathered
  BY <1>1, <1>2, <1>3 DEF Init, Newest, Past, Gathered, Found, HeldAt
<1>9. NoneMissed /\ NoFileMissed /\ Marked /\ FetchedIsServed /\ PushWins
  BY <1>3 DEF Init, NoneMissed, NoFileMissed, Marked, FetchedIsServed, PushWins
<1> QED
  BY <1>7, <1>8, <1>9 DEF IInv

\* A response adds edits of the inventory to what was put together.
LEMMA ExtendType ==
    ASSUME TypeOK, NEW objects \in SUBSET DOMAIN inventory
    PROVE  /\ IsMap(Extend(objects), Types, 0 .. MaxEdits)
           /\ \A t \in DOMAIN Extend(objects) :
                 \/ t \in DOMAIN inventory /\ Extend(objects)[t] = inventory[t].edit
                 \/ t \in DOMAIN got /\ Extend(objects)[t] = got[t]
                    /\ ~(t \in objects /\ inventory[t].ok)
           /\ \A t \in objects : inventory[t].ok =>
                 t \in DOMAIN Extend(objects) /\ Extend(objects)[t] = inventory[t].edit
           /\ DOMAIN got \subseteq DOMAIN Extend(objects)
<1> DEFINE readable == {t \in objects : inventory[t].ok}
<1>1. Extend(objects) = [t \in DOMAIN got \cup readable |->
                            IF t \in readable THEN inventory[t].edit ELSE got[t]]
  BY DEF Extend
<1>2. /\ \A t \in readable : t \in DOMAIN inventory /\ t \in Types
                             /\ inventory[t].edit \in 0 .. MaxEdits
      /\ \A t \in DOMAIN got : t \in Types /\ got[t] \in 0 .. MaxEdits
      /\ \A t : t \in readable <=> t \in objects /\ inventory[t].ok
  BY Numbers DEF TypeOK, IsMap
<1> HIDE DEF readable
<1>3. IsMap(Extend(objects), Types, 0 .. MaxEdits)
  BY <1>1, <1>2 DEF IsMap
<1> QED
  BY <1>1, <1>2, <1>3

\* Fetching keeps the types.
LEMMA FetchType ==
    ASSUME TypeOK, FetchPage \/ PageUnreadable \/ FetchById \/ FetchFails \/ Poll
    PROVE  TypeOK'
<1>1. /\ UNCHANGED <<inventory, files, log, mode, cancelled, consumers, listing, text, pushed,
                     published, listedAt>>
      /\ pc # "read"
  BY DEF FetchPage, PageUnreadable, FetchById, FetchFails, Poll, sources, signals, reading
<1>2. text = <<>> /\ Edits' = Edits /\ Edits \in 0 .. MaxEdits
  BY <1>1, Numbers DEF TypeOK, Edits
<1>3. /\ faults' \in 0 .. MaxFaults /\ pc' \in {"fetch", "list"}
      /\ fetchedAt' \in 0 .. MaxEdits /\ pulledAt' \in 0 .. MaxEdits /\ pulledWhole' \in BOOLEAN
  <2>1. faults' = faults \/ (faults < MaxFaults /\ faults' = faults + 1)
    BY DEF FetchPage, PageUnreadable, FetchById, FetchFails, Poll
  <2>2. pc' \in {"fetch", "list"}
    BY DEF FetchPage, PageUnreadable, FetchById, FetchFails, Poll, Fetched
  <2>3. /\ fetchedAt' = fetchedAt \/ fetchedAt' = Edits
        /\ pulledAt' = pulledAt \/ pulledAt' = fetchedAt
    BY DEF FetchPage, PageUnreadable, FetchById, FetchFails, Poll, Fetched, fetching, fetched
  <2>4. pulledWhole' \in BOOLEAN
    BY DEF FetchPage, PageUnreadable, FetchById, FetchFails, Poll, Fetched, fetched, TypeOK
  <2> QED
    BY <1>2, <2>1, <2>2, <2>3, <2>4, BoundAssumption DEF TypeOK
<1>4. /\ page' \in Nat \ {0}
      /\ mode = "pages" => page' <= MaxPages
      /\ mode = "ids" => page' <= Len(DeviceTypeIds)
  <2>1. Len(DeviceTypeIds) \in Nat \ {0} /\ 1 <= Len(DeviceTypeIds) /\ 1 <= MaxPages
    BY IdsAssumption, EmptySeq, LenProperties, PageAssumption
  <2>2. \/ page' = page \/ page' = 1
        \/ page' = page + 1 /\ mode = "pages" /\ page # MaxPages
        \/ page' = page + 1 /\ mode = "ids" /\ page # Len(DeviceTypeIds)
    BY DEF FetchPage, PageUnreadable, FetchById, FetchFails, Poll, Fetched, fetching
  <2> QED
    BY <2>1, <2>2, PageAssumption DEF TypeOK
<1>5. IsMap(got', Types, 0 .. MaxEdits) /\ IsMap(pulled', Types, 0 .. MaxEdits)
  <2>1. CASE FetchPage
    <3>1. PICK items \in SUBSET DOMAIN inventory :
              \/ pulled' = Extend(items) /\ got' = got
              \/ got' = Extend(items) /\ pulled' = pulled
      BY <2>1 DEF FetchPage, Fetched, fetching, fetched
    <3> QED
      BY <3>1, ExtendType DEF TypeOK
  <2>2. CASE FetchById
    <3>1. {DeviceTypeIds[page]} \in SUBSET DOMAIN inventory
      BY <2>2 DEF FetchById
    <3>2. \/ pulled' = Extend({DeviceTypeIds[page]}) /\ got' = got
          \/ got' = Extend({DeviceTypeIds[page]}) /\ pulled' = pulled
      BY <2>2 DEF FetchById, Fetched, fetching, fetched
    <3> QED
      BY <3>1, <3>2, ExtendType DEF TypeOK
  <2>3. CASE PageUnreadable \/ FetchFails
    BY <2>3 DEF PageUnreadable, FetchFails, Fetched, fetching, fetched, TypeOK
  <2>4. CASE Poll
    BY <2>4 DEF Poll, fetched, TypeOK, EmptyMap, IsMap
  <2> QED
    BY <2>1, <2>2, <2>3, <2>4
<1> QED
  BY <1>1, <1>2, <1>3, <1>4, <1>5 DEF TypeOK, Edits

\* So does reading the directory.
LEMMA ReadType ==
    ASSUME TypeOK, ListDir \/ DirUnreadable \/ ReadText \/ Stat
    PROVE  TypeOK'
<1>1. /\ UNCHANGED <<inventory, files, log, mode, cancelled, consumers, page, got, fetchedAt,
                     pulled, pulledAt, pulledWhole, published>>
      /\ pc' = "read" /\ Edits' = Edits /\ Edits \in 0 .. MaxEdits
  <2>1. Edits \in 0 .. MaxEdits
    BY Numbers DEF TypeOK
  <2> QED
    BY <2>1 DEF ListDir, DirUnreadable, ReadText, Stat, sources, signals, fetching, fetched, Edits
<1>2. faults' \in 0 .. MaxFaults /\ listedAt' \in -1 .. MaxEdits /\ listing' \subseteq Files
  <2>1. /\ faults' = faults \/ (faults < MaxFaults /\ faults' = faults + 1)
        /\ listedAt' \in {listedAt, Edits, -1}
        /\ listing' \subseteq DOMAIN files \/ listing' \subseteq listing
    BY DEF ListDir, DirUnreadable, ReadText, Stat
  <2> QED
    BY <1>1, <2>1, BoundAssumption DEF TypeOK, IsMap
<1>3. /\ text' \in Seq([edit : 0 .. MaxEdits, type : Types]) /\ Len(text') <= 1
      /\ text' # <<>> => listing' # {}
  <2>1. CASE text' = text /\ (text # <<>> => listing' # {})
    BY <2>1 DEF TypeOK
  <2>2. CASE text' = <<>>
    BY <2>2, EmptySeq
  <2>3. CASE ReadText /\ text' # text
    <3>1. PICK f \in listing : f \in DOMAIN files /\ files[f].type # NoType /\ text' = <<files[f]>>
                               /\ listing' = listing
      BY <2>3 DEF ReadText
    <3>2. files[f] \in [edit : 0 .. MaxEdits, type : Types]
      BY <3>1, Numbers
    <3>3. text' \in Seq([edit : 0 .. MaxEdits, type : Types]) /\ Len(text') = 1
      BY <3>1, <3>2
    <3> QED
      BY <3>1, <3>3
  <2>4. ReadText => text = <<>>
    BY DEF ReadText
  <2>5. ListDir \/ DirUnreadable => text' = text /\ text = <<>>
    BY DEF ListDir, DirUnreadable, TypeOK
  <2>6. Stat => text' = <<>>
    BY DEF Stat
  <2> QED
    BY <2>1, <2>2, <2>3, <2>4, <2>5, <2>6
<1>4. IsMap(pushed', Types, [edit : 0 .. MaxEdits, fingerprint : -1 .. MaxEdits])
  <2>1. CASE Stat
    <3>1. PICK f \in listing :
              pushed' = MapInsert(pushed, text[1].type,
                            [edit |-> text[1].edit,
                             fingerprint |-> IF f \in DOMAIN files THEN files[f].edit ELSE -1])
      BY <2>1 DEF Stat
    <3>2. /\ text[1].type \in Types /\ text[1].edit \in 0 .. MaxEdits
          /\ (IF f \in DOMAIN files THEN files[f].edit ELSE -1) \in -1 .. MaxEdits
      BY <2>1, Numbers DEF Stat
    <3>3. [edit |-> text[1].edit, fingerprint |-> IF f \in DOMAIN files THEN files[f].edit ELSE -1]
              \in [edit : 0 .. MaxEdits, fingerprint : -1 .. MaxEdits]
      BY <3>2
    <3> QED
      BY <3>1, <3>2, <3>3 DEF TypeOK, IsMap, MapInsert
  <2>2. CASE ListDir \/ DirUnreadable \/ ReadText
    BY <2>2 DEF ListDir, DirUnreadable, ReadText, TypeOK, EmptyMap, IsMap
  <2> QED
    BY <2>1, <2>2
<1> QED
  BY <1>1, <1>2, <1>3, <1>4 DEF TypeOK, Edits

\* What is merged is typed, and what is published of it.
LEMMA PublishType ==
    ASSUME TypeOK, Publish \/ Unheard \/ WakeUp \/ Return
    PROVE  TypeOK'
<1>1. /\ UNCHANGED <<inventory, files, log, faults, mode, cancelled, consumers, page, got, pulled,
                     listing, text, fetchedAt, pulledAt, pulledWhole, listedAt>>
      /\ pc' \in {"asleep", "returned", "poll"}
      /\ Edits' = Edits
  BY DEF Publish, Unheard, WakeUp, Return, sources, signals, fetching, fetched, reading, Edits
<1>2. text = <<>>
  BY DEF Publish, Unheard, WakeUp, Return, AllRead, TypeOK
<1>3. IsMap(pushed', Types, [edit : 0 .. MaxEdits, fingerprint : -1 .. MaxEdits])
  BY DEF Publish, Unheard, WakeUp, Return, reading, TypeOK, EmptyMap, IsMap
<1>4. IsMap(published', Types, Loaded)
  <2>1. IsMap(Merged, Types, Loaded)
    <3>1. /\ \A t \in DOMAIN pushed :
                t \in Types /\ pushed[t] \in [edit : 0 .. MaxEdits, fingerprint : -1 .. MaxEdits]
          /\ \A t \in DOMAIN pulled : t \in Types /\ pulled[t] \in 0 .. MaxEdits
                                      /\ pulled[t] \in -1 .. MaxEdits
      BY BoundAssumption DEF TypeOK, IsMap
    <3>2. \A t \in DOMAIN pushed :
              [origin |-> "push", edit |-> pushed[t].edit, fingerprint |-> pushed[t].fingerprint]
                  \in Loaded
      BY <3>1 DEF Loaded
    <3>3. \A t \in DOMAIN pulled :
              [origin |-> "pull", edit |-> pulled[t], fingerprint |-> pulled[t]] \in Loaded
      BY <3>1 DEF Loaded
    <3> QED
      BY <3>1, <3>2, <3>3 DEF Merged, IsMap
  <2>2. published' = published \/ published' = Merged
    BY DEF Publish, Unheard, WakeUp, Return
  <2> QED
    BY <2>1, <2>2 DEF TypeOK
<1> QED
  BY <1>1, <1>2, <1>3, <1>4 DEF TypeOK

\* And the world around the provider.
LEMMA WorldType ==
    ASSUME TypeOK,
           \/ \E t \in Types : \E ok \in BOOLEAN : EditObject(t, ok)
           \/ \E t \in Types : DeleteObject(t)
           \/ \E f \in Files : \E t \in Types \cup {NoType} : WriteFile(f, t)
           \/ \E f \in Files : RemoveFile(f)
           \/ Cancel \/ ConsumersEnd \/ UNCHANGED vars
    PROVE  TypeOK'
<1>1. CASE Cancel \/ ConsumersEnd \/ UNCHANGED vars
  BY <1>1 DEF Cancel, ConsumersEnd, vars, sources, signals, fetching, fetched, reading, TypeOK, Edits
<1>2. ASSUME NEW x \in Types \cup Files, NEW removed \in BOOLEAN, Edited(x, removed),
             UNCHANGED provider,
             IsMap(inventory', Types, [edit : 0 .. MaxEdits, ok : BOOLEAN]),
             IsMap(files', Files, [edit : 0 .. MaxEdits, type : Types \cup {NoType}])
      PROVE  TypeOK'
  BY <1>2, Logged DEF provider, signals, fetching, fetched, reading, TypeOK
<1>3. CASE \E t \in Types : \E ok \in BOOLEAN : EditObject(t, ok)
  <2>1. PICK t \in Types, ok \in BOOLEAN : EditObject(t, ok)
    BY <1>3
  <2>2. Edited(t, FALSE) /\ ThisEdit \in 0 .. MaxEdits /\ UNCHANGED provider
    BY <2>1, Logged DEF EditObject
  <2>3. [edit |-> ThisEdit, ok |-> ok] \in [edit : 0 .. MaxEdits, ok : BOOLEAN]
    BY <2>2
  <2>4. /\ IsMap(inventory', Types, [edit : 0 .. MaxEdits, ok : BOOLEAN])
        /\ IsMap(files', Files, [edit : 0 .. MaxEdits, type : Types \cup {NoType}])
    BY <2>1, <2>3 DEF EditObject, TypeOK, IsMap, MapInsert
  <2> QED
    BY <1>2, <2>2, <2>4
<1>4. CASE \E t \in Types : DeleteObject(t)
  <2>1. PICK t \in Types : DeleteObject(t)
    BY <1>4
  <2>2. /\ IsMap(inventory', Types, [edit : 0 .. MaxEdits, ok : BOOLEAN])
        /\ IsMap(files', Files, [edit : 0 .. MaxEdits, type : Types \cup {NoType}])
        /\ Edited(t, TRUE) /\ UNCHANGED provider
    BY <2>1 DEF DeleteObject, TypeOK, IsMap, MapRemove
  <2> QED
    BY <1>2, <2>2
<1>5. CASE \E f \in Files : \E t \in Types \cup {NoType} : WriteFile(f, t)
  <2>1. PICK f \in Files, t \in Types \cup {NoType} : WriteFile(f, t)
    BY <1>5
  <2>2. Edited(f, FALSE) /\ ThisEdit \in 0 .. MaxEdits /\ UNCHANGED provider
    BY <2>1, Logged DEF WriteFile
  <2>3. [edit |-> ThisEdit, type |-> t] \in [edit : 0 .. MaxEdits, type : Types \cup {NoType}]
    BY <2>2
  <2>4. /\ IsMap(inventory', Types, [edit : 0 .. MaxEdits, ok : BOOLEAN])
        /\ IsMap(files', Files, [edit : 0 .. MaxEdits, type : Types \cup {NoType}])
    BY <2>1, <2>3 DEF WriteFile, TypeOK, IsMap, MapInsert
  <2> QED
    BY <1>2, <2>2, <2>4
<1>6. CASE \E f \in Files : RemoveFile(f)
  <2>1. PICK f \in Files : RemoveFile(f)
    BY <1>6
  <2>2. /\ IsMap(inventory', Types, [edit : 0 .. MaxEdits, ok : BOOLEAN])
        /\ IsMap(files', Files, [edit : 0 .. MaxEdits, type : Types \cup {NoType}])
        /\ Edited(f, TRUE) /\ UNCHANGED provider
    BY <2>1 DEF RemoveFile, TypeOK, IsMap, MapRemove
  <2> QED
    BY <1>2, <2>2
<1> QED
  BY <1>1, <1>3, <1>4, <1>5, <1>6

\* Every step keeps the types.
LEMMA TypeInv == TypeOK /\ [Next]_vars => TypeOK'
BY FetchType, ReadType, PublishType, WorldType DEF Next, Provider

-----------------------------------------------------------------------------
(* Edits while the provider is anywhere.                                   *)

\* An edit takes nothing from what was found, and what it touches is newer than any
\* round: no invariant speaks of it.
LEMMA EditInv ==
    ASSUME IInv, TypeOK', NEW x \in Types \cup Files, NEW removed \in BOOLEAN,
           Edited(x, removed), UNCHANGED provider,
           \A t \in DOMAIN inventory' :
              \/ t # x /\ t \in DOMAIN inventory /\ inventory'[t] = inventory[t]
              \/ t = x /\ inventory'[t].edit = ThisEdit,
           \A f \in DOMAIN files' :
              \/ f # x /\ f \in DOMAIN files /\ files'[f] = files[f]
              \/ f = x /\ files'[f].edit = ThisEdit,
           \/ DOMAIN inventory \subseteq DOMAIN inventory'
           \/ x \in Types /\ removed
    PROVE  IInv'
<1>1. TypeOK /\ Newest /\ Past /\ Gathered
  BY DEF IInv
<1>2. /\ Edits \in Nat /\ Edits' = Edits + 1 /\ ThisEdit = Edits + 1
      /\ \A i \in 1 .. Edits : log'[i] = log[i]
      /\ log'[ThisEdit].at = x /\ log'[ThisEdit].removed = removed
  <2>1. /\ Edits \in Nat /\ Edits' = Edits + 1
        /\ \A i \in 1 .. Edits : log'[i] = log[i]
        /\ log'[ThisEdit] = [at |-> x, removed |-> removed]
    BY <1>1, Logged
  <2> QED
    BY <2>1 DEF ThisEdit
<1>3. /\ UNCHANGED <<faults, mode, cancelled, consumers, pc, page, got, fetchedAt, pulled, pulledAt,
                     pulledWhole, listing, text, pushed, published, listedAt>>
  BY DEF provider, signals, fetching, fetched, reading
<1>4. ASSUME NEW y, NEW e \in Nat, y # x, Found(y, e, Edits) PROVE Found(y, e, Edits)'
  <2>1. Edits' = ThisEdit /\ ThisEdit \in Nat
    BY <1>2
  <2>2. e <= Edits' /\ (e > 0 => e \in 1 .. Edits)
    BY <1>2, <1>4 DEF Found
  <2>3. \A i \in e + 1 .. Edits' : i = ThisEdit \/ (i \in e + 1 .. Edits /\ i \in 1 .. Edits)
    BY <1>2
  <2>4. \A i \in e + 1 .. Edits' : log'[i].at # y
    BY <1>2, <1>4, <2>3 DEF Found, HeldAt
  <2>5. e > 0 => log'[e].at = y
    BY <1>2, <1>4, <2>2 DEF Found, HeldAt
  <2> QED
    BY <2>2, <2>4, <2>5 DEF Found, HeldAt
<1>5. ASSUME NEW e, e = ThisEdit PROVE Found(x, e, Edits)' /\ e \in Nat
  <2>1. e \in Nat /\ e <= Edits' /\ \A i \in e + 1 .. Edits' : FALSE
    BY <1>2, <1>5
  <2> QED
    BY <1>2, <1>5, <2>1 DEF Found, HeldAt
<1>6. Newest'
  <2>1. ASSUME NEW t \in DOMAIN inventory' PROVE Found(t, inventory[t].edit, Edits)'
    <3>1. PICK e : e = inventory'[t].edit
      OBVIOUS
    <3>2. Found(t, e, Edits)'
      <4>1. CASE t # x /\ t \in DOMAIN inventory /\ inventory'[t] = inventory[t]
        BY <1>1, <1>4, <3>1, <4>1, Numbers DEF Newest
      <4>2. CASE t = x /\ e = ThisEdit
        BY <1>5, <4>2
      <4> QED
        BY <3>1, <4>1, <4>2
    <3> QED
      BY <3>1, <3>2
  <2>2. ASSUME NEW f \in DOMAIN files' PROVE Found(f, files[f].edit, Edits)'
    <3>1. PICK e : e = files'[f].edit
      OBVIOUS
    <3>2. Found(f, e, Edits)'
      <4>1. CASE f # x /\ f \in DOMAIN files /\ files'[f] = files[f]
        BY <1>1, <1>4, <3>1, <4>1, Numbers DEF Newest
      <4>2. CASE f = x /\ e = ThisEdit
        BY <1>5, <4>2
      <4> QED
        BY <3>1, <4>1, <4>2
    <3> QED
      BY <3>1, <3>2
  <2> QED
    BY <2>1, <2>2 DEF Newest
<1>7. Past'
  BY <1>1, <1>2, <1>3, Numbers DEF Past
<1>8. ASSUME NEW y, NEW e \in Nat, NEW then \in Int, then <= Edits, Found(y, e, then)
      PROVE  Found(y, e, then)'
  BY <1>2, <1>8, FoundStays
<1>9. Gathered'
  <2>1. /\ fetchedAt \in Int /\ pulledAt \in Int /\ listedAt \in Int
        /\ fetchedAt <= Edits /\ pulledAt <= Edits /\ listedAt <= Edits
    BY <1>1, Numbers DEF Past
  <2>2. ASSUME NEW y, NEW e \in Nat
        PROVE  /\ Found(y, e, fetchedAt) => Found(y, e, fetchedAt)'
               /\ Found(y, e, pulledAt) => Found(y, e, pulledAt)'
               /\ Found(y, e, listedAt) => Found(y, e, listedAt)'
    <3>1. PICK a, b, c : a = fetchedAt /\ b = pulledAt /\ c = listedAt
      OBVIOUS
    <3>2. /\ Found(y, e, a) => Found(y, e, a)'
          /\ Found(y, e, b) => Found(y, e, b)'
          /\ Found(y, e, c) => Found(y, e, c)'
      BY <1>8, <2>1, <3>1
    <3>3. a = fetchedAt' /\ b = pulledAt' /\ c = listedAt'
      BY <1>3, <3>1
    <3> QED
      BY <3>1, <3>2, <3>3
  <2>3. \A t \in DOMAIN got' : Found(t, got[t], fetchedAt)'
    <3> SUFFICES ASSUME NEW t \in DOMAIN got' PROVE Found(t, got[t], fetchedAt)'
      OBVIOUS
    <3>1. PICK e : e = got[t]
      OBVIOUS
    <3>2. e \in Nat /\ Found(t, e, fetchedAt) /\ e = got'[t]
      BY <1>1, <1>3, <3>1, Numbers DEF Gathered
    <3> QED
      BY <2>2, <3>2
  <2>4. \A t \in DOMAIN pulled' : Found(t, pulled[t], pulledAt)'
    <3> SUFFICES ASSUME NEW t \in DOMAIN pulled' PROVE Found(t, pulled[t], pulledAt)'
      OBVIOUS
    <3>1. PICK e : e = pulled[t]
      OBVIOUS
    <3>2. e \in Nat /\ Found(t, e, pulledAt) /\ e = pulled'[t]
      BY <1>1, <1>3, <3>1, Numbers DEF Gathered
    <3> QED
      BY <2>2, <3>2
  <2>5. \A i \in DOMAIN text' : \E f \in Files : Found(f, text[i].edit, listedAt)'
    <3> SUFFICES ASSUME NEW i \in DOMAIN text'
                 PROVE  \E f \in Files : Found(f, text[i].edit, listedAt)'
      OBVIOUS
    <3>1. PICK e : e = text[i].edit
      OBVIOUS
    <3>2. e \in Nat /\ (\E f \in Files : Found(f, e, listedAt)) /\ e = text'[i].edit
      BY <1>1, <1>3, <3>1, Numbers DEF Gathered
    <3> QED
      BY <2>2, <3>2
  <2>6. \A t \in DOMAIN pushed' : \E f \in Files : Found(f, pushed[t].edit, listedAt)'
    <3> SUFFICES ASSUME NEW t \in DOMAIN pushed'
                 PROVE  \E f \in Files : Found(f, pushed[t].edit, listedAt)'
      OBVIOUS
    <3>1. PICK e : e = pushed[t].edit
      OBVIOUS
    <3>2. e \in Nat /\ (\E f \in Files : Found(f, e, listedAt)) /\ e = pushed'[t].edit
      BY <1>1, <1>3, <3>1, Numbers DEF Gathered
    <3> QED
      BY <2>2, <3>2
  <2> QED
    BY <2>3, <2>4, <2>5, <2>6 DEF Gathered
<1>10. /\ \A t \in DOMAIN inventory' : inventory'[t].edit <= Edits =>
             t \in DOMAIN inventory /\ inventory'[t] = inventory[t]
       /\ \A f \in DOMAIN files' : files'[f].edit <= Edits =>
             f \in DOMAIN files /\ files'[f] = files[f]
  BY <1>2
<1>11. \A since \in Int : since <= Edits =>
          \A t \in DOMAIN inventory' : Steady(t, since)' =>
              t \in DOMAIN inventory /\ inventory'[t] = inventory[t] /\ Steady(t, since)
  <2> SUFFICES ASSUME NEW since \in Int, since <= Edits, NEW t \in DOMAIN inventory',
                      Steady(t, since)'
               PROVE  t \in DOMAIN inventory /\ inventory'[t] = inventory[t] /\ Steady(t, since)
    OBVIOUS
  <2>1. inventory'[t].edit <= since /\ inventory'[t].edit \in Nat
    BY DEF Steady, TypeOK, IsMap
  <2>2. inventory'[t].edit <= Edits
    BY <1>2, <2>1
  <2> QED
    BY <1>3, <1>10, <2>2 DEF Steady
<1>12. NoneMissed'
  <2>1. ASSUME pc' = "fetch", NothingMoved', NEW t \in DOMAIN inventory',
               Steady(t, fetchedAt)', ~Ahead(t)'
        PROVE  t \in DOMAIN got' /\ got'[t] = inventory'[t].edit
    <3>1. /\ NothingMoved
          /\ DOMAIN inventory \subseteq DOMAIN inventory'
      <4>1. fetchedAt \in Nat /\ fetchedAt <= Edits /\ fetchedAt' = fetchedAt
        BY <1>1, <1>3, Numbers DEF Past
      <4>2. /\ \A i \in fetchedAt + 1 .. Edits : i \in 1 .. Edits /\ i \in fetchedAt + 1 .. Edits'
            /\ ThisEdit \in fetchedAt + 1 .. Edits'
        BY <1>2, <4>1
      <4>3. NothingMoved
        BY <1>2, <2>1, <4>1, <4>2 DEF NothingMoved
      <4>4. ~removed \/ x \notin Types
        BY <1>2, <2>1, <4>1, <4>2 DEF NothingMoved
      <4> QED
        BY <4>3, <4>4
    <3>2. t \in DOMAIN inventory /\ inventory'[t] = inventory[t] /\ Steady(t, fetchedAt)
      <4>1. PICK since : since = fetchedAt
        OBVIOUS
      <4>2. since \in Int /\ since <= Edits /\ Steady(t, since)'
        BY <1>1, <1>3, <2>1, <4>1, Numbers DEF Past, Steady
      <4> QED
        BY <1>11, <4>1, <4>2
    <3>3. ~Ahead(t)
      <4>1. CASE mode = "pages"
        <5>1. Rank(t)' >= Rank(t) /\ Rank(t) \in Nat /\ Rank(t)' \in Nat
          BY <1>1, <3>1, RankRises, Ranked
        <5>2. (page - 1) * PageSize \in Int
          BY <1>1, PageAssumption DEF TypeOK
        <5>3. ~(Rank(t)' > (page - 1) * PageSize)
          BY <1>3, <2>1, <4>1 DEF Ahead
        <5>4. ~(Rank(t) > (page - 1) * PageSize)
          BY <5>1, <5>2, <5>3
        <5> QED
          BY <4>1, <5>4 DEF Ahead
      <4>2. CASE mode # "pages"
        BY <1>3, <2>1, <4>2 DEF Ahead
      <4> QED
        BY <4>1, <4>2
    <3> QED
      BY <1>3, <2>1, <3>1, <3>2, <3>3 DEF IInv, NoneMissed
  <2>2. ASSUME pulledWhole', NEW t \in DOMAIN inventory', Steady(t, pulledAt)'
        PROVE  t \in DOMAIN pulled' /\ pulled'[t] = inventory'[t].edit
    <3>1. t \in DOMAIN inventory /\ inventory'[t] = inventory[t] /\ Steady(t, pulledAt)
      <4>1. PICK since : since = pulledAt
        OBVIOUS
      <4>2. since \in Int /\ since <= Edits /\ Steady(t, since)'
        BY <1>1, <1>3, <2>2, <4>1, Numbers DEF Past, Steady
      <4> QED
        BY <1>11, <4>1, <4>2
    <3> QED
      BY <1>3, <2>2, <3>1 DEF IInv, NoneMissed
  <2> QED
    BY <1>3, <2>1, <2>2 DEF IInv, NoneMissed
<1>13. NoFileMissed'
  <2> SUFFICES ASSUME pc = "read", NEW f \in DOMAIN files', files'[f].type # NoType,
                      files'[f].edit <= listedAt
               PROVE  /\ f \in listing \/ files'[f].type \in DOMAIN pushed
                      /\ text # <<>> /\ IsNext(f) => text[1] = files'[f]
    BY <1>3 DEF NoFileMissed, IsNext
  <2>1. listedAt <= Edits /\ listedAt \in Int /\ Edits \in Nat
    BY <1>1, Numbers DEF Past
  <2>2. files'[f].edit \in Nat
    BY DEF TypeOK, IsMap
  <2>3. f \in DOMAIN files /\ files'[f] = files[f]
    BY <1>10, <2>1, <2>2
  <2> QED
    BY <2>3 DEF IInv, NoFileMissed
<1>14. FetchedIsServed'
  <2> SUFFICES ASSUME pc = "asleep", pulledWhole, NEW t \in DOMAIN inventory', Steady(t, pulledAt)'
               PROVE  /\ t \in DOMAIN published
                      /\ published[t].origin = "pull" => published[t].edit = inventory'[t].edit
    BY <1>3 DEF FetchedIsServed, Steady
  <2>1. t \in DOMAIN inventory /\ inventory'[t] = inventory[t] /\ Steady(t, pulledAt)
    <3>1. PICK since : since = pulledAt
      OBVIOUS
    <3>2. since \in Int /\ since <= Edits /\ Steady(t, since)'
      BY <1>1, <1>3, <3>1, Numbers DEF Past, Steady
    <3> QED
      BY <1>11, <3>1, <3>2
  <2> QED
    BY <2>1 DEF IInv, FetchedIsServed, Steady
<1>15. PushWins'
  <2> SUFFICES ASSUME pc = "asleep", NEW f \in DOMAIN files', files'[f].type # NoType,
                      files'[f].edit <= listedAt
               PROVE  /\ files'[f].type \in DOMAIN published
                      /\ published[files'[f].type].origin = "push"
    BY <1>3 DEF PushWins
  <2>1. listedAt <= Edits /\ listedAt \in Int /\ Edits \in Nat
    BY <1>1, Numbers DEF Past
  <2>2. files'[f].edit \in Nat
    BY DEF TypeOK, IsMap
  <2>3. f \in DOMAIN files /\ files'[f] = files[f]
    BY <1>10, <2>1, <2>2
  <2> QED
    BY <2>3 DEF IInv, PushWins
<1>16. Marked'
  BY <1>3 DEF IInv, Marked
<1> QED
  BY <1>6, <1>7, <1>9, <1>12, <1>13, <1>14, <1>15, <1>16 DEF IInv

\* Whatever users and configuration management do.
LEMMA WorldInv ==
    ASSUME IInv, TypeOK',
           \/ \E t \in Types : \E ok \in BOOLEAN : EditObject(t, ok)
           \/ \E t \in Types : DeleteObject(t)
           \/ \E f \in Files : \E t \in Types \cup {NoType} : WriteFile(f, t)
           \/ \E f \in Files : RemoveFile(f)
    PROVE  IInv'
<1>1. DOMAIN inventory \subseteq Types /\ DOMAIN files \subseteq Files
  BY DEF IInv, TypeOK, IsMap
<1>2. CASE \E t \in Types : \E ok \in BOOLEAN : EditObject(t, ok)
  <2>1. PICK t \in Types, ok \in BOOLEAN : EditObject(t, ok)
    BY <1>2
  <2>2. /\ Edited(t, FALSE) /\ UNCHANGED provider /\ files' = files
        /\ DOMAIN inventory' = DOMAIN inventory \cup {t}
        /\ inventory'[t].edit = ThisEdit
        /\ \A u \in DOMAIN inventory : u # t => inventory'[u] = inventory[u]
    BY <2>1 DEF EditObject, MapInsert
  <2>3. \A f \in DOMAIN files' : f # t /\ f \in DOMAIN files /\ files'[f] = files[f]
    BY <1>1, <2>2, NameAssumption
  <2> QED
    BY <2>2, <2>3, EditInv
<1>3. CASE \E t \in Types : DeleteObject(t)
  <2>1. PICK t \in Types : DeleteObject(t)
    BY <1>3
  <2>2. /\ Edited(t, TRUE) /\ UNCHANGED provider /\ files' = files
        /\ \A u \in DOMAIN inventory' :
              u # t /\ u \in DOMAIN inventory /\ inventory'[u] = inventory[u]
    BY <2>1 DEF DeleteObject, MapRemove
  <2>3. \A f \in DOMAIN files' : f # t /\ f \in DOMAIN files /\ files'[f] = files[f]
    BY <1>1, <2>2, NameAssumption
  <2> QED
    BY <2>2, <2>3, EditInv
<1>4. CASE \E f \in Files : \E t \in Types \cup {NoType} : WriteFile(f, t)
  <2>1. PICK f \in Files, t \in Types \cup {NoType} : WriteFile(f, t)
    BY <1>4
  <2>2. /\ Edited(f, FALSE) /\ UNCHANGED provider /\ inventory' = inventory
        /\ DOMAIN files' = DOMAIN files \cup {f}
        /\ files'[f].edit = ThisEdit
        /\ \A g \in DOMAIN files : g # f => files'[g] = files[g]
    BY <2>1 DEF WriteFile, MapInsert
  <2>3. \A t2 \in DOMAIN inventory' :
            t2 # f /\ t2 \in DOMAIN inventory /\ inventory'[t2] = inventory[t2]
    BY <1>1, <2>2, NameAssumption
  <2> QED
    BY <2>2, <2>3, EditInv
<1>5. CASE \E f \in Files : RemoveFile(f)
  <2>1. PICK f \in Files : RemoveFile(f)
    BY <1>5
  <2>2. /\ Edited(f, TRUE) /\ UNCHANGED provider /\ inventory' = inventory
        /\ \A g \in DOMAIN files' : g # f /\ g \in DOMAIN files /\ files'[g] = files[g]
    BY <2>1 DEF RemoveFile, MapRemove
  <2>3. \A t \in DOMAIN inventory' :
            t # f /\ t \in DOMAIN inventory /\ inventory'[t] = inventory[t]
    BY <1>1, <2>2, NameAssumption
  <2> QED
    BY <2>2, <2>3, EditInv
<1> QED
  BY <1>2, <1>3, <1>4, <1>5

-----------------------------------------------------------------------------
(* The provider's steps.                                                   *)

\* No step of the provider edits anything, and a round begins at the present.
LEMMA PresentInv ==
    ASSUME IInv, Provider
    PROVE  /\ UNCHANGED <<inventory, files, log, mode>> /\ Edits' = Edits
           /\ Newest' /\ Past'
<1>1. UNCHANGED <<inventory, files, log, mode>>
  BY DEF Provider, Poll, FetchPage, PageUnreadable, FetchById, FetchFails, ListDir, DirUnreadable,
         ReadText, Stat, Publish, Unheard, WakeUp, Return, sources, signals
<1>2. Edits' = Edits
  BY <1>1 DEF Edits
<1>3. /\ fetchedAt' \in {fetchedAt, Edits} /\ pulledAt' \in {pulledAt, fetchedAt}
      /\ listedAt' \in {listedAt, Edits, -1}
  BY DEF Provider, Poll, FetchPage, PageUnreadable, FetchById, FetchFails, Fetched, ListDir,
         DirUnreadable, ReadText, Stat, Publish, Unheard, WakeUp, Return, fetching, fetched
<1>4. Newest'
  BY <1>1, <1>2 DEF IInv, Newest, Found, HeldAt
<1>5. Past'
  BY <1>2, <1>3, Numbers DEF IInv, Past
<1> QED
  BY <1>1, <1>2, <1>4, <1>5

\* What is newest was still there after any number of edits it is looked at.
LEMMA NewestFound ==
    ASSUME IInv, NEW then \in Int, then <= Edits
    PROVE  /\ \A t \in DOMAIN inventory : Found(t, inventory[t].edit, then)
           /\ \A f \in DOMAIN files : Found(f, files[f].edit, then)
<1>1. \A y, e : e \in Nat /\ Found(y, e, Edits) => Found(y, e, then)
  <2> SUFFICES ASSUME NEW y, NEW e \in Nat, Found(y, e, Edits) PROVE Found(y, e, then)
    OBVIOUS
  <2>1. \A i \in e + 1 .. then : i \in e + 1 .. Edits
    BY Numbers DEF IInv
  <2> QED
    BY <2>1 DEF Found, HeldAt
<1> QED
  BY <1>1, Numbers DEF IInv, Newest

\* Every step of the provider puts together what was there.
LEMMA GatheredInv ==
    ASSUME IInv, Provider
    PROVE  Gathered'
<1>1. /\ UNCHANGED <<inventory, files, log, mode>> /\ Edits' = Edits
      /\ TypeOK /\ Past /\ Gathered
  BY PresentInv DEF IInv
<1>2. \A y, e, then : Found(y, e, then)' <=> Found(y, e, then)
  BY <1>1 DEF Found, HeldAt
<1>3. /\ \A t \in DOMAIN inventory : Found(t, inventory[t].edit, fetchedAt)
      /\ \A f \in DOMAIN files : Found(f, files[f].edit, listedAt)
  BY <1>1, NewestFound, Numbers DEF Past
<1>4. CASE FetchPage \/ FetchById
  <2>1. PICK objects \in SUBSET DOMAIN inventory :
            \/ pulled' = Extend(objects) /\ got' = got /\ pulledAt' = fetchedAt
            \/ got' = Extend(objects) /\ pulled' = pulled /\ pulledAt' = pulledAt
    <3>1. CASE FetchPage
      BY <3>1 DEF FetchPage, Fetched, fetching, fetched
    <3>2. CASE FetchById
      <4>1. {DeviceTypeIds[page]} \in SUBSET DOMAIN inventory
        BY <3>2 DEF FetchById
      <4>2. \/ /\ pulled' = Extend({DeviceTypeIds[page]}) /\ got' = got /\ pulledAt' = fetchedAt
            \/ /\ got' = Extend({DeviceTypeIds[page]}) /\ pulled' = pulled /\ pulledAt' = pulledAt
        BY <3>2 DEF FetchById, Fetched, fetching, fetched
      <4> QED
        BY <4>1, <4>2
    <3> QED
      BY <1>4, <3>1, <3>2
  <2>2. \A t \in DOMAIN Extend(objects) : Found(t, Extend(objects)[t], fetchedAt)
    BY <1>1, <1>3, ExtendType DEF Gathered
  <2>3. UNCHANGED <<fetchedAt, text, pushed, listedAt>>
    BY <1>4 DEF FetchPage, FetchById, Fetched, fetching, reading
  <2> QED
    BY <1>1, <1>2, <2>1, <2>2, <2>3 DEF Gathered
<1>5. CASE PageUnreadable \/ FetchFails
  BY <1>1, <1>2, <1>5 DEF PageUnreadable, FetchFails, Fetched, fetching, fetched, reading, Gathered
<1>6. CASE Poll
  BY <1>1, <1>2, <1>6 DEF Poll, fetched, reading, Gathered, EmptyMap
<1>7. CASE ListDir \/ DirUnreadable
  <2>1. text = <<>> /\ DOMAIN text = {}
    BY <1>1, <1>7, EmptySeq DEF ListDir, DirUnreadable, TypeOK
  <2> QED
    BY <1>1, <1>2, <1>7, <2>1 DEF ListDir, DirUnreadable, fetching, fetched, Gathered, EmptyMap
<1>8. CASE ReadText
  <2>1. UNCHANGED <<got, fetchedAt, pulled, pulledAt, pushed, listedAt>>
    BY <1>8 DEF ReadText, fetching, fetched
  <2>2. \A i \in DOMAIN text' : \E f \in Files : Found(f, text'[i].edit, listedAt)
    <3>1. CASE text' = text
      BY <1>1, <3>1 DEF Gathered
    <3>2. CASE \E f \in DOMAIN files : text' = <<files[f]>>
      <4>1. PICK f \in DOMAIN files : text' = <<files[f]>>
        BY <3>2
      <4>2. \A i \in DOMAIN text' : text'[i] = files[f]
        BY <4>1
      <4>3. f \in Files
        BY <1>1 DEF TypeOK, IsMap
      <4> QED
        BY <1>3, <4>2, <4>3
    <3> QED
      BY <1>8, <3>1, <3>2 DEF ReadText
  <2> QED
    BY <1>1, <1>2, <2>1, <2>2 DEF Gathered
<1>9. CASE Stat
  <2>1. UNCHANGED <<got, fetchedAt, pulled, pulledAt, listedAt>> /\ text' = <<>> /\ DOMAIN text' = {}
    BY <1>9, EmptySeq DEF Stat, fetching, fetched
  <2>2. \E f \in Files : Found(f, text[1].edit, listedAt)
    BY <1>1, <1>9, Numbers DEF Stat, Gathered
  <2>3. /\ \A t \in DOMAIN pushed' : t \in DOMAIN pushed \/ t = text[1].type
        /\ \A t \in DOMAIN pushed' :
              IF t = text[1].type THEN pushed'[t].edit = text[1].edit ELSE pushed'[t] = pushed[t]
    BY <1>9 DEF Stat, MapInsert
  <2>4. \A t \in DOMAIN pushed' : \E f \in Files : Found(f, pushed'[t].edit, listedAt)
    BY <1>1, <2>2, <2>3 DEF Gathered
  <2> QED
    BY <1>1, <1>2, <2>1, <2>4 DEF Gathered
<1>10. CASE Publish \/ Unheard \/ WakeUp \/ Return
  BY <1>1, <1>2, <1>10
     DEF Publish, Unheard, WakeUp, Return, fetching, fetched, reading, Gathered, EmptyMap
<1> QED
  BY <1>4, <1>5, <1>6, <1>7, <1>8, <1>9, <1>10 DEF Provider

\* An object listed is somewhere in the list.
LEMMA RankPositive ==
    ASSUME TypeOK, NEW t \in DOMAIN inventory
    PROVE  Rank(t) > 0
<1>1. DOMAIN inventory \in SUBSET Types /\ t \in Types
  BY DEF TypeOK, IsMap
<1>2. IsFiniteSet(DOMAIN inventory)
  BY <1>1, TypesFinite, FS_Subset
<1>3. Place(TypeOrder, t) \in Nat
  <2>1. \E i \in DOMAIN TypeOrder : TypeOrder[i] = t
    BY <1>1, OrderAssumption
  <2>2. DOMAIN TypeOrder \subseteq Nat
    BY OrderAssumption, LenProperties
  <2> QED
    BY <2>1, <2>2 DEF Place
<1> DEFINE above == {u \in DOMAIN inventory : Place(TypeOrder, u) <= Place(TypeOrder, t)}
<1>4. t \in above /\ above \in SUBSET DOMAIN inventory /\ Rank(t) = Cardinality(above)
  BY <1>3 DEF Rank
<1> HIDE DEF above
<1>5. IsFiniteSet(above) /\ Cardinality(above) # 0
  BY <1>2, <1>4, FS_Subset, FS_EmptySet
<1>6. Rank(t) \in Nat
  BY Ranked
<1> QED
  BY <1>4, <1>5, <1>6

\* What a fetch has passed it holds, with what a response adds.
LEMMA FetchGains ==
    ASSUME IInv, pc = "fetch", NothingMoved, NEW objects \in SUBSET DOMAIN inventory,
           NEW t \in DOMAIN inventory, Steady(t, fetchedAt), ~Ahead(t) \/ t \in objects
    PROVE  t \in DOMAIN Extend(objects) /\ Extend(objects)[t] = inventory[t].edit
<1>1. CASE t \in objects
  BY <1>1, ExtendType DEF IInv, Steady
<1>2. CASE ~Ahead(t)
  <2>1. t \in DOMAIN got /\ got[t] = inventory[t].edit
    BY <1>2 DEF IInv, NoneMissed
  <2> QED
    BY <2>1, ExtendType DEF IInv
<1> QED
  BY <1>1, <1>2

\* No step of the provider passes over an object that stays as and where it is.
LEMMA NoneMissedInv ==
    ASSUME IInv, Provider
    PROVE  NoneMissed'
<1>1. /\ UNCHANGED <<inventory, log, mode>> /\ Edits' = Edits /\ TypeOK
  BY PresentInv DEF IInv
<1>2. \A t, since : Steady(t, since)' <=> Steady(t, since)
  BY <1>1 DEF Steady
<1>3. \A t : Rank(t)' = Rank(t)
  BY <1>1 DEF Rank
<1>4. /\ page \in Nat \ {0} /\ PageSize \in Nat \ {0} /\ mode \in {"off", "pages", "ids"}
      /\ page + 1 - 1 = page /\ page - 1 \in Nat /\ (page - 1) * PageSize \in Nat
      /\ (page + 1 - 1) * PageSize = (page - 1) * PageSize + PageSize
  BY <1>1, PageAssumption DEF TypeOK
<1>5. CASE FetchPage
  <2> DEFINE from == (page - 1) * PageSize
             items == {t \in DOMAIN inventory : from < Rank(t) /\ Rank(t) <= from + PageSize}
             last == from + PageSize >= Cardinality(DOMAIN inventory)
  <2>1. /\ pc = "fetch" /\ mode = "pages"
        /\ \/ Fetched(Extend(items), last)
           \/ /\ ~last /\ got' = Extend(items) /\ page' = page + 1
              /\ UNCHANGED <<pc, fetchedAt, fetched>>
    BY <1>5 DEF FetchPage
  <2>2. items \in SUBSET DOMAIN inventory
    OBVIOUS
  <2>3. \A t \in DOMAIN inventory : Rank(t) \in Nat /\ Rank(t) <= Cardinality(DOMAIN inventory)
                                     /\ Cardinality(DOMAIN inventory) \in Nat
    BY <1>1, Ranked
  <2>4. \A t \in DOMAIN inventory :
            ~Ahead(t) \/ t \in items \/ Rank(t) > from + PageSize
    <3> SUFFICES ASSUME NEW t \in DOMAIN inventory, Ahead(t), ~(Rank(t) > from + PageSize)
                 PROVE  t \in items
      OBVIOUS
    <3>1. from < Rank(t)
      BY <1>4, <2>1, <2>3 DEF Ahead
    <3>2. Rank(t) <= from + PageSize
      BY <1>4, <2>3
    <3> QED
      BY <3>1, <3>2
  <2>5. last => \A t \in DOMAIN inventory : ~(Rank(t) > from + PageSize)
    BY <1>4, <2>3
  <2> HIDE DEF items, last
  <2>6. CASE Fetched(Extend(items), last)
    <3>1. /\ pulled' = Extend(items) /\ pulledAt' = fetchedAt /\ pc' = "list"
          /\ pulledWhole' => last /\ NothingMoved
      BY <2>6 DEF Fetched
    <3>2. pulledWhole' => \A t \in DOMAIN inventory : Steady(t, fetchedAt) =>
              t \in DOMAIN pulled' /\ pulled'[t] = inventory[t].edit
      BY <2>1, <2>2, <2>4, <2>5, <3>1, FetchGains
    <3> QED
      BY <1>1, <1>2, <2>1, <3>1, <3>2 DEF NoneMissed
  <2>7. CASE /\ got' = Extend(items) /\ page' = page + 1
             /\ UNCHANGED <<pc, fetchedAt, fetched>>
    <3>1. NothingMoved' => NothingMoved
      BY <1>1, <2>7 DEF NothingMoved
    <3>2. \A t \in DOMAIN inventory : ~Ahead(t)' => ~(Rank(t) > from + PageSize)
      BY <1>1, <1>3, <1>4, <2>1, <2>7 DEF Ahead
    <3>3. NothingMoved => \A t \in DOMAIN inventory : Steady(t, fetchedAt) /\ ~Ahead(t)' =>
              t \in DOMAIN got' /\ got'[t] = inventory[t].edit
      BY <2>1, <2>2, <2>4, <2>7, <3>2, FetchGains
    <3>4. UNCHANGED <<fetchedAt, pulled, pulledAt, pulledWhole, pc>>
      BY <2>7 DEF fetched
    <3> QED
      BY <1>1, <1>2, <2>1, <3>1, <3>3, <3>4 DEF NoneMissed, IInv
  <2> QED
    BY <2>1, <2>6, <2>7
<1>6. CASE FetchById
  <2> DEFINE id == DeviceTypeIds[page]
  <2>1. /\ pc = "fetch" /\ mode = "ids" /\ {id} \in SUBSET DOMAIN inventory
        /\ \/ page = Len(DeviceTypeIds) /\ Fetched(Extend({id}), TRUE)
           \/ /\ got' = Extend({id}) /\ page' = page + 1
              /\ UNCHANGED <<pc, fetchedAt, fetched>>
    BY <1>6 DEF FetchById
  <2>2. \A i \in 1 .. page : i \in 1 .. page - 1 \/ i = page
    BY <1>4
  <2>3. \A t \in DOMAIN inventory :
            ~Ahead(t) \/ t \in {id} \/ \A i \in 1 .. page : DeviceTypeIds[i] # t
    BY <2>1, <2>2 DEF Ahead
  <2> HIDE DEF id
  <2>4. CASE page = Len(DeviceTypeIds) /\ Fetched(Extend({id}), TRUE)
    <3>1. /\ pulled' = Extend({id}) /\ pulledAt' = fetchedAt /\ pc' = "list"
          /\ pulledWhole' => NothingMoved
      BY <2>4 DEF Fetched
    <3>2. \A t : Steady(t, fetchedAt) => \E i \in 1 .. page : DeviceTypeIds[i] = t
      BY <2>1, <2>4 DEF Steady, Contains
    <3>3. pulledWhole' => \A t \in DOMAIN inventory : Steady(t, fetchedAt) =>
              t \in DOMAIN pulled' /\ pulled'[t] = inventory[t].edit
      BY <2>1, <2>3, <3>1, <3>2, FetchGains
    <3> QED
      BY <1>1, <1>2, <2>1, <3>1, <3>3 DEF NoneMissed
  <2>5. CASE /\ got' = Extend({id}) /\ page' = page + 1
             /\ UNCHANGED <<pc, fetchedAt, fetched>>
    <3>1. NothingMoved' => NothingMoved
      BY <1>1, <2>5 DEF NothingMoved
    <3>2. \A t : ~Ahead(t)' => \E i \in 1 .. page : DeviceTypeIds[i] = t
      BY <1>1, <1>4, <2>1, <2>5 DEF Ahead
    <3>3. NothingMoved => \A t \in DOMAIN inventory : Steady(t, fetchedAt) /\ ~Ahead(t)' =>
              t \in DOMAIN got' /\ got'[t] = inventory[t].edit
      BY <2>1, <2>3, <2>5, <3>2, FetchGains
    <3>4. UNCHANGED <<fetchedAt, pulled, pulledAt, pulledWhole, pc>>
      BY <2>5 DEF fetched
    <3> QED
      BY <1>1, <1>2, <2>1, <3>1, <3>3, <3>4 DEF NoneMissed, IInv
  <2> QED
    BY <2>1, <2>4, <2>5
<1>7. CASE Poll
  <2>1. /\ page' = 1 /\ UNCHANGED <<pulled, pulledAt, pulledWhole>>
        /\ pc' = IF mode = "off" THEN "list" ELSE "fetch"
    BY <1>7 DEF Poll, fetched
  <2>2. \A t \in DOMAIN inventory : Ahead(t)'
    <3> SUFFICES ASSUME NEW t \in DOMAIN inventory PROVE Ahead(t)'
      OBVIOUS
    <3>1. Rank(t)' > 0 /\ (1 - 1) * PageSize = 0
      BY <1>1, <1>3, <1>4, RankPositive
    <3>2. \A i \in 1 .. 1 - 1 : FALSE
      OBVIOUS
    <3> QED
      BY <2>1, <3>1, <3>2 DEF Ahead
  <2> QED
    BY <1>1, <1>2, <2>1, <2>2 DEF NoneMissed, IInv
<1>8. CASE PageUnreadable
  BY <1>1, <1>8 DEF PageUnreadable, Fetched, NoneMissed
<1>9. CASE \/ FetchFails \/ ListDir \/ DirUnreadable \/ ReadText \/ Stat
           \/ Publish \/ Unheard \/ WakeUp \/ Return
  <2>1. pc' # "fetch" /\ UNCHANGED <<pulled, pulledAt, pulledWhole>>
    BY <1>9 DEF FetchFails, ListDir, DirUnreadable, ReadText, Stat, Publish, Unheard, WakeUp, Return,
                fetched
  <2> QED
    BY <1>1, <1>2, <2>1 DEF NoneMissed, IInv
<1> QED
  BY <1>5, <1>6, <1>7, <1>8, <1>9 DEF Provider

\* There is one next file.
LEMMA NextUnique ==
    ASSUME TypeOK, NEW f, NEW g, IsNext(f), IsNext(g)
    PROVE  f = g
<1>1. f \in Files /\ g \in Files
  BY DEF IsNext, TypeOK
<1>2. ASSUME NEW x \in Files
      PROVE  /\ Place(FileOrder, x) \in DOMAIN FileOrder
             /\ FileOrder[Place(FileOrder, x)] = x
             /\ Place(FileOrder, x) \in Nat
  <2>1. \E i \in DOMAIN FileOrder : FileOrder[i] = x
    BY OrderAssumption
  <2>2. DOMAIN FileOrder \subseteq Nat
    BY OrderAssumption, LenProperties
  <2> QED
    BY <2>1, <2>2 DEF Place
<1>3. Place(FileOrder, f) <= Place(FileOrder, g) /\ Place(FileOrder, g) <= Place(FileOrder, f)
  BY DEF IsNext
<1>4. Place(FileOrder, f) = Place(FileOrder, g)
  BY <1>1, <1>2, <1>3
<1> QED
  BY <1>1, <1>2, <1>4

\* No step of the provider passes over a file that stays as it is.
LEMMA NoFileMissedInv ==
    ASSUME IInv, Provider
    PROVE  NoFileMissed'
<1>1. files' = files /\ TypeOK
  BY PresentInv DEF IInv
<1>2. CASE ListDir
  <2>1. text' = <<>> /\ listing' = DOMAIN files
    BY <1>1, <1>2 DEF ListDir, TypeOK
  <2> QED
    BY <1>1, <2>1 DEF NoFileMissed
<1>3. CASE DirUnreadable
  <2>1. listedAt' = -1 /\ \A f \in DOMAIN files : ~(files[f].edit <= -1)
    BY <1>1, <1>3, Numbers DEF DirUnreadable
  <2> QED
    BY <1>1, <2>1 DEF NoFileMissed
<1>4. CASE ReadText
  <2>1. PICK f \in listing :
            /\ IsNext(f)
            /\ IF f \in DOMAIN files /\ files[f].type # NoType
               THEN text' = <<files[f]>> /\ UNCHANGED listing
               ELSE listing' = listing \ {f} /\ UNCHANGED text
    BY <1>4 DEF ReadText
  <2>2. pc = "read" /\ text = <<>> /\ UNCHANGED <<pushed, listedAt>>
    BY <1>4 DEF ReadText
  <2>3. CASE f \in DOMAIN files /\ files[f].type # NoType
    <3>1. \A g : IsNext(g)' => g = f
      BY <1>1, <2>1, <2>3, NextUnique DEF IsNext
    <3>2. text'[1] = files[f] /\ listing' = listing
      BY <2>1, <2>3
    <3> QED
      BY <1>1, <2>2, <3>1, <3>2 DEF NoFileMissed, IInv
  <2>4. CASE ~(f \in DOMAIN files /\ files[f].type # NoType)
    BY <1>1, <2>1, <2>2, <2>4 DEF NoFileMissed, IInv
  <2> QED
    BY <2>3, <2>4
<1>5. CASE Stat
  <2>1. PICK f \in listing :
            /\ IsNext(f) /\ listing' = listing \ {f}
            /\ DOMAIN pushed' = DOMAIN pushed \cup {text[1].type}
    BY <1>5 DEF Stat, MapInsert
  <2>2. pc = "read" /\ text # <<>> /\ text' = <<>> /\ listedAt' = listedAt
    BY <1>5 DEF Stat
  <2> QED
    BY <1>1, <2>1, <2>2 DEF NoFileMissed, IInv
<1>6. CASE \/ Poll \/ FetchPage \/ PageUnreadable \/ FetchById \/ FetchFails
           \/ Publish \/ Unheard \/ WakeUp \/ Return
  <2>1. pc' # "read"
    BY <1>6 DEF Poll, FetchPage, PageUnreadable, FetchById, FetchFails, Fetched,
                Publish, Unheard, WakeUp, Return
  <2> QED
    BY <2>1 DEF NoFileMissed
<1> QED
  BY <1>2, <1>3, <1>4, <1>5, <1>6 DEF Provider

\* After a round the set published has the sources and change markers of what was
\* merged, whether it was published now or before.
LEMMA ServedInv ==
    ASSUME IInv, Provider
    PROVE  Marked' /\ FetchedIsServed' /\ PushWins'
<1>1. /\ UNCHANGED <<inventory, files, log, mode>>
      /\ TypeOK /\ Marked /\ NoneMissed /\ NoFileMissed
  BY PresentInv DEF IInv
<1>2. CASE Publish
  <2>1. /\ AllRead /\ UNCHANGED <<pulled, pulledAt, pulledWhole, listedAt>>
        /\ published' = published \/ published' = Merged
        /\ revision(Merged) = revision(published')
    BY <1>2 DEF Publish, fetched
  <2>2. /\ DOMAIN revision(Merged) = DOMAIN pulled \cup DOMAIN pushed
        /\ DOMAIN revision(published') = DOMAIN published'
        /\ \A t \in DOMAIN Merged :
              revision(Merged)[t] = <<Merged[t].origin, Merged[t].fingerprint>>
        /\ \A t \in DOMAIN published' :
              revision(published')[t] = <<published'[t].origin, published'[t].fingerprint>>
    BY DEF revision, Merged
  <2>3. DOMAIN published' = DOMAIN pulled \cup DOMAIN pushed /\ DOMAIN Merged = DOMAIN published'
    BY <2>1, <2>2 DEF Merged
  <2>4. \A t \in DOMAIN published' :
            /\ published'[t].origin = Merged[t].origin
            /\ published'[t].fingerprint = Merged[t].fingerprint
    BY <2>1, <2>2, <2>3
  <2>5. \A t \in DOMAIN Merged :
            IF t \in DOMAIN pushed THEN Merged[t].origin = "push"
            ELSE /\ Merged[t].origin = "pull" /\ Merged[t].edit = pulled[t]
                 /\ Merged[t].fingerprint = pulled[t]
    BY DEF Merged
  <2>6. Marked'
    BY <1>1, <2>1, <2>5 DEF Marked
  <2>7. FetchedIsServed'
    <3> SUFFICES ASSUME pulledWhole, NEW t \in DOMAIN inventory, Steady(t, pulledAt)
                 PROVE  /\ t \in DOMAIN published'
                        /\ published'[t].origin = "pull" => published'[t].edit = inventory[t].edit
      BY <1>1, <2>1 DEF FetchedIsServed, Steady
    <3>1. t \in DOMAIN pulled /\ pulled[t] = inventory[t].edit /\ t \in DOMAIN published'
      BY <1>1, <2>3 DEF NoneMissed
    <3>2. published'[t].origin = "pull" => published'[t].fingerprint = pulled[t]
      BY <2>3, <2>4, <2>5, <3>1
    <3> QED
      BY <2>6, <3>1, <3>2 DEF Marked
  <2>8. PushWins'
    <3> SUFFICES ASSUME NEW f \in DOMAIN files, files[f].type # NoType, files[f].edit <= listedAt
                 PROVE  /\ files[f].type \in DOMAIN published'
                        /\ published'[files[f].type].origin = "push"
      BY <1>1, <2>1 DEF PushWins
    <3>1. files[f].type \in DOMAIN pushed
      BY <1>1, <2>1 DEF NoFileMissed, AllRead
    <3> QED
      BY <2>3, <2>4, <2>5, <3>1
  <2> QED
    BY <2>6, <2>7, <2>8
<1>3. CASE \/ Poll \/ FetchPage \/ PageUnreadable \/ FetchById \/ FetchFails
           \/ ListDir \/ DirUnreadable \/ ReadText \/ Stat \/ Unheard \/ WakeUp \/ Return
  <2>1. pc' # "asleep" /\ published' = published
    BY <1>3 DEF Poll, FetchPage, PageUnreadable, FetchById, FetchFails, Fetched, ListDir,
                DirUnreadable, ReadText, Stat, Unheard, WakeUp, Return
  <2> QED
    BY <1>1, <2>1 DEF Marked, FetchedIsServed, PushWins
<1> QED
  BY <1>2, <1>3 DEF Provider

-----------------------------------------------------------------------------
(* Theorems.                                                               *)

\* Every step keeps the inductive invariant.
LEMMA NextInv == IInv /\ [Next]_vars => IInv'
<1> SUFFICES ASSUME IInv, [Next]_vars PROVE IInv'
  OBVIOUS
<1>1. TypeOK'
  BY TypeInv DEF IInv
<1>2. CASE Provider
  BY <1>1, <1>2, PresentInv, GatheredInv, NoneMissedInv, NoFileMissedInv, ServedInv DEF IInv
<1>3. CASE \/ \E t \in Types : \E ok \in BOOLEAN : EditObject(t, ok)
           \/ \E t \in Types : DeleteObject(t)
           \/ \E f \in Files : \E t \in Types \cup {NoType} : WriteFile(f, t)
           \/ \E f \in Files : RemoveFile(f)
  BY <1>1, <1>3, WorldInv
<1>4. CASE Cancel \/ ConsumersEnd \/ UNCHANGED vars
  <2>1. UNCHANGED <<inventory, files, log, mode, pc, page, got, pulled, listing, text, pushed,
                    published, fetchedAt, pulledAt, pulledWhole, listedAt>>
    BY <1>4 DEF Cancel, ConsumersEnd, sources, fetching, fetched, reading, vars
  <2>2. Newest' /\ Past' /\ Gathered'
    BY <2>1 DEF IInv, Newest, Past, Gathered, Found, HeldAt, Edits
  <2>3. NoneMissed' /\ NoFileMissed'
    <3>1. /\ \A t, since : Steady(t, since)' <=> Steady(t, since)
          /\ \A t : Ahead(t)' <=> Ahead(t)
          /\ NothingMoved' <=> NothingMoved
      BY <2>1 DEF Steady, Ahead, Rank, NothingMoved, Edits
    <3> QED
      BY <2>1, <3>1 DEF IInv, NoneMissed, NoFileMissed, IsNext
  <2>4. Marked' /\ FetchedIsServed' /\ PushWins'
    BY <2>1 DEF IInv, Marked, FetchedIsServed, PushWins
  <2> QED
    BY <1>1, <2>2, <2>3, <2>4 DEF IInv
<1> QED
  BY <1>2, <1>3, <1>4 DEF Next

\* What the provider has gathered was there when it says, in every reachable state.
THEOREM Inductive == Spec => []IInv
BY InitInv, NextInv, PTL DEF Spec

\* The types hold, and pages and edits stay within their limits.
THEOREM TypeCorrect == Spec => []TypeOK
<1>1. IInv => TypeOK
  BY DEF IInv
<1> QED
  BY <1>1, Inductive, PTL

\* Device types already fetched survive an outage.
THEOREM OutageSurvived == Spec => []FetchedIsServed
<1>1. IInv => FetchedIsServed
  BY DEF IInv
<1> QED
  BY <1>1, Inductive, PTL

\* A file on the device overrides the inventory.
THEOREM FilesOverride == Spec => []PushWins
<1>1. IInv => PushWins
  BY DEF IInv
<1> QED
  BY <1>1, Inductive, PTL

\* What is published was in the inventory at some time of its fetch, or on disk at
\* some time of the directory's reading.
THEOREM PublishedWasThere == Spec => NothingStale
<1>1. IInv /\ [Next]_vars =>
          [published' # published =>
              \A t \in DOMAIN published' :
                  LET new == published'[t]
                  IN  IF new.origin = "pull" THEN HeldAt(t, new.edit, pulledAt)
                      ELSE \E f \in Files : HeldAt(f, new.edit, listedAt)]_vars
  <2> SUFFICES ASSUME IInv, [Next]_vars, published' # published, NEW t \in DOMAIN published'
               PROVE  IF published'[t].origin = "pull"
                      THEN HeldAt(t, published'[t].edit, pulledAt)
                      ELSE \E f \in Files : HeldAt(f, published'[t].edit, listedAt)
    OBVIOUS
  <2>1. published' = Merged
    BY DEF Next, Provider, Poll, FetchPage, PageUnreadable, FetchById, FetchFails, ListDir,
           DirUnreadable, ReadText, Stat, Publish, Unheard, WakeUp, Return, EditObject, DeleteObject,
           WriteFile, RemoveFile, Cancel, ConsumersEnd, provider, vars
  <2>2. IF t \in DOMAIN pushed
        THEN published'[t].origin = "push" /\ published'[t].edit = pushed[t].edit
        ELSE t \in DOMAIN pulled /\ published'[t].origin = "pull" /\ published'[t].edit = pulled[t]
    BY <2>1 DEF Merged
  <2> QED
    BY <2>2 DEF IInv, Gathered, Found
<1> QED
  BY <1>1, Inductive, PTL DEF Spec, NothingStale

=============================================================================
