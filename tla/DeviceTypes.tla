----------------------------- MODULE DeviceTypes ----------------------------
(***************************************************************************)
(* crates/gateway/src/device_types.rs with crates/mapping/src/source.rs:   *)
(* the provider that fetches device types from Cumulocity, reads the       *)
(* mapping files on the device, merges both and publishes what changed.    *)
(*                                                                         *)
(* Users edit the inventory between any two requests, and configuration    *)
(* management writes files between any two system calls: the directory is  *)
(* read without a lock, and a file is first read and then asked for its    *)
(* size and time.                                                          *)
(*                                                                         *)
(* Edits are numbered, and the number of the edit that wrote it stands for *)
(* both the content of a device type and its change marker: `lastUpdated`  *)
(* of a managed object, size and time of a file.  Two edits never share a  *)
(* marker.  Waiting times are left out.                                    *)
(***************************************************************************)
EXTENDS Maps, Sequences, SequencesExt

CONSTANTS
    Types,          \* device type ids
    Files,          \* names of mapping files
    NoType,         \* what a half-written file holds
    TypeOrder,      \* the order in which the inventory lists objects
    FileOrder,      \* the order in which the directory lists files
    Tenant,         \* device types in the inventory at the start
    Shipped,        \* mapping files that are there at the start: file -> type
    DeviceTypeIds,  \* proxy.device_type_ids, in a configuration that has some
    PageSize,       \* PAGE_SIZE
    MaxPages,       \* MAX_PAGES
    MaxEdits,       \* bound on edits
    MaxFaults       \* bound on failed requests, unreadable pages and directories

ASSUME NoTypeAssumption == NoType \notin Types

\* The history tells device types from files by their names.
ASSUME NameAssumption == Types \cap Files = {}

ASSUME OrderAssumption ==
    /\ TypeOrder \in Seq(Types) /\ IsInjective(TypeOrder)
    /\ FileOrder \in Seq(Files) /\ IsInjective(FileOrder)
    /\ Files = {FileOrder[i] : i \in DOMAIN FileOrder}
    /\ Types = {TypeOrder[i] : i \in DOMAIN TypeOrder}

ASSUME StartAssumption == Tenant \subseteq Types /\ IsMap(Shipped, Files, Types)

ASSUME IdsAssumption == DeviceTypeIds \in Seq(Types) /\ DeviceTypeIds # <<>>

ASSUME PageAssumption == PageSize \in Nat \ {0} /\ MaxPages \in Nat \ {0}

ASSUME BoundAssumption == MaxEdits \in Nat /\ MaxFaults \in Nat

VARIABLES
    inventory,      \* type -> its managed object: the edit that wrote it, and
                    \* whether the object can be read as a device type
    files,          \* file -> the edit that wrote it, the type it holds
    log,            \* history: what each edit touched, and whether it removed it
    faults,         \* requests, pages and directory reads that failed
    mode,           \* the configuration: proxy "off", all "pages", or "ids"
    cancelled,      \* the process-wide token
    consumers,      \* the supervisor or a server task still holds a receiver
    pc,             \* where the provider is
    page,           \* the page, or the configured id, to request next
    got,            \* what this fetch has put together: type -> edit
    pulled,         \* what the last good fetch did
    listing,        \* files of the directory still to read
    text,           \* the file read whose metadata is not yet, if any
    pushed,         \* what this read of the directory has put together
    published,      \* the watch channel's value
    fetchedAt,      \* history: edits made when this fetch began
    pulledAt,       \* history: edits made when the last good fetch began
    pulledWhole,    \* history: nothing moved or was cut off during that fetch
    listedAt        \* history: edits made when the directory was listed

sources == <<inventory, files, log>>
signals == <<mode, cancelled, consumers>>
fetching == <<page, got, fetchedAt>>
fetched == <<pulled, pulledAt, pulledWhole>>
reading == <<listing, text, pushed>>
vars == <<inventory, files, log, faults, mode, cancelled, consumers, pc, page, got, pulled,
          listing, text, pushed, published, fetchedAt, pulledAt, pulledWhole, listedAt>>

Edits == Len(log)

\* The edit that changes something now.
ThisEdit == Edits + 1

\* Where something comes in an order.
Place(order, x) == CHOOSE i \in DOMAIN order : order[i] = x

\* How far down the list of a query an object is.
Rank(t) ==
    Cardinality({u \in DOMAIN inventory : Place(TypeOrder, u) <= Place(TypeOrder, t)})

\* The next file of the directory to be read.
IsNext(f) == f \in listing /\ \A g \in listing : Place(FileOrder, f) <= Place(FileOrder, g)

Init ==
    /\ inventory = [t \in Tenant |-> [edit |-> 0, ok |-> TRUE]]
    /\ files = [f \in DOMAIN Shipped |-> [edit |-> 0, type |-> Shipped[f]]]
    /\ log = <<>>
    /\ faults = 0
    /\ mode \in {"off", "pages", "ids"}
    /\ cancelled = FALSE
    /\ consumers = TRUE
    /\ pc = "poll"
    /\ page = 1
    /\ got = EmptyMap
    /\ pulled = EmptyMap
    /\ listing = {}
    /\ text = <<>>
    /\ pushed = EmptyMap
    /\ published = EmptyMap
    /\ fetchedAt = 0
    /\ pulledAt = 0
    /\ pulledWhole = FALSE
    /\ listedAt = -1

-----------------------------------------------------------------------------
(* Fetching.                                                               *)

\* A round begins, with a fetch if there is a proxy.
Poll ==
    /\ pc = "poll"
    /\ pc' = IF mode = "off" THEN "list" ELSE "fetch"
    /\ page' = 1
    /\ got' = EmptyMap
    /\ fetchedAt' = Edits
    /\ UNCHANGED <<sources, faults, signals, fetched, reading, published, listedAt>>

\* What a response adds: each object it holds, except those that cannot be read.
Extend(objects) ==
    LET readable == {t \in objects : inventory[t].ok}
    IN  [t \in DOMAIN got \cup readable |->
            IF t \in readable THEN inventory[t].edit ELSE got[t]]

\* No object was deleted since this fetch began, so none moved to another page.
NothingMoved == \A i \in fetchedAt + 1 .. Edits : ~log[i].removed \/ log[i].at \notin Types

\* Mistake: what was fetched is added to what was known.
Fetched_Accumulates(all, whole) ==
    /\ pulled' = [t \in DOMAIN all \cup DOMAIN pulled |->
                    IF t \in DOMAIN all THEN all[t] ELSE pulled[t]]
    /\ pulledAt' = fetchedAt
    /\ pulledWhole' = (whole /\ NothingMoved)
    /\ pc' = "list"
    /\ UNCHANGED fetching

\* The fetch ends well: its result replaces the last one.
Fetched(all, whole) ==
    /\ pulled' = all
    /\ pulledAt' = fetchedAt
    /\ pulledWhole' = (whole /\ NothingMoved)
    /\ pc' = "list"
    /\ UNCHANGED fetching

\* One page is read, the last one or not.
FetchPage ==
    LET from == (page - 1) * PageSize
        items == {t \in DOMAIN inventory : from < Rank(t) /\ Rank(t) <= from + PageSize}
        last == from + PageSize >= Cardinality(DOMAIN inventory)
    IN  /\ pc = "fetch"
        /\ mode = "pages"
        /\ IF last \/ page = MaxPages
           THEN Fetched(Extend(items), last)
           ELSE /\ got' = Extend(items)
                /\ page' = page + 1
                /\ UNCHANGED <<pc, fetchedAt, fetched>>
        /\ UNCHANGED <<sources, faults, signals, reading, published, listedAt>>

\* A response that is no page ends the fetch with what it has, and that is good.
PageUnreadable ==
    /\ pc = "fetch"
    /\ mode = "pages"
    /\ faults < MaxFaults
    /\ faults' = faults + 1
    /\ Fetched(got, FALSE)
    /\ UNCHANGED <<sources, signals, reading, published, listedAt>>

\* One configured id is read.
FetchById ==
    /\ pc = "fetch"
    /\ mode = "ids"
    /\ DeviceTypeIds[page] \in DOMAIN inventory
    /\ IF page = Len(DeviceTypeIds)
       THEN Fetched(Extend({DeviceTypeIds[page]}), TRUE)
       ELSE /\ got' = Extend({DeviceTypeIds[page]})
            /\ page' = page + 1
            /\ UNCHANGED <<pc, fetchedAt, fetched>>
    /\ UNCHANGED <<sources, faults, signals, reading, published, listedAt>>

\* Mistake: a failed fetch leaves nothing.
FetchFails_Forgets ==
    /\ pc = "fetch"
    /\ \/ faults < MaxFaults /\ faults' = faults + 1
       \/ /\ mode = "ids"
          /\ DeviceTypeIds[page] \notin DOMAIN inventory
          /\ UNCHANGED faults
    /\ pulled' = EmptyMap
    /\ pc' = "list"
    /\ UNCHANGED <<sources, signals, fetching, pulledAt, pulledWhole, reading, published, listedAt>>

\* A request fails, one for a configured id that does not exist among these:
\* what an earlier fetch found is kept.
FetchFails ==
    /\ pc = "fetch"
    /\ \/ faults < MaxFaults /\ faults' = faults + 1
       \/ /\ mode = "ids"
          /\ DeviceTypeIds[page] \notin DOMAIN inventory
          /\ UNCHANGED faults
    /\ pc' = "list"
    /\ UNCHANGED <<sources, signals, fetching, fetched, reading, published, listedAt>>

-----------------------------------------------------------------------------
(* The directory.                                                          *)

\* In one go, though `read_dir` is lazy: a file that comes while the others are
\* read may be listed, and is here at the next poll.
ListDir ==
    /\ pc = "list"
    /\ pc' = "read"
    /\ listing' = DOMAIN files
    /\ pushed' = EmptyMap
    /\ listedAt' = Edits
    /\ UNCHANGED <<sources, faults, signals, fetching, fetched, text, published>>

\* Any error counts as an empty directory, and one of an entry leaves that out.
DirUnreadable ==
    /\ pc = "list"
    /\ faults < MaxFaults
    /\ faults' = faults + 1
    /\ pc' = "read"
    /\ listing' \in SUBSET DOMAIN files
    /\ pushed' = EmptyMap
    /\ listedAt' = -1
    /\ UNCHANGED <<sources, signals, fetching, fetched, text, published>>

\* `read_to_string`: a file that is gone, or does not parse, is passed over.
ReadText ==
    /\ pc = "read"
    /\ text = <<>>
    /\ \E f \in listing :
          /\ IsNext(f)
          /\ IF f \in DOMAIN files /\ files[f].type # NoType
             THEN text' = <<files[f]>> /\ UNCHANGED listing
             ELSE listing' = listing \ {f} /\ UNCHANGED text
    /\ UNCHANGED <<sources, faults, signals, pc, fetching, fetched, pushed, published, listedAt>>

\* `metadata`: the change marker, empty if the file is gone by now.
Stat ==
    LET read == text[1]
        fingerprint(f) == IF f \in DOMAIN files THEN files[f].edit ELSE -1
    IN  /\ pc = "read"
        /\ text # <<>>
        /\ \E f \in listing :
              /\ IsNext(f)
              /\ pushed' = MapInsert(pushed, read.type,
                                     [edit |-> read.edit, fingerprint |-> fingerprint(f)])
              /\ listing' = listing \ {f}
        /\ text' = <<>>
        /\ UNCHANGED <<sources, faults, signals, pc, fetching, fetched, published, listedAt>>

-----------------------------------------------------------------------------
(* Merging and publishing.                                                 *)

\* Mistake: the inventory wins.
Merged_PullWins ==
    [t \in DOMAIN pulled \cup DOMAIN pushed |->
        IF t \in DOMAIN pulled
        THEN [origin |-> "pull", edit |-> pulled[t], fingerprint |-> pulled[t]]
        ELSE [origin |-> "push", edit |-> pushed[t].edit,
              fingerprint |-> pushed[t].fingerprint]]

\* A pushed type wins over a pulled one, and a later file over an earlier one.
Merged ==
    [t \in DOMAIN pulled \cup DOMAIN pushed |->
        IF t \in DOMAIN pushed
        THEN [origin |-> "push", edit |-> pushed[t].edit,
              fingerprint |-> pushed[t].fingerprint]
        ELSE [origin |-> "pull", edit |-> pulled[t], fingerprint |-> pulled[t]]]

\* Mistake: only pulled types are compared by their change marker.
revision_IgnoresFileTimes(loaded) ==
    [t \in DOMAIN loaded |-> IF loaded[t].origin = "push" THEN <<"push">>
                             ELSE <<"pull", loaded[t].fingerprint>>]

\* Where each type is from and its change marker.
revision(loaded) == [t \in DOMAIN loaded |-> <<loaded[t].origin, loaded[t].fingerprint>>]

AllRead == pc = "read" /\ listing = {}

\* The revision the provider keeps is that of the last set it published.
Publish ==
    /\ AllRead
    /\ IF revision(Merged) = revision(published)
       THEN UNCHANGED published
       ELSE consumers /\ published' = Merged
    /\ pc' = "asleep"
    /\ pushed' = EmptyMap
    /\ UNCHANGED <<sources, faults, signals, fetching, fetched, listing, text, listedAt>>

\* `send` fails: nobody is left to hear of it.
Unheard ==
    /\ AllRead
    /\ revision(Merged) # revision(published)
    /\ ~consumers
    /\ pc' = "returned"
    /\ UNCHANGED <<sources, faults, signals, fetching, fetched, reading, published, listedAt>>

WakeUp ==
    /\ pc = "asleep"
    /\ pc' = "poll"
    /\ UNCHANGED <<sources, faults, signals, fetching, fetched, reading, published, listedAt>>

\* Mistake: the sleep is not raced against the token.
Return_Sleeps ==
    /\ pc = "asleep"
    /\ cancelled
    /\ FALSE
    /\ UNCHANGED vars

Return ==
    /\ pc = "asleep"
    /\ cancelled
    /\ pc' = "returned"
    /\ UNCHANGED <<sources, faults, signals, fetching, fetched, reading, published, listedAt>>

-----------------------------------------------------------------------------
(* Users, configuration management and the rest of the process.            *)

provider == <<faults, signals, pc, fetching, fetched, reading, published, listedAt>>

Edited(x, removed) ==
    /\ Edits < MaxEdits
    /\ log' = Append(log, [at |-> x, removed |-> removed])

\* A device type is created or changed, perhaps to what the gateway cannot read.
EditObject(t, ok) ==
    /\ Edited(t, FALSE)
    /\ inventory' = MapInsert(inventory, t, [edit |-> ThisEdit, ok |-> ok])
    /\ UNCHANGED <<files, provider>>

DeleteObject(t) ==
    /\ t \in DOMAIN inventory
    /\ Edited(t, TRUE)
    /\ inventory' = MapRemove(inventory, t)
    /\ UNCHANGED <<files, provider>>

\* A file is replaced, completed, or (NoType) truncated to be written in place.
WriteFile(f, t) ==
    /\ Edited(f, FALSE)
    /\ files' = MapInsert(files, f, [edit |-> ThisEdit, type |-> t])
    /\ UNCHANGED <<inventory, provider>>

RemoveFile(f) ==
    /\ f \in DOMAIN files
    /\ Edited(f, TRUE)
    /\ files' = MapRemove(files, f)
    /\ UNCHANGED <<inventory, provider>>

Cancel ==
    /\ ~cancelled
    /\ cancelled' = TRUE
    /\ UNCHANGED <<sources, faults, mode, consumers, pc, fetching, fetched, reading, published,
                   listedAt>>

\* The supervisor and the server tasks return once cancelled.
ConsumersEnd ==
    /\ cancelled
    /\ consumers
    /\ consumers' = FALSE
    /\ UNCHANGED <<sources, faults, mode, cancelled, pc, fetching, fetched, reading, published,
                   listedAt>>

Provider ==
    \/ Poll
    \/ FetchPage
    \/ PageUnreadable
    \/ FetchById
    \/ FetchFails
    \/ ListDir
    \/ DirUnreadable
    \/ ReadText
    \/ Stat
    \/ Publish
    \/ Unheard
    \/ WakeUp
    \/ Return

Next ==
    \/ Provider
    \/ \E t \in Types : \E ok \in BOOLEAN : EditObject(t, ok)
    \/ \E t \in Types : DeleteObject(t)
    \/ \E f \in Files : \E t \in Types \cup {NoType} : WriteFile(f, t)
    \/ \E f \in Files : RemoveFile(f)
    \/ Cancel
    \/ ConsumersEnd

Spec == Init /\ [][Next]_vars

\* Every request answers or times out and every sleep ends; a `select!` whose
\* cancelled branch is ready every time takes it in the end.
FairSpec == Spec /\ WF_vars(Provider) /\ SF_vars(Return)

-----------------------------------------------------------------------------
Loaded == [origin : {"pull", "push"}, edit : 0 .. MaxEdits, fingerprint : -1 .. MaxEdits]

TypeOK ==
    /\ IsMap(inventory, Types, [edit : 0 .. MaxEdits, ok : BOOLEAN])
    /\ IsMap(files, Files, [edit : 0 .. MaxEdits, type : Types \cup {NoType}])
    /\ log \in Seq([at : Types \cup Files, removed : BOOLEAN])
    /\ Edits <= MaxEdits
    /\ faults \in 0 .. MaxFaults
    /\ mode \in {"off", "pages", "ids"}
    /\ cancelled \in BOOLEAN
    /\ consumers \in BOOLEAN
    /\ pc \in {"poll", "fetch", "list", "read", "asleep", "returned"}
    /\ page \in Nat \ {0}
    /\ mode = "pages" => page <= MaxPages
    /\ mode = "ids" => page <= Len(DeviceTypeIds)
    /\ IsMap(got, Types, 0 .. MaxEdits)
    /\ IsMap(pulled, Types, 0 .. MaxEdits)
    /\ listing \subseteq Files
    /\ text \in Seq([edit : 0 .. MaxEdits, type : Types])
    /\ Len(text) <= 1
    /\ text # <<>> => pc = "read" /\ listing # {}
    /\ IsMap(pushed, Types, [edit : 0 .. MaxEdits, fingerprint : -1 .. MaxEdits])
    /\ IsMap(published, Types, Loaded)
    /\ fetchedAt \in 0 .. MaxEdits
    /\ pulledAt \in 0 .. MaxEdits
    /\ pulledWhole \in BOOLEAN
    /\ listedAt \in -1 .. MaxEdits

\* What edit e wrote to x was still there after the first `then` edits.
HeldAt(x, e, then) ==
    /\ e > 0 => log[e].at = x
    /\ \A i \in e + 1 .. then : log[i].at # x

\* What a poll publishes was in Cumulocity at some time of the fetch it is from,
\* or on disk at some time of the directory read: a device type deleted or
\* replaced before that never comes back, whatever pages and files it moved
\* between.
NothingStale ==
    [][published' # published =>
        \A t \in DOMAIN published' :
            LET new == published'[t]
            IN  IF new.origin = "pull" THEN HeldAt(t, new.edit, pulledAt)
                ELSE \E f \in Files : HeldAt(f, new.edit, listedAt)]_vars

\* "Device types already fetched survive a cloud outage": an object that has not
\* changed since before the last good fetch is served between polls, by its own
\* content unless a file replaces it, however many fetches failed since, unless
\* that fetch was cut short or an object was deleted during it.
FetchedIsServed ==
    pc = "asleep" /\ pulledWhole =>
        \A t \in DOMAIN inventory :
            /\ inventory[t].ok
            /\ inventory[t].edit <= pulledAt
            /\ mode = "ids" => Contains(DeviceTypeIds, t)
            => /\ t \in DOMAIN published
               /\ published[t].origin = "pull" => published[t].edit = inventory[t].edit

\* "A file on the device is a deliberate local override": between polls every
\* file unchanged since the directory was last listed has its type served from
\* the directory.
PushWins ==
    pc = "asleep" =>
        \A f \in DOMAIN files :
            files[f].type # NoType /\ files[f].edit <= listedAt
            => /\ files[f].type \in DOMAIN published
               /\ published[files[f].type].origin = "push"

\* Types the fetch should bring: those that can be read and are configured.
Fetchable ==
    {t \in DOMAIN inventory :
        /\ inventory[t].ok
        /\ mode # "off"
        /\ mode = "ids" => Contains(DeviceTypeIds, t)}

\* The last file, in directory order, that holds a type.
FileOf(t) == SelectLastInSeq(FileOrder, LAMBDA f : f \in DOMAIN files /\ files[f].type = t)

Wanted ==
    [t \in Fetchable \cup ({files[f].type : f \in DOMAIN files} \ {NoType}) |->
        IF FileOf(t) > 0 THEN <<"push", files[FileOrder[FileOf(t)]].edit>>
        ELSE <<"pull", inventory[t].edit>>]

Served == [t \in DOMAIN published |-> <<published[t].origin, published[t].fingerprint>>]

\* Once users leave inventory and directory alone the served types are theirs, by
\* source and change marker, when the pages are within the limit and every
\* configured id exists.
Follows ==
    <>[](\/ cancelled
         \/ mode = "pages" /\ Cardinality(DOMAIN inventory) > PageSize * MaxPages
         \/ mode = "ids" /\ \E i \in DOMAIN DeviceTypeIds : DeviceTypeIds[i] \notin DOMAIN inventory
         \/ Served = Wanted)

\* Once cancelled the provider returns, in whatever it is doing.
EndsWhenTold == cancelled ~> pc = "returned"

-----------------------------------------------------------------------------
(* Why nothing stale is published and nothing is missed.                   *)

\* An edit that is in the log, and still held after the first `then` of them.
Found(x, e, then) == e <= Edits /\ HeldAt(x, e, then)

\* Every object and every file is marked with the last edit that touched it.
Newest ==
    /\ \A t \in DOMAIN inventory : Found(t, inventory[t].edit, Edits)
    /\ \A f \in DOMAIN files : Found(f, files[f].edit, Edits)

\* The rounds' times are in the past.
Past == fetchedAt <= Edits /\ pulledAt <= Edits /\ listedAt <= Edits

\* What a round puts together was there when it began, or came later.
Gathered ==
    /\ \A t \in DOMAIN got : Found(t, got[t], fetchedAt)
    /\ \A t \in DOMAIN pulled : Found(t, pulled[t], pulledAt)
    /\ \A i \in DOMAIN text : \E f \in Files : Found(f, text[i].edit, listedAt)
    /\ \A t \in DOMAIN pushed : \E f \in Files : Found(f, pushed[t].edit, listedAt)

\* An object that has not changed since, and may be fetched.
Steady(t, since) ==
    /\ inventory[t].ok
    /\ inventory[t].edit <= since
    /\ mode = "ids" => Contains(DeviceTypeIds, t)

\* This fetch has yet to come to an object.
Ahead(t) ==
    IF mode = "pages" THEN Rank(t) > (page - 1) * PageSize
    ELSE \A i \in 1 .. page - 1 : DeviceTypeIds[i] # t

\* A fetch misses no object that stays as and where it is.
NoneMissed ==
    /\ pc = "fetch" /\ NothingMoved =>
          \A t \in DOMAIN inventory :
              Steady(t, fetchedAt) /\ ~Ahead(t) => t \in DOMAIN got /\ got[t] = inventory[t].edit
    /\ pulledWhole =>
          \A t \in DOMAIN inventory :
              Steady(t, pulledAt) => t \in DOMAIN pulled /\ pulled[t] = inventory[t].edit
    /\ mode = "off" => pc # "fetch" /\ ~pulledWhole

\* Nor does a read of the directory miss a file, and what it read of the next one
\* is what that still holds.
NoFileMissed ==
    pc = "read" =>
        \A f \in DOMAIN files :
            files[f].type # NoType /\ files[f].edit <= listedAt =>
                /\ f \in listing \/ files[f].type \in DOMAIN pushed
                /\ text # <<>> /\ IsNext(f) => text[1] = files[f]

\* A pulled type's change marker tells its content.
Marked == \A t \in DOMAIN published :
    published[t].origin = "pull" => published[t].edit = published[t].fingerprint

IInv ==
    /\ TypeOK
    /\ Newest
    /\ Past
    /\ Gathered
    /\ NoneMissed
    /\ NoFileMissed
    /\ Marked
    /\ FetchedIsServed
    /\ PushWins

=============================================================================
