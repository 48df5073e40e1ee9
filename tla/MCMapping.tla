------------------------------ MODULE MCMapping -----------------------------
(* Instances of Mapping for TLC. *)
EXTENDS Mapping

\* The URI of one namespace begins with that of another.
uriA == <<"urn", "a">>
uriB == <<"urn", "a", "b">>
uriC == <<"http", "c">>

\* The same server after it was configured anew, and one that lacks a namespace.
MCTables == {<<UaUri, uriA, uriB>>, <<UaUri, uriB, uriA>>, <<UaUri, uriA>>}

MCNumeral == [part \in {"1", "7"} |-> IF part = "1" THEN 1 ELSE 7]

Segment(uri, name) == [uri |-> uri, name |-> name]
Node(uri, id) == [uri |-> uri, index |-> 0, id |-> id]
Target(uri, id, whole) == [uri |-> uri, id |-> id, whole |-> whole]

ax == Segment(uriA, <<"x">>)
byz == Segment(uriB, <<"y", "z">>)
plain == Segment(<<>>, <<"plain">>)
first == Segment(<<"1">>, <<"x">>)
seventh == Segment(<<"7">>, <<"x">>)
regex == Segment(<<>>, <<"regex(.*)">>)
cx == Segment(uriC, <<"x">>)
\* Reads as x of uriB where there is one.
abx == Segment(uriA, <<"b", "x">>)

Root == [uri |-> UaUri, id |-> "root"]
Device == [uri |-> uriB, id |-> "device"]

\* A path to one node, one to several, and one to a node in a namespace that the
\* server does not number.
MCSpace ==
    [from \in {[root |-> Root, path |-> <<ax>>], [root |-> Device, path |-> <<ax>>],
               [root |-> Root, path |-> <<ax, byz>>],
               [root |-> Root, path |-> <<Segment(uriB, <<"x">>)>>],
               [root |-> Root, path |-> <<Segment(UaUri, <<"plain">>)>>]} |->
        CASE from.root = Device -> <<Target(uriA, "n3", TRUE)>>
          [] Len(from.path) = 2 -> <<Target(uriB, "n1", FALSE), Target(uriA, "n2", TRUE),
                                     Target(uriB, "n1", TRUE)>>
          [] from.path[1].uri = UaUri -> <<Target(uriC, "n4", TRUE), Target(uriA, "n2", TRUE)>>
          [] OTHER -> <<Target(uriA, "n1", TRUE)>>]

Entry(path, ref, creations) == [path |-> path, ref |-> ref, creations |-> creations]

MCEntries ==
    {Entry(<<ax>>, NoText, {"measurement"}),
     Entry(<<ax, byz>>, NoText, {"measurement", "alarm"}),
     Entry(<<ax>>, Node(uriA, "n1"), {"event", "alarm"}),
     Entry(<<>>, Node(uriB, "n1"), {"event"}),
     Entry(<<first>>, NoText, {"measurement"}),
     Entry(<<plain>>, NoText, {"measurement"}),
     Entry(<<regex>>, Node(uriA, "n1"), {"measurement"}),
     Entry(<<>>, NoText, {"measurement"}),
     Entry(<<ax>>, NoText, {}),
     Entry(<<ax>>, Node(uriC, "n9"), {"measurement"}),
     Entry(<<ax>>, Node(uriA, NoId), {"measurement"}),
     Entry(<<abx>>, NoText, {"measurement"}),
     Entry(<<cx>>, NoText, {"measurement"}),
     Entry(<<seventh>>, NoText, {"event"}),
     Entry(<<ax>>, [uri |-> <<>>, index |-> 9, id |-> "n1"], {"event"})}

MCValidParameters == {"slow", "fast"}

Subscribed(params) == [kind |-> "subscription", params |-> params]
Cyclic(rate, maxAge) == [kind |-> "cyclic", rate |-> rate, maxAge |-> maxAge]
None == [kind |-> "none"]

MCDefaults == {Subscribed("slow"), Subscribed("bad"), Cyclic(0, -1)}

\* None; a path in two spellings, the second of which would be useful; another
\* schedule for the path of a node that is named too.
MCOverrides ==
    {<<>>,
     <<[path |-> <<ax>>, type |-> None], [path |-> <<ax>>, type |-> Cyclic(1000, 0)]>>,
     <<[path |-> <<>>, type |-> Subscribed("fast")], [path |-> <<first>>, type |-> Cyclic(1000, 0)]>>}

DeviceType(id, mappings, default, overrides) ==
    [id |-> id, enabled |-> TRUE, root |-> NoText, serverIds |-> {}, nodeIds |-> {},
     mappings |-> mappings, default |-> default, overrides |-> overrides]

\* Any two entries.
Varied ==
    {DeviceType("t1", mappings, default, overrides) :
        mappings \in {<<e1, e2>> : e1 \in MCEntries, e2 \in MCEntries},
        default \in MCDefaults, overrides \in MCOverrides}

\* One entry, and every constraint.
Constrained ==
    {[DeviceType("t1", <<Entry(<<ax>>, NoText, {"measurement"})>>, Cyclic(0, -1), <<>>)
        EXCEPT !.enabled = e, !.root = r, !.serverIds = s, !.nodeIds = n] :
            e \in BOOLEAN,
            r \in {NoText, Node(uriB, "device"), Node(uriC, "device"), Node(uriA, NoId)},
            s \in {{}, {"me"}, {"other"}, {"third"}},
            n \in {{}, {Node(uriB, "device")}, {Node(uriA, "device"), Node(uriC, "device")}}}

Other == DeviceType("t2", <<Entry(<<ax>>, NoText, {"alarm"})>>, Subscribed("fast"), <<>>)

MCCatalogs == {<<t>> : t \in Varied} \cup {<<t, Other>> : t \in Constrained}

MCKnownIds == {{"me"}, {"me", "other"}}

MCAllowLists == {{}, {"t2"}}
=============================================================================
