----------------------------- MODULE MCSendPage -----------------------------
(***************************************************************************)
(* Instances of Browser for TLC: the seeded importers and suppliers, as    *)
(* far as their names and statuses differ, and one supplier to be added;   *)
(* one payment with one or two pages on it; and a form with an importer, a *)
(* supplier, and one of each to be added.                                  *)
(***************************************************************************)
EXTENDS Browser

CONSTANTS i1, i2, i3, s1, s2, s3, ops, tracker, mirror

MCTraits == [s \in Subjects |-> IF s = s2 THEN {"denied"}
                                ELSE IF s = i3 THEN {"pep"} ELSE {}]

MCOwner == [s \in Suppliers |-> IF s = s3 THEN Nobody ELSE i1]

Scene(page, remote, open, ahead) ==
  [page |-> page, http |-> remote, open |-> open, ahead |-> ahead]

SendScenes == {Scene("send", FALSE, {}, 0)}

\* Two tabs with one request each, or one tab whose requests overlap.
MCScenes ==
  SendScenes \union
  {Scene("track", FALSE, {ops, tracker}, 1), Scene("track", FALSE, {ops}, 2),
   Scene("track", FALSE, {mirror}, 2),
   Scene("track", TRUE, {tracker}, 2), Scene("track", TRUE, {ops}, 1), Scene("track", TRUE, {mirror}, 1),
   Scene("create", FALSE, {}, 3), Scene("create", TRUE, {}, 2)}

MCSeedRows ==
  {[importers |-> <<i1>>, suppliers |-> [i \in FormImporters |-> IF i = i1 THEN <<s1>> ELSE <<>>]]}

=============================================================================
