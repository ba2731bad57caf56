------------------------------ MODULE MCIntern ------------------------------
(***************************************************************************)
(* Small instances of Intern: the widths of an index and the dictionary's  *)
(* limit are scaled down so that a few strings pass all of them.           *)
(***************************************************************************)
EXTENDS Intern

MCStrings == {"", "foo", "bar", "baz"}
MCLong == {"foo", "bar", "baz"}
MCSeeds == {<<>>, <<"foo">>, <<"foo", "bar">>, <<"baz", "bar", "foo", "">>}

(* With the flag on, what is read as a string or through a tag; without it, *)
(* anything but a byte slice in a tagged interface.                         *)
MCKinds ==
  [f \in BOOLEAN |-> IF f THEN {"string", "tag", "tagIface", "reset"}
                     ELSE {"string", "tag", "iface", "skip", "reset"}]

(* The combinations that Paired excludes.                                   *)
MCIfaceKinds == [f \in {TRUE} |-> {"string", "iface"}]
MCSkipKinds == [f \in {TRUE} |-> {"string", "skip"}]
MCBytesKinds == [f \in {FALSE} |-> {"tag", "tagIface", "tagBytes"}]
=============================================================================
