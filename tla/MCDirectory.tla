---------------------------- MODULE MCDirectory ----------------------------
(* Clusters of four entries.  The root holds up to five of: files with     *)
(* short names, with and without an extension; a file with a long name of  *)
(* two parts; one whose name fills its part and begins like the former; a  *)
(* directory with a name of one part; a file with characters beyond 8      *)
(* bits, whose low bytes spell the name that fills its part; a deleted     *)
(* short name and a deleted part of a long name.  The directory holds two  *)
(* or three files, with names that the root may have, too.  Other clusters *)
(* show unused entries, or a file, what looks like a part of a name, and a *)
(* directory.                                                              *)
EXTENDS Directory

Full(text) == Cell(<<text>>, FALSE)
End(text) == Cell(<<text>>, TRUE)

(* What a path spells.                                                     *)
a == <<Cell(<<"A", ".", "TXT">>, TRUE)>>
n == <<End("N")>>
b == <<Full("b1"), NUL>>
l == <<Full("b1"), End("l2")>>
d == <<End("d")>>
Empty == <<NUL>>

(* A wide name of two parts: the low bytes of the second are all 0.        *)
w == <<Full("wide b1"), End("wide 0")>>
MCLow(cell) == CASE cell = w[1] -> b[1] [] cell = w[2] -> NUL [] OTHER -> cell

(* The parts of a long name, the last one first, and the entry.            *)
Part(name, part) ==
  [kind |-> "lfn", name |-> name, part |-> part, cell |-> name[part], deleted |-> FALSE]
Entry(kind, name, base, ext) ==
  [kind |-> kind, name |-> name, base |-> base, ext |-> ext, deleted |-> FALSE]
Long(name, kind) ==
  LET parts == Len(SelectSeq(name, LAMBDA cell : cell # NUL))
  IN  [k \in 1 .. parts |-> Part(name, parts + 1 - k)] \o <<Entry(kind, name, "X~1", "TXT")>>
Short(base, ext) == <<Entry("file", <<>>, base, ext)>>
Deleted(entries) == [k \in DOMAIN entries |->
                       [entries[k] EXCEPT !.deleted = TRUE, !.name = <<>>]]

(* Deleted entries of a name of one part, and of a short one.              *)
Gone == Deleted(<<[Part(d, 1) EXCEPT !.part = DELETED], Entry("file", <<>>, "~", "TXT")>>)
GoneDir == Deleted(<<[Part(d, 1) EXCEPT !.part = DELETED], Entry("dir", <<>>, "~", "")>>)
GoneShort == Deleted(Short("~", "TXT"))

Item(name) ==
  CASE name = a -> Short("A", "TXT")
    [] name = n -> Short("N", "")
    [] name = d -> Long(d, "dir")
    [] OTHER -> Long(name, "file")
Flat(names) == FlattenSeq([k \in DOMAIN names |-> Item(names[k])])

(* A path of one name does not enter the directory, which is then small.   *)
Roots == {Flat(<<a, l, d>>), Flat(<<a, w, d>>), Flat(<<l>>) \o GoneShort \o Flat(<<b, d>>)}
GoneRoots == {Flat(<<a, l>>) \o Gone \o Flat(<<d>>),
              Flat(<<a>>) \o Long(l, "dir") \o GoneDir \o Flat(<<d>>)}
MCListings ==
  [root : Roots \cup GoneRoots, sub : {Flat(<<a>>)}, path : {<<l>>, <<b>>, <<b, a>>}]
  \cup [root : Roots, sub : {Flat(<<a, l>>)}, path : {<<d, a>>, <<d, Empty>>}]
  \cup [root : {Flat(<<d, n, a, b, l>>)}, sub : {Flat(<<l, n, b>>)}, path : {<<d, b>>, <<n>>}]

MCForeign ==
  {[c \in 0 .. EOC |-> entries] : entries \in
     {[k \in 1 .. ENTRIES |-> None],
      <<Part(l, 1), Entry("dir", <<>>, "D", ""), Part(l, 2), Entry("file", <<>>, "A", "TXT")>>}}
=============================================================================
