------------------------------- MODULE MCJosIpc -------------------------------
(* An instance of JosIpc for TLC: no page, a page that may be written, one *)
(* that cannot be sent with the bits asked for.                            *)
EXTENDS JosIpc

Page(src, pte, perm) == [src |-> src, pte |-> pte, perm |-> perm]
PagePairs ==
  {Page("none", {}, {}), Page("mapped", {"U", "W"}, {"U", "W"}),
   Page("mapped", {"U"}, {"U", "W"})}
=============================================================================
