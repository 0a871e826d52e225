---- MODULE IdentityLibraries ----
(***************************************************************************)
(* What each library that reads identity TXT records does: the values of   *)
(* Profile.  Java, Kotlin and C# read did:dns identities only.             *)
(***************************************************************************)
EXTENDS IdentityTxt

Go ==
  [texts |-> "joined", trims |-> TRUE, anyPair |-> FALSE, empty |-> "lost",
   blanks |-> FALSE, on |-> {"true"}, strict |-> FALSE, room |-> FALSE]

\* It asks node's dns.resolveTxt, which takes a callback and throws without one;
\* what is thrown counts as no record. Its parser, and the copy of it in the
\* browser extension, would read what Go reads but for blanks in front.
JavaScript == [Go EXCEPT !.texts = "none", !.trims = FALSE]

Python == [Go EXCEPT !.trims = FALSE, !.empty = "counts", !.on = {"true", "True"}]
Ruby == Python
PHP == [Go EXCEPT !.empty = "counts"]
Swift == [PHP EXCEPT !.texts = "quoted"]
Dart == [PHP EXCEPT !.texts = "first"]
Lua == Dart
CPP == [Dart EXCEPT !.blanks = TRUE]

C == [Go EXCEPT !.texts = "strings", !.trims = FALSE, !.empty = "skipped",
                !.strict = TRUE, !.room = TRUE]

\* ipfs is left a text, of which a caller takes "true" for yes.
Rust == [Go EXCEPT !.trims = FALSE, !.anyPair = TRUE, !.empty = "skipped"]

ProfileOf ==
  [C |-> C, CPP |-> CPP, Dart |-> Dart, Go |-> Go, JavaScript |-> JavaScript,
   Lua |-> Lua, PHP |-> PHP, Python |-> Python, Ruby |-> Ruby, Rust |-> Rust,
   Swift |-> Swift]
====
