------------------------------- MODULE Classes -------------------------------
(***************************************************************************)
(* The classes of the library that keep their data to themselves: a        *)
(* program with two arrays, with a string, with a Json, or with a file.    *)
(* They share no state, so it uses one of them.                            *)
(***************************************************************************)
EXTENDS Arrays, Documents, File

vars == <<arrayVars, stringVars, doc, fileVars>>

\* No file has been touched, and there is none.
Untouched == f = New(FALSE, <<>>) /\ moves = 0

Init ==
    /\ FileInit /\ ArraysInit /\ StringsInit /\ DocumentsInit

UseArrays ==
    /\ StringsInit /\ DocumentsInit /\ Untouched
    /\ ArraysNext /\ UNCHANGED <<stringVars, doc, fileVars>>

UseString ==
    /\ ArraysInit /\ DocumentsInit /\ Untouched
    /\ StringsNext /\ UNCHANGED <<arrayVars, doc, fileVars>>

UseJson ==
    /\ ArraysInit /\ StringsInit /\ Untouched
    /\ DocumentsNext /\ UNCHANGED <<arrayVars, stringVars, fileVars>>

UseFile ==
    /\ ArraysInit /\ StringsInit /\ DocumentsInit
    /\ FileNext /\ UNCHANGED <<arrayVars, stringVars, doc>>

Next == UseArrays \/ UseString \/ UseJson \/ UseFile

Spec == Init /\ [][Next]_vars

(* "Parse new string back into csjp::Json" (src/container/test/json.cpp).  *)
(* A text is read as the parser understands it, which is the grammar of    *)
(* csjp_json.h:346 and more: texts without quotes, comments, numbers of    *)
(* any of the characters of a number, "e" alone too, and whatever is       *)
(* behind the document; "\u" with four digits is in the grammar, but       *)
(* refused.  A Json that is an object or an array is printed and comes     *)
(* back as it is shown: with its members, in order, whatever lies hidden   *)
(* in it; numbers and the like as strings.  This takes keys that differ    *)
(* and need no escape, and texts that replace() can escape and without     *)
(* control characters, which the parser refuses even where it made them    *)
(* from escapes.  What is printed and then cut anywhere is refused.  What  *)
(* is set at a key is there, and nothing else changes; an object that      *)
(* became a string hides its members, and setting one again does not show  *)
(* them.                                                                   *)
JsonKeepsItsWord == Untouched /\ ArraysInit /\ StringsInit => JsonAsMeant
==============================================================================
