------------------------------ MODULE MCComments ------------------------------
(* One program that meets what the comments of the classes do not say: it   *)
(* uses two arrays of three kinds and a string as the script has it, and a  *)
(* container as ContainerProgram has it.  Every step is one of the actions  *)
(* of Arrays, Strings and Container.                                        *)
EXTENDS MCClasses

CONSTANTS Nodes, NULL, Keys
VARIABLES t, data, pc, node, iter, removing, request, before, shrunk, done

Tree == INSTANCE ContainerProgram

treeVars == <<t, data, pc, node, iter, removing, request, before, shrunk, done>>

VARIABLES
    made,     \* the number of calls the script has made
    refuted   \* the comments that did not hold in some earlier state

\* The program keeps its arrays, but looks at them no more, and goes on with others.
OtherArrays == arr' = [i \in Which |-> Own!Empty] /\ kind' = "none" /\ alive' = {} /\ held' = {}
               /\ slips' = {} /\ ruined' = FALSE

(* Two RefArrays that refer to one object, a CArray, and when all else is  *)
(* done an Array that never had an element.                                *)
ArrayCall(n, o) ==
    \/ n = 0 /\ Begin("RefArray")
    \/ n = 1 /\ NewObject(o)
    \/ n \in {2, 3} /\ AddRef(n - 1, o)
    \/ n = 4 /\ PopRef(1)
    \/ n \in {5, 9} /\ OtherArrays
    \/ n = 6 /\ Begin("CArray")
    \/ n = 7 /\ NewBlock(1, 1, o)
    \/ n = 8 /\ ResizeBlock(1, 0, o)
    \/ n = 13 /\ Begin("Array")
    \/ n = 14 /\ done = Tree!CallsInAll /\ request = NULL /\ PopOwn(1)

StringCall(n) ==
    \/ n = 10 /\ Create
    \/ n = 11 /\ AppendText(A1 \o A1)
    \/ n = 12 /\ SetLength(1)

Script(o) ==
    /\ \/ ArrayCall(made, o) /\ UNCHANGED stringVars
       \/ StringCall(made) /\ UNCHANGED arrayVars
    /\ made' = made + 1
    /\ UNCHANGED <<doc, fileVars, treeVars>>

-----------------------------------------------------------------------------
(* "data[len] == 0" (csjp_string.h:40): of every string that can be used.  *)
StringsEndWithZero == state # "undefined" => Ended(text)

(* "nor deleting on destruction or removal" (csjp_ref_array.h:17): what an *)
(* array refers to is there.                                               *)
RefArraysDeleteNothing == kind = "RefArray" => \A i \in Which : ItemsOf(i) \subseteq alive

(* "takes care of allocating, reallocating and freeing memory"             *)
(* (csjp_carray.h:25): the block of a CArray is its own.                   *)
BlocksAreTakenCareOf == kind = "CArray" => \A i \in Which : ItemsOf(i) \subseteq alive

(* "if val == NULL: len == 0" (csjp_array.h:108): an array without a block *)
(* counts nothing, so no call looks for an element in it.                  *)
ArraysWithoutBlockAreEmpty == kind = "Array" => ~ruined

(* The table above base64DecodeArray (csjp_astr.cpp:427) has 768, no       *)
(* digit, where the array has a second 25.                                 *)
OnlyDigitsAreDecoded == A!DecodeBase64(<<A!ZAgain, 0, 0, 0>>).raises

(* The grammar of csjp_json.h:346: a character may be "\u four-hex-digits" *)
(* (csjp_json.h:395), a number has a digit (csjp_json.h:401), and behind   *)
(* the array there is nothing.                                             *)
EscapesByNumberAreRead == ~J!Parse(List(Quoted(Numbered))).raises
NumbersHaveDigits == J!Parse(List(<<101>>)).raises
NothingIsBehind == J!Parse(List(<<>>) \o A1).raises

(* What the comments say.  Of the container: "Maintain blancedness"        *)
(* (csjp_bintree.h:303), which insert() calls, the same call in remove()   *)
(* with "Lets check for violations" (csjp_bintree.h:471), and "node is     *)
(* localy ordered" (csjp_bintree.h:643).                                   *)
Said ==
    [grown |-> Tree!InsertKeepsBalance, shrunk |-> Tree!RemoveKeepsBalance,
     ordered |-> Tree!LocallyOrdered, strings |-> StringsEndWithZero,
     references |-> RefArraysDeleteNothing, blocks |-> BlocksAreTakenCareOf,
     arrays |-> ArraysWithoutBlockAreEmpty, digits |-> OnlyDigitsAreDecoded,
     escapes |-> EscapesByNumberAreRead, numbers |-> NumbersHaveDigits,
     behind |-> NothingIsBehind]
Refuted == {c \in DOMAIN Said : ~Said[c]}

-----------------------------------------------------------------------------
ScriptInit ==
    /\ Init /\ Tree!ProgramInit
    /\ made = 0 /\ refuted = {}

ScriptNext ==
    /\ \/ \E o \in Objects : Script(o)
       \/ made = 14 /\ Tree!ProgramNext /\ UNCHANGED <<vars, made>>
    /\ refuted' = refuted \cup Refuted

ScriptSpec == ScriptInit /\ [][ScriptNext]_<<vars, treeVars, made, refuted>>

(* In every behaviour at least one of the comments does hold all the time. *)
SomeCommentHolds == refuted \cup Refuted # DOMAIN Said
==============================================================================
