------------------------------- MODULE MCUpdate -------------------------------
(* Small instances of UpdateChecker for TLC.                               *)
EXTENDS UpdateChecker, TLC

Version(parts, suffix) == [parts |-> parts, suffix |-> suffix]

(* The installed version, with a fourth number for contrast.               *)
ThisVersion == Version(<<0, 7, 0, 1>>, FALSE)

(* The same as a preview.                                                  *)
ThisPreview == Version(<<0, 7, 0, 1>>, TRUE)

(* Older although its last number is higher, the same up to where it ends, *)
(* the same with and without a suffix, newer with three and with four      *)
(* numbers, a number too large, and no version at all.                     *)
SomeTags ==
    {Version(<<0, 6, 9>>, FALSE), Version(<<0, 7, 0>>, FALSE),
     Version(<<0, 7, 0, 1>>, TRUE), Version(<<0, 7, 0, 1>>, FALSE),
     Version(<<0, 7, 1>>, FALSE), Version(<<0, 7, 0, 2>>, TRUE),
     Version(<<0, 7, 99>>, FALSE), Version(<<>>, FALSE)}

WorkerSymmetry == Permutations(Worker)
=============================================================================
