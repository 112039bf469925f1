------------------------------ MODULE Ciphers ------------------------------
(***************************************************************************)
(* The algorithm package: the block ciphers, the contexts and the files.   *)
(* Their calls share nothing they write, so that one at a time shows all   *)
(* they do.                                                                *)
(***************************************************************************)
EXTENDS CipherFile, BlockCipher

vars == <<contextVars, fileVars, blockVars>>

Init == ContextInit /\ FileInit /\ BlockInit

\* A file is encrypted by a context, but not through its Encrypt.
Next ==
    \/ /\ stage = "fresh" /\ fileStage = "none"
       /\ ContextNext /\ UNCHANGED <<fileVars, blockVars>>
    \/ /\ stage = "fresh" /\ phase = "new"
       /\ FileNext
       /\ UNCHANGED <<mode, phase, data, padded, input, output, todo, feedback, registers,
                      delta, whole, result, blockVars>>
    \/ /\ phase = "new" /\ fileStage = "none"
       /\ BlockNext /\ UNCHANGED <<contextVars, fileVars>>

Spec == Init /\ [][Next]_vars
=============================================================================
