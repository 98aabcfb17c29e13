---------------------------- MODULE MCAsterNonce ----------------------------
(* What requests share across processes or calls, for TLC: the Aster and    *)
(* the RISEx nonces and Pacifica's credits.  Each is checked from its start *)
(* while the others have not begun; the processes and signers of Aster are *)
(* interchangeable.                                                        *)
EXTENDS AsterNonce, RisexNonce, CreditLimiter, TLC

Symmetry == Permutations(Procs) \cup Permutations(Signers)

\* One of the states Aster's may begin in.
NonceIdle == NonceInit /\ \A p, q \in Procs : signer[p] = signer[q]

MCInit == NonceInit /\ RisexInit /\ CreditInit
MCNext ==
    \/ CreditInit /\ RisexInit /\ NonceNext /\ UNCHANGED <<risexVars, creditVars>>
    \/ CreditInit /\ NonceIdle /\ RisexNext /\ UNCHANGED <<asterVars, creditVars>>
    \/ NonceIdle /\ RisexInit /\ CreditNext /\ UNCHANGED <<asterVars, risexVars>>

MCSpec == MCInit /\ [][MCNext]_<<asterVars, risexVars, creditVars>>
=============================================================================
