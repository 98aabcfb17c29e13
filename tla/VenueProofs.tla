---------------------------- MODULE VenueProofs -----------------------------
(* What the program shares with a venue: the RISEx nonces of an account,   *)
(* Pacifica's credits and the socket of a connection.                      *)
EXTENDS RisexNonce, CreditLimiter, WsConnection, FiniteSetTheorems, TLAPS

-----------------------------------------------------------------------------
(* RISEx pairs are handed out once, for any number of processes, calls,    *)
(* kills, anchors and bits.                                                *)

Pairs == Nat \X Nat
Tokens == Accounts \X Nat
LockFiles == [token : Tokens, old : BOOLEAN]
Steps == {"idle", "link", "look", "rename", "compare", "fetch", "read", "write",
          "check", "unlink"}
Owner(p) == step[p] \in {"fetch", "read", "write", "check", "unlink"}

SlotTypeOK ==
    /\ chain \in 0..MaxAnchor /\ kills \in 0..MaxKills
    /\ local \in Pairs \cup {<<>>}
    /\ accountLock \in LockFiles \cup {NoLock}
    /\ gone \subseteq Tokens
    /\ step \in [Accounts -> Steps]
    /\ asked \in [Accounts -> 0..MaxAsked]
    /\ judged \in [Accounts -> LockFiles \cup {NoLock}]
    /\ moved \in [Accounts -> LockFiles \cup {NoLock}]
    /\ remote \in [Accounts -> Nat]
    /\ slot \in [Accounts -> Pairs \cup {<<>>}]
    /\ handed \in Seq(Pairs)
    /\ \A p \in Accounts : step[p] = "write" <=> slot[p] # <<>>

\* A token of a killed process is never one of a living call.
GoneForGood ==
    /\ \A p \in Accounts : step[p] # "idle" => Token(p) \notin gone
    /\ \A t \in gone : t[2] <= asked[t[1]]
    /\ \A p \in Accounts : step[p] = "rename" =>
          judged[p] \in LockFiles /\ judged[p].token \in gone

\* The lock is that of the one process that owns it, and a pair about to be
\* written comes after all that were handed out.
OwnedAndLater ==
    /\ \A p \in Accounts : Owner(p) =>
          accountLock \in LockFiles /\ accountLock.token = Token(p)
    /\ \A p \in Accounts : step[p] = "compare" => moved[p].token = judged[p].token
    /\ \A p \in Accounts : step[p] = "write" /\ local # <<>> => Later(local, slot[p])
    /\ local = <<>> => handed = <<>>
    /\ \A i \in DOMAIN handed : handed[i] = local \/ Later(handed[i], local)
    /\ \A i, j \in DOMAIN handed : i < j => Later(handed[i], handed[j])

SlotInv == SlotTypeOK /\ GoneForGood /\ (~displaced => OwnedAndLater)

-----------------------------------------------------------------------------

\* The next pair comes after the last one, whatever the venue says.
LEMMA NextIsLater ==
  ASSUME NEW a \in Nat, NEW l \in Pairs \cup {<<>>}
  PROVE  /\ NextSlot(a, l) \in Pairs
         /\ l # <<>> => Later(l, NextSlot(a, l))
<1>1. CASE l = <<>>
  BY <1>1 DEF NextSlot, Pairs
<1>2. CASE l \in Pairs
  BY <1>2 DEF NextSlot, Pairs, Later
<1> QED
  BY <1>1, <1>2

\* A pair is not the empty tuple.
LEMMA PairsAreNotEmpty == \A s \in Pairs : s # <<>>
BY DEF Pairs

LEMMA LaterIsTransitive ==
  ASSUME NEW r \in Pairs, NEW s \in Pairs, NEW t \in Pairs, Later(r, s), Later(s, t)
  PROVE  Later(r, t)
BY DEF Pairs, Later

\* What is handed out later is appended to an ordered history.
LEMMA AppendLater ==
  ASSUME NEW q \in Seq(Pairs), NEW m \in Pairs \cup {<<>>}, NEW n \in Pairs,
         m = <<>> => q = <<>>,
         m # <<>> => Later(m, n),
         \A i \in DOMAIN q : q[i] = m \/ Later(q[i], m),
         \A i, j \in DOMAIN q : i < j => Later(q[i], q[j])
  PROVE  /\ Append(q, n) \in Seq(Pairs)
         /\ \A i \in DOMAIN Append(q, n) : Append(q, n)[i] = n \/ Later(Append(q, n)[i], n)
         /\ \A i, j \in DOMAIN Append(q, n) :
              i < j => Later(Append(q, n)[i], Append(q, n)[j])
<1> DEFINE r == Append(q, n)
<1>1. Len(q) \in Nat /\ DOMAIN q = 1..Len(q) /\ DOMAIN r = 1..(Len(q) + 1)
  OBVIOUS
<1>2. r \in Seq(Pairs) /\ r[Len(q) + 1] = n
  OBVIOUS
<1>3. ASSUME NEW i \in 1..Len(q) PROVE r[i] = q[i] /\ q[i] \in Pairs /\ Later(q[i], n)
  <2>1. r[i] = q[i] /\ q[i] \in Pairs
    OBVIOUS
  <2>2. m # <<>> /\ m \in Pairs
    <3>1. q # <<>>
      BY <1>1
    <3> QED
      BY <3>1
  <2>3. q[i] = m \/ Later(q[i], m)
    BY <1>1
  <2> QED
    BY <2>1, <2>2, <2>3, LaterIsTransitive
<1>4. \A i, j \in 1..Len(q) : i < j => Later(q[i], q[j])
  BY <1>1
<1> HIDE DEF r
<1>5. ASSUME NEW i \in 1..(Len(q) + 1) PROVE r[i] = n \/ Later(r[i], n)
  <2>1. CASE i = Len(q) + 1
    BY <1>2, <2>1
  <2>2. CASE i # Len(q) + 1
    <3>1. i \in 1..Len(q)
      BY <1>1, <2>2
    <3> QED
      BY <1>3, <3>1
  <2> QED
    BY <2>1, <2>2
<1>6. ASSUME NEW i \in 1..(Len(q) + 1), NEW j \in 1..(Len(q) + 1), i < j
      PROVE  Later(r[i], r[j])
  <2>0. i \in 1..Len(q)
    BY <1>1, <1>6
  <2>1. CASE j = Len(q) + 1
    BY <1>2, <1>3, <2>0, <2>1
  <2>2. CASE j # Len(q) + 1
    <3>1. j \in 1..Len(q)
      BY <1>1, <2>2
    <3> QED
      BY <1>3, <1>4, <1>6, <2>0, <3>1
  <2> QED
    BY <2>1, <2>2
<1> QED
  BY <1>1, <1>2, <1>5, <1>6 DEF r

-----------------------------------------------------------------------------

\* Every step keeps the types.
LEMMA SlotsAreTyped ==
  ASSUME SlotTypeOK, [RisexNext]_risexVars
  PROVE  SlotTypeOK'
<1> USE RisexAssumption DEF SlotTypeOK, Steps, LockFiles, Tokens
<1>1. ASSUME NEW p \in Accounts, Ask(p) PROVE SlotTypeOK'
  BY SMTT(30), <1>1 DEF Ask, Goes
<1>2. ASSUME NEW p \in Accounts, Link(p) PROVE SlotTypeOK'
  <2>1. step' \in [Accounts -> Steps] /\ step'[p] # "write"
    BY <1>2 DEF Link, Goes
  <2>2. accountLock' \in LockFiles \cup {NoLock}
    <3>1. asked[p] \in Nat
      OBVIOUS
    <3>2. Token(p) \in Tokens
      BY <3>1 DEF Token
    <3>3. [token |-> Token(p), old |-> FALSE] \in LockFiles
      BY <3>2
    <3> QED
      BY <1>2, <3>3 DEF Link
  <2>3. \A q \in Accounts : step'[q] = "write" <=> slot[q] # <<>>
    BY <1>2, <2>1 DEF Link, Goes
  <2> QED
    BY <1>2, <2>1, <2>2, <2>3 DEF Link
<1>3. ASSUME NEW p \in Accounts, Look(p) PROVE SlotTypeOK'
  <2>1. step' \in [Accounts -> Steps] /\ step'[p] # "write"
    <3>1. PICK s \in {"rename", "link", "idle"} : Goes(p, s)
      BY <1>3 DEF Look
    <3> QED
      BY <3>1 DEF Goes
  <2>2. judged' \in [Accounts -> LockFiles \cup {NoLock}]
    BY <1>3 DEF Look
  <2>3. \A q \in Accounts : step'[q] = "write" <=> slot[q] # <<>>
    BY <1>3, <2>1 DEF Look, Goes
  <2> QED
    BY <1>3, <2>1, <2>2, <2>3 DEF Look
<1>4. ASSUME NEW p \in Accounts, MoveAway(p) PROVE SlotTypeOK'
  <2>1. step' \in [Accounts -> Steps] /\ step'[p] # "write"
    BY <1>4 DEF MoveAway, Goes
  <2>2. /\ moved' \in [Accounts -> LockFiles \cup {NoLock}]
        /\ accountLock' \in LockFiles \cup {NoLock}
    <3>1. CASE accountLock = NoLock
      BY <1>4, <3>1 DEF MoveAway
    <3>2. CASE accountLock # NoLock
      <4>1. moved' = [moved EXCEPT ![p] = accountLock] /\ accountLock' = NoLock
        BY <1>4, <3>2 DEF MoveAway
      <4>2. accountLock \in LockFiles
        BY <3>2
      <4> HIDE DEF LockFiles
      <4>3. moved' \in [Accounts -> LockFiles \cup {NoLock}]
        BY <4>1, <4>2
      <4> QED
        BY <4>1, <4>3
    <3> QED
      BY <3>1, <3>2
  <2>3. \A q \in Accounts : step'[q] = "write" <=> slot[q] # <<>>
    BY <1>4, <2>1 DEF MoveAway, Goes
  <2> QED
    BY <1>4, <2>1, <2>2, <2>3 DEF MoveAway
<1>5. ASSUME NEW p \in Accounts, PutBack(p) PROVE SlotTypeOK'
  BY <1>5 DEF PutBack, Goes
<1>6. ASSUME NEW p \in Accounts, FetchRemote(p) PROVE SlotTypeOK'
  <2>1. step' \in [Accounts -> Steps] /\ step'[p] # "write"
    BY <1>6 DEF FetchRemote, Goes
  <2>2. remote' \in [Accounts -> Nat]
    <3>1. 0..chain \subseteq Nat
      OBVIOUS
    <3> QED
      BY <1>6, <3>1 DEF FetchRemote
  <2>3. \A q \in Accounts : step'[q] = "write" <=> slot[q] # <<>>
    BY <1>6, <2>1 DEF FetchRemote, Goes
  <2> QED
    BY <1>6, <2>1, <2>2, <2>3 DEF FetchRemote
<1>7. ASSUME NEW p \in Accounts, ReadLocal(p) PROVE SlotTypeOK'
  <2> DEFINE next == NextSlot(remote[p], local)
  <2>1. next \in Pairs
    BY NextIsLater
  <2>2. next # <<>>
    BY <2>1, PairsAreNotEmpty
  <2> HIDE DEF next
  <2>3. \/ step' = [step EXCEPT ![p] = "check"] /\ slot' = slot
        \/ step' = [step EXCEPT ![p] = "write"] /\ slot' = [slot EXCEPT ![p] = next]
    BY <1>7 DEF ReadLocal, Goes, next
  <2>4. step' \in [Accounts -> Steps] /\ slot' \in [Accounts -> Pairs \cup {<<>>}]
    BY ZenonT(30), <2>1, <2>3
  <2>5. \A q \in Accounts : step'[q] = "write" <=> slot'[q] # <<>>
    BY <1>7, <2>2, <2>3 DEF ReadLocal
  <2> QED
    BY <1>7, <2>4, <2>5 DEF ReadLocal
<1>8. ASSUME NEW p \in Accounts, WriteLocal(p) PROVE SlotTypeOK'
  BY <1>8 DEF WriteLocal, Goes
<1>9. ASSUME NEW p \in Accounts, CheckOwn(p) PROVE SlotTypeOK'
  BY <1>9 DEF CheckOwn, Goes
<1>10. ASSUME NEW p \in Accounts, UnlinkOwn(p) PROVE SlotTypeOK'
  BY <1>10 DEF UnlinkOwn, Goes
<1>11. ASSUME NEW p \in Accounts, Killed(p) PROVE SlotTypeOK'
  BY <1>11 DEF Killed, Goes, Token
<1>12. ASSUME ChainMoves PROVE SlotTypeOK'
  BY <1>12 DEF ChainMoves
<1>13. ASSUME RisexLockAges PROVE SlotTypeOK'
  BY <1>13 DEF RisexLockAges
<1>14. CASE UNCHANGED risexVars
  BY <1>14 DEF risexVars
<1> QED
  BY <1>1, <1>2, <1>3, <1>4, <1>5, <1>6, <1>7, <1>8, <1>9, <1>10, <1>11, <1>12, <1>13, <1>14 DEF RisexNext

\* A process that is killed takes its token with it.
LEMMA GoneTokensStayGone ==
  ASSUME SlotTypeOK, GoneForGood, [RisexNext]_risexVars
  PROVE  GoneForGood'
<1> USE RisexAssumption DEF SlotTypeOK, Steps, LockFiles, Tokens, GoneForGood, Token
<1>1. ASSUME NEW p \in Accounts, Ask(p) PROVE GoneForGood'
  BY <1>1 DEF Ask, Goes
<1>2. ASSUME NEW p \in Accounts, Link(p) PROVE GoneForGood'
  BY <1>2 DEF Link, Goes
<1>3. ASSUME NEW p \in Accounts, Look(p) PROVE GoneForGood'
  <2>1. /\ gone' = gone /\ asked' = asked /\ step[p] = "look"
        /\ \A q \in Accounts \ {p} : step'[q] = step[q] /\ judged'[q] = judged[q]
    BY <1>3 DEF Look, Goes
  <2>2. step'[p] = "rename" => judged'[p] \in LockFiles /\ judged'[p].token \in gone
    BY <1>3 DEF Look, Goes, IsStale
  <2> QED
    BY <2>1, <2>2
<1>4. ASSUME NEW p \in Accounts, MoveAway(p) PROVE GoneForGood'
  BY <1>4 DEF MoveAway, Goes
<1>5. ASSUME NEW p \in Accounts, PutBack(p) PROVE GoneForGood'
  BY <1>5 DEF PutBack, Goes
<1>6. ASSUME NEW p \in Accounts, FetchRemote(p) PROVE GoneForGood'
  BY <1>6 DEF FetchRemote, Goes
<1>7. ASSUME NEW p \in Accounts, ReadLocal(p) PROVE GoneForGood'
  BY <1>7 DEF ReadLocal, Goes
<1>8. ASSUME NEW p \in Accounts, WriteLocal(p) PROVE GoneForGood'
  BY <1>8 DEF WriteLocal, Goes
<1>9. ASSUME NEW p \in Accounts, CheckOwn(p) PROVE GoneForGood'
  BY <1>9 DEF CheckOwn, Goes
<1>10. ASSUME NEW p \in Accounts, UnlinkOwn(p) PROVE GoneForGood'
  BY <1>10 DEF UnlinkOwn, Goes
<1>11. ASSUME NEW p \in Accounts, Killed(p) PROVE GoneForGood'
  BY <1>11 DEF Killed, Goes
<1>12. ASSUME ChainMoves PROVE GoneForGood'
  BY <1>12 DEF ChainMoves
<1>13. ASSUME RisexLockAges PROVE GoneForGood'
  BY <1>13 DEF RisexLockAges
<1>14. CASE UNCHANGED risexVars
  BY <1>14 DEF risexVars
<1> QED
  BY <1>1, <1>2, <1>3, <1>4, <1>5, <1>6, <1>7, <1>8, <1>9, <1>10, <1>11, <1>12, <1>13, <1>14 DEF RisexNext

\* A lock that was found stale has no owner, so that a takeover disturbs nobody.
LEMMA TheOwnerIsAlone ==
  ASSUME SlotTypeOK, SlotTypeOK', GoneForGood, ~displaced => OwnedAndLater,
         [RisexNext]_risexVars, ~displaced'
  PROVE  OwnedAndLater'
<1> USE RisexAssumption DEF SlotTypeOK, Steps, LockFiles, Tokens, GoneForGood, Token, OwnedAndLater, Owner
<1>1. ASSUME NEW p \in Accounts, Ask(p) PROVE OwnedAndLater'
  BY <1>1 DEF Ask, Goes
<1>2. ASSUME NEW p \in Accounts, Link(p) PROVE OwnedAndLater'
  <2>0. OwnedAndLater /\ UNCHANGED <<local, handed, slot, asked, judged, moved, displaced>>
    BY <1>2 DEF Link
  <2>1. /\ step[p] = "link" /\ step'[p] \in {"fetch", "look"}
        /\ \A q \in Accounts \ {p} : step'[q] = step[q]
    BY <1>2 DEF Link, Goes
  <2>2. CASE accountLock = NoLock
    <3>1. accountLock' = [token |-> Token(p), old |-> FALSE]
      BY <1>2, <2>2 DEF Link
    <3>2. \A q \in Accounts : ~Owner(q)
      BY <2>0, <2>2
    <3> QED
      BY <2>0, <2>1, <3>1, <3>2
  <2>3. CASE accountLock # NoLock
    <3>1. accountLock' = accountLock /\ step'[p] = "look"
      BY <1>2, <2>3 DEF Link, Goes
    <3> QED
      BY <2>0, <2>1, <3>1
  <2> QED
    BY <2>2, <2>3
<1>3. ASSUME NEW p \in Accounts, Look(p) PROVE OwnedAndLater'
  <2>0. /\ OwnedAndLater
        /\ UNCHANGED <<local, handed, slot, asked, accountLock, moved, displaced>>
    BY <1>3 DEF Look
  <2>1. /\ step[p] = "look" /\ step'[p] \in {"rename", "link", "idle"}
        /\ \A q \in Accounts \ {p} : step'[q] = step[q] /\ judged'[q] = judged[q]
    BY <1>3 DEF Look, Goes
  <2> QED
    BY ZenonT(30), <2>0, <2>1
<1>4. ASSUME NEW p \in Accounts, MoveAway(p) PROVE OwnedAndLater'
  <2>0. /\ ~displaced /\ OwnedAndLater
        /\ UNCHANGED <<local, handed, slot, asked, judged>>
    BY <1>4 DEF MoveAway
  <2>1. /\ step[p] = "rename" /\ step'[p] \in {"link", "compare"}
        /\ \A q \in Accounts \ {p} : step'[q] = step[q]
    BY <1>4 DEF MoveAway, Goes
  <2>2. CASE accountLock = NoLock
    <3>1. UNCHANGED <<accountLock, moved>> /\ step'[p] = "link"
      BY <1>4, <2>2 DEF MoveAway, Goes
    <3> QED
      BY <2>0, <2>1, <3>1
  <2>3. CASE accountLock # NoLock
    <3>1. moved' = [moved EXCEPT ![p] = accountLock] /\ accountLock = judged[p]
      BY <1>4, <2>3 DEF MoveAway
    <3>2. \A q \in Accounts : ~Owner(q)
      BY <2>0, <2>1, <3>1
    <3>3. \A q \in Accounts : step'[q] = "compare" => moved'[q].token = judged'[q].token
      BY SMTT(30), <2>0, <2>1, <3>1
    <3> QED
      BY <2>0, <2>1, <3>2, <3>3
  <2> QED
    BY <2>2, <2>3
<1>5. ASSUME NEW p \in Accounts, PutBack(p) PROVE OwnedAndLater'
  BY <1>5 DEF PutBack, Goes
<1>6. ASSUME NEW p \in Accounts, FetchRemote(p) PROVE OwnedAndLater'
  BY <1>6 DEF FetchRemote, Goes
<1>7. ASSUME NEW p \in Accounts, ReadLocal(p) PROVE OwnedAndLater'
  <2> DEFINE next == NextSlot(remote[p], local)
  <2>0. /\ OwnedAndLater
        /\ UNCHANGED <<local, handed, asked, accountLock, judged, moved>>
    BY <1>7 DEF ReadLocal
  <2>1. local # <<>> => Later(local, next)
    BY NextIsLater
  <2> HIDE DEF next
  <2>2. \/ step' = [step EXCEPT ![p] = "check"] /\ slot' = slot
        \/ step' = [step EXCEPT ![p] = "write"] /\ slot' = [slot EXCEPT ![p] = next]
    BY <1>7 DEF ReadLocal, Goes, next
  <2>3. step[p] = "read" /\ \A q \in Accounts \ {p} : step'[q] = step[q] /\ slot'[q] = slot[q]
    BY <1>7, <2>2 DEF ReadLocal
  <2>4. local # <<>> /\ step'[p] = "write" => Later(local, slot'[p])
    BY <2>1, <2>2
  <2>5. step'[p] \in {"check", "write"}
    BY <2>2
  <2>6. /\ \A q \in Accounts : Owner(q)' => Owner(q)
        /\ \A q \in Accounts : step'[q] = "compare" => step[q] = "compare"
    BY <2>3, <2>5
  <2>7. \A q \in Accounts : step'[q] = "write" /\ local # <<>> => Later(local, slot'[q])
    BY <2>0, <2>3, <2>4
  <2> QED
    BY <2>0, <2>6, <2>7
<1>8. ASSUME NEW p \in Accounts, WriteLocal(p) PROVE OwnedAndLater'
  <2> DEFINE n == slot[p]
  <2>0. /\ OwnedAndLater
        /\ UNCHANGED <<asked, accountLock, judged, moved>>
    BY <1>8 DEF WriteLocal
  <2>1. /\ n \in Pairs /\ local' = n /\ handed' = Append(handed, n)
        /\ step[p] = "write" /\ step'[p] = "check"
        /\ \A q \in Accounts \ {p} : step'[q] = step[q] /\ slot'[q] = slot[q]
    BY <1>8 DEF WriteLocal, Goes
  <2>2. \A q \in Accounts : step'[q] # "write"
    BY SMTT(30), <2>0, <2>1
  <2>3. n # <<>>
    BY <2>1, PairsAreNotEmpty
  <2> HIDE DEF n
  <2>4. local # <<>> => Later(local, n)
    BY <2>0, <2>1 DEF n
  <2>5. /\ \A i \in DOMAIN handed' : handed'[i] = local' \/ Later(handed'[i], local')
        /\ \A i, j \in DOMAIN handed' : i < j => Later(handed'[i], handed'[j])
    BY <2>0, <2>1, <2>4, AppendLater
  <2> QED
    BY <2>0, <2>1, <2>2, <2>3, <2>5
<1>9. ASSUME NEW p \in Accounts, CheckOwn(p) PROVE OwnedAndLater'
  BY <1>9 DEF CheckOwn, Goes
<1>10. ASSUME NEW p \in Accounts, UnlinkOwn(p) PROVE OwnedAndLater'
  BY <1>10 DEF UnlinkOwn, Goes
<1>11. ASSUME NEW p \in Accounts, Killed(p) PROVE OwnedAndLater'
  BY <1>11 DEF Killed, Goes
<1>12. ASSUME ChainMoves PROVE OwnedAndLater'
  BY <1>12 DEF ChainMoves
<1>13. ASSUME RisexLockAges PROVE OwnedAndLater'
  BY <1>13 DEF RisexLockAges
<1>14. CASE UNCHANGED risexVars
  BY <1>14 DEF risexVars
<1> QED
  BY <1>1, <1>2, <1>3, <1>4, <1>5, <1>6, <1>7, <1>8, <1>9, <1>10, <1>11, <1>12, <1>13, <1>14 DEF RisexNext
\* At the start there is no lock, no owner and no pair.
LEMMA NothingIsOwnedAtFirst == RisexInit => SlotInv
<1> SUFFICES ASSUME RisexInit PROVE SlotInv
  OBVIOUS
<1> USE RisexAssumption DEF RisexInit
<1>1. SlotTypeOK
  BY DEF SlotTypeOK, Steps
<1>2. GoneForGood
  BY DEF GoneForGood
<1>3. OwnedAndLater
  BY DEF OwnedAndLater, Owner
<1> QED
  BY <1>1, <1>2, <1>3 DEF SlotInv

\* A pair is handed out once over any number of processes, calls and kills,
\* unless a takeover moved a lock other than the one it had found stale.
THEOREM PairsAreHandedOutOnce == RisexSpec => []HandedOutOnceUnlessDisplaced
<1>1. SlotInv /\ [RisexNext]_risexVars => SlotInv'
  <2> SUFFICES ASSUME SlotInv, [RisexNext]_risexVars PROVE SlotInv'
    OBVIOUS
  <2>1. SlotTypeOK'
    BY SlotsAreTyped DEF SlotInv
  <2>2. GoneForGood'
    BY GoneTokensStayGone DEF SlotInv
  <2>3. ~displaced' => OwnedAndLater'
    BY <2>1, TheOwnerIsAlone DEF SlotInv
  <2> QED
    BY <2>1, <2>2, <2>3 DEF SlotInv
<1>2. SlotInv => HandedOutOnceUnlessDisplaced
  <2> SUFFICES ASSUME SlotInv PROVE HandedOutOnceUnlessDisplaced
    OBVIOUS
  <2>1. RisexTypeOK
    BY DEF SlotInv, SlotTypeOK, RisexTypeOK, LockFiles
  <2> QED
    BY <2>1 DEF SlotInv, OwnedAndLater, HandedOutOnceUnlessDisplaced
<1> QED
  BY NothingIsOwnedAtFirst, <1>1, <1>2, PTL DEF RisexSpec

-----------------------------------------------------------------------------
(* Pacifica's credits: what the limiter believes to be left is no more     *)
(* than what is, but for answers on their way and what requests in flight  *)
(* cost more than was reserved; for any quota, costs, prices, window, delay *)
(* and number of requests.                                                 *)

Phases == {"out", "sleeping", "sent", "answered"}
Observations == [remaining : 0..Quota, resetIn : Nat \ {0}, old : BOOLEAN]
AnswersSet == [status : {0, 200, 304, 429}, told : BOOLEAN, remaining : 0..Quota,
               reset : 0..WindowTicks, age : 0..MaxDelay]
Amounts == [Callers -> 0..MaxPrice]

\* Answers of the venue's current window that are on their way, and those of them
\* that say less than v is left.
Current == {c \in Callers : /\ phase[c] = "answered" /\ answer[c].status = 200
                            /\ answer[c].age <= tick}
Below(v) == {c \in Current : answer[c].remaining < v}

\* Everything spent since v was left is by requests whose answers are on their way.
Covered(v) == v <= creditsLeft + Total(charge, Below(v))

CreditTypes ==
    /\ tick \in 0..(WindowTicks - 1) /\ creditsLeft \in 0..Quota
    /\ obs \in Observations \cup {NoObs}
    /\ phase \in [Callers -> Phases]
    /\ cost \in Amounts /\ charge \in Amounts
    /\ budget \in [Callers -> 0..Patience] /\ wakes \in [Callers -> Nat]
    /\ waitedOn \in [Callers -> BOOLEAN]
    /\ answer \in [Callers -> AnswersSet]
    /\ hidden \in BOOLEAN /\ crossed \in BOOLEAN

Reservations == inFlight = Total(cost, At({"sent", "answered"}))

\* An observation of the venue's current window outlasts it, and who waits on an
\* observation waits for its end.
Clocks ==
    /\ \A c \in Callers : phase[c] = "answered" =>
          /\ answer[c].status # 0 /\ answer[c].reset > 0
          /\ answer[c].age <= tick => answer[c].reset = WindowTicks - tick + answer[c].age
    /\ Live(obs) /\ ~obs.old => obs.resetIn >= WindowTicks - tick
    /\ \A c \in Callers : phase[c] = "sleeping" /\ waitedOn[c] /\ Live(obs) =>
          wakes[c] = obs.resetIn

CachesTellNothing ==
    \A c \in Callers : phase[c] = "answered" /\ answer[c].told => answer[c].status # 304

\* What is observed, or will be, is covered; before the first observation of a
\* window all that is spent in it is.
Counted ==
    /\ Live(obs) /\ ~obs.old =>
          /\ Covered(obs.remaining)
          /\ \A c \in Current : \/ Covered(answer[c].remaining)
                                 \/ obs.remaining < answer[c].remaining
    /\ ~Live(obs) \/ obs.old =>
          /\ \A c \in Current : Covered(answer[c].remaining)
          /\ Quota <= creditsLeft + Total(charge, Current)

CreditInv ==
    /\ CreditTypes /\ Reservations /\ Clocks /\ CachesTellNothing
    /\ (~hidden /\ ~crossed => Counted)

LEMMA CreditNumbers ==
    /\ Quota \in Nat /\ MaxPrice \in Nat /\ Reserve \in Nat /\ Patience \in Nat
    /\ WindowTicks \in Nat /\ Slack \in Nat /\ MaxDelay \in Nat
    /\ Costs \subseteq 0..MaxPrice /\ Prices \subseteq 0..MaxPrice
    /\ MaxDelay < WindowTicks /\ IsFiniteSet(Callers) /\ NoObs \notin Observations
BY CreditAssumption DEF Observations

LEMMA MaxOfZero == ASSUME NEW n \in Int PROVE Max({0, n}) = IF n > 0 THEN n ELSE 0
BY DEF Max

Units(w, S) == {u \in S \X (1..MaxPrice) : u[2] <= w[u[1]]}

\* Sums are finite.
LEMMA TotalIsNat ==
    ASSUME NEW w, NEW S, S \subseteq Callers
    PROVE  /\ IsFiniteSet(Units(w, S)) /\ Total(w, S) \in Nat
           /\ Total(w, S) = Cardinality(Units(w, S))
<1>1. IsFiniteSet(S) /\ IsFiniteSet(1..MaxPrice)
  BY CreditNumbers, FS_Subset, FS_Interval
<1>2. IsFiniteSet(S \X (1..MaxPrice))
  BY <1>1, FS_Product
<1>3. Units(w, S) \subseteq S \X (1..MaxPrice)
  BY DEF Units
<1>4. IsFiniteSet(Units(w, S))
  BY <1>2, <1>3, FS_Subset
<1>5. Cardinality(Units(w, S)) \in Nat
  BY <1>4, FS_CardinalityType
<1> QED
  BY <1>4, <1>5 DEF Total, Units

\* More requests, or greater amounts, are no less in total.
LEMMA TotalGrows ==
    ASSUME NEW w \in Amounts, NEW v \in Amounts, NEW S, NEW T,
           S \subseteq T, T \subseteq Callers, \A c \in S : w[c] <= v[c]
    PROVE  Total(w, S) <= Total(v, T)
<1>1. \A c \in Callers : w[c] \in Nat /\ v[c] \in Nat
  BY CreditNumbers DEF Amounts
<1>2. Units(w, S) \subseteq Units(v, T)
  BY <1>1 DEF Units
<1> QED
  BY <1>2, TotalIsNat, FS_Subset

LEMMA TotalSame ==
    ASSUME NEW w, NEW v, NEW S, \A c \in S : w[c] = v[c]
    PROVE  Total(w, S) = Total(v, S)
BY DEF Total

LEMMA TotalWith ==
    ASSUME NEW w \in Amounts, NEW S, S \subseteq Callers, NEW c \in Callers, c \notin S
    PROVE  Total(w, S \cup {c}) = Total(w, S) + w[c]
<1> DEFINE one == {c} \X (1..w[c])
<1>1. w[c] \in 0..MaxPrice
  BY DEF Amounts
<1>2. IsFiniteSet(one) /\ Cardinality(one) = w[c]
  <2>1. IsFiniteSet(1..w[c]) /\ Cardinality(1..w[c]) = w[c]
    BY SMTT(30), <1>1, FS_Interval
  <2>2. IsFiniteSet({c}) /\ Cardinality({c}) = 1
    BY FS_Singleton
  <2>3. IsFiniteSet(one) /\ Cardinality(one) = Cardinality({c}) * Cardinality(1..w[c])
    BY <2>1, <2>2, FS_Product
  <2> QED
    BY <1>1, <2>1, <2>2, <2>3
<1>3. Units(w, S \cup {c}) = Units(w, S) \cup one /\ Units(w, S) \cap one = {}
  BY <1>1, CreditNumbers DEF Units
<1>4. /\ IsFiniteSet(Units(w, S)) /\ Cardinality(Units(w, S)) \in Nat
      /\ Total(w, S) = Cardinality(Units(w, S))
  BY TotalIsNat
<1>5. Total(w, S \cup {c}) = Cardinality(Units(w, S \cup {c}))
  BY TotalIsNat
<1> HIDE DEF one
<1>6. Cardinality(Units(w, S) \cup one)
        = Cardinality(Units(w, S)) + Cardinality(one) - Cardinality({})
  BY <1>2, <1>3, <1>4, FS_Union
<1>7. Cardinality({}) = 0
  BY FS_EmptySet
<1>8. Cardinality(Units(w, S \cup {c})) = Cardinality(Units(w, S) \cup one)
  BY <1>3
<1>9. w[c] \in Nat
  BY <1>1
<1> QED
  BY <1>2, <1>4, <1>5, <1>6, <1>7, <1>8, <1>9

LEMMA TotalSplit ==
    ASSUME NEW w, NEW S, NEW T, S \subseteq Callers, T \subseteq Callers, S \cap T = {}
    PROVE  Total(w, S \cup T) = Total(w, S) + Total(w, T)
<1>1. /\ Units(w, S \cup T) = Units(w, S) \cup Units(w, T)
      /\ Units(w, S) \cap Units(w, T) = {}
  BY DEF Units
<1>2. /\ IsFiniteSet(Units(w, S)) /\ Cardinality(Units(w, S)) \in Nat
      /\ Total(w, S) = Cardinality(Units(w, S))
  BY TotalIsNat
<1>3. /\ IsFiniteSet(Units(w, T)) /\ Cardinality(Units(w, T)) \in Nat
      /\ Total(w, T) = Cardinality(Units(w, T))
  BY TotalIsNat
<1>4. Total(w, S \cup T) = Cardinality(Units(w, S \cup T))
  BY TotalIsNat
<1>5. Cardinality(Units(w, S) \cup Units(w, T))
        = Cardinality(Units(w, S)) + Cardinality(Units(w, T)) - Cardinality({})
  BY <1>1, <1>2, <1>3, FS_Union
<1>6. Cardinality({}) = 0
  BY FS_EmptySet
<1>7. Cardinality(Units(w, S \cup T)) = Cardinality(Units(w, S) \cup Units(w, T))
  BY <1>1
<1> QED
  BY <1>2, <1>3, <1>4, <1>5, <1>6, <1>7

\* One request more or less in flight, or none.
LEMMA InFlightTotal ==
    ASSUME phase \in [Callers -> Phases], NEW ph, cost \in Amounts, cost' \in Amounts,
           NEW c \in Callers, NEW new \in Phases, phase' = [phase EXCEPT ![c] = new],
           \A d \in Callers \ {c} : cost'[d] = cost[d]
    PROVE  /\ Total(cost, At(ph)) \in Nat
           /\ phase[c] \notin ph /\ new \notin ph =>
                Total(cost, At(ph))' = Total(cost, At(ph))
           /\ phase[c] \notin ph /\ new \in ph =>
                Total(cost, At(ph))' = Total(cost, At(ph)) + cost'[c]
           /\ phase[c] \in ph /\ new \notin ph =>
                Total(cost, At(ph))' = Total(cost, At(ph)) - cost[c]
<1> DEFINE rest == At(ph) \ {c}
<1>1. /\ rest \subseteq Callers /\ At(ph) \subseteq Callers /\ c \notin rest
      /\ At(ph) = IF phase[c] \in ph THEN rest \cup {c} ELSE rest
      /\ At(ph)' = IF new \in ph THEN rest \cup {c} ELSE rest
  BY DEF At
<1> HIDE DEF rest
<1>2. Total(cost', rest) = Total(cost, rest)
  BY <1>1, TotalSame
<1>3. /\ Total(cost, rest) \in Nat /\ Total(cost, At(ph)) \in Nat
      /\ Total(cost, rest \cup {c}) = Total(cost, rest) + cost[c]
      /\ Total(cost', rest \cup {c}) = Total(cost', rest) + cost'[c]
  BY <1>1, TotalIsNat, TotalWith
<1>4. cost[c] \in Nat /\ cost'[c] \in Nat
  BY CreditNumbers DEF Amounts
<1>5. Total(cost, At(ph))' = Total(cost', At(ph)')
  OBVIOUS
<1> QED
  BY <1>1, <1>2, <1>3, <1>4, <1>5

LEMMA BelowIsNat ==
    ASSUME NEW v
    PROVE  /\ Below(v) \subseteq Current /\ Current \subseteq Callers
           /\ Total(charge, Current) \in Nat /\ Total(charge, Below(v)) \in Nat
<1>1. Current \subseteq Callers /\ Below(v) \subseteq Current
  BY DEF Current, Below
<1> QED
  BY <1>1, TotalIsNat

LEMMA NothingInTotal == ASSUME NEW w PROVE Total(w, {}) = 0
<1>1. Units(w, {}) = {}
  BY DEF Units
<1> QED
  BY <1>1, TotalIsNat, FS_EmptySet

LEMMA CreditStart == CreditInit => CreditInv
<1> SUFFICES ASSUME CreditInit PROVE CreditInv
  OBVIOUS
<1> USE CreditNumbers DEF CreditInit
<1>1. CreditTypes
  <2>1. NoAnswer \in AnswersSet
    BY DEF AnswersSet, NoAnswer
  <2>2. 0 \in 0..Quota /\ 0 \in 0..Patience /\ 0 \in 0..(WindowTicks - 1)
        /\ Quota \in 0..Quota
    OBVIOUS
  <2>3. /\ phase \in [Callers -> Phases] /\ waitedOn \in [Callers -> BOOLEAN]
        /\ reserve \in [Callers -> {0}] /\ answer \in [Callers -> {NoAnswer}]
    BY DEF Phases
  <2>4. /\ budget \in [Callers -> 0..Patience] /\ wakes \in [Callers -> Nat]
        /\ answer \in [Callers -> AnswersSet] /\ cost \in Amounts /\ charge \in Amounts
    BY <2>1, <2>2, <2>3 DEF Amounts
  <2> QED
    BY <2>2, <2>3, <2>4 DEF CreditTypes
<1>2. At({"sent", "answered"}) = {} /\ Current = {}
  BY DEF At, Current
<1>3. Reservations /\ Counted
  <2>1. Total(cost, {}) = 0 /\ Total(charge, {}) = 0
    BY NothingInTotal
  <2> QED
    BY <1>2, <2>1 DEF Reservations, Counted, Live
<1>4. Clocks /\ CachesTellNothing
  BY DEF Clocks, CachesTellNothing, Live
<1> QED
  BY <1>1, <1>3, <1>4 DEF CreditInv

\* A sleep that is over has seen the end of the observation it waited on.
LEMMA WakeKeepsObs ==
    ASSUME CreditTypes, Clocks, NEW c \in Callers, Wake(c)
    PROVE  obs' = obs
BY CreditAssumption DEF CreditTypes, Clocks, Wake, Live, Observations

\* A request that is sent reserves its cost.
LEMMA ReservesStep ==
    ASSUME CreditTypes, Reservations, NEW c \in Callers, phase[c] \in {"out", "sleeping"},
           NEW k \in 0..MaxPrice, Reserves(c, k)
    PROVE  /\ cost' \in Amounts /\ charge' \in Amounts /\ phase' \in [Callers -> Phases]
           /\ \A d \in Callers : phase'[d] # "sent" =>
                 phase'[d] = phase[d] /\ charge'[d] = charge[d]
           /\ Reservations'
<1> DEFINE ph == {"sent", "answered"}
<1> USE CreditNumbers
<1>1. /\ phase \in [Callers -> Phases] /\ cost \in Amounts /\ charge \in Amounts
      /\ phase' = [phase EXCEPT ![c] = "sent"] /\ inFlight' = inFlight + k
      /\ cost' = [cost EXCEPT ![c] = k]
  BY DEF CreditTypes, Reserves
<1>2. PICK price \in Prices : charge' = [charge EXCEPT ![c] = price]
  BY DEF Reserves
<1>3. /\ cost' \in Amounts /\ cost'[c] = k
      /\ \A d \in Callers \ {c} : cost'[d] = cost[d]
  BY <1>1 DEF Amounts
<1>4. charge' \in Amounts /\ phase' \in [Callers -> Phases]
  BY <1>1, <1>2 DEF Amounts, Phases
<1>5. \A d \in Callers : phase'[d] # "sent" =>
        phase'[d] = phase[d] /\ charge'[d] = charge[d]
  BY <1>1, <1>2 DEF Amounts
<1>6. /\ "sent" \in Phases /\ "sent" \in ph /\ phase[c] \notin ph
  BY DEF Phases
<1>7. Total(cost, At(ph))' = Total(cost, At(ph)) + k
  BY <1>1, <1>3, <1>6, InFlightTotal
<1>8. Reservations'
  BY <1>1, <1>7 DEF Reservations
<1> QED
  BY <1>3, <1>4, <1>5, <1>8

\* What is counted only depends on answers, and on who waits for what.
LEMMA CountedIsKept ==
    ASSUME UNCHANGED <<tick, creditsLeft, obs, answer>>, phase \in [Callers -> Phases],
           \A d \in Callers : phase'[d] = "answered" <=> phase[d] = "answered",
           \A d \in Callers : phase[d] = "answered" => charge'[d] = charge[d],
           Counted
    PROVE  Counted'
<1>1. Current' = Current
  BY DEF Current
<1>2. \A v : Below(v)' = Below(v)
  BY <1>1 DEF Below
<1>3. Total(charge, Current)' = Total(charge, Current)
  <2>1. \A d \in Current : charge'[d] = charge[d]
    BY DEF Current
  <2>2. Total(charge', Current) = Total(charge, Current)
    BY <2>1, TotalSame
  <2> QED
    BY <1>1, <2>2
<1>4. ASSUME NEW v PROVE Total(charge, Below(v))' = Total(charge, Below(v))
  <2>1. \A d \in Below(v) : charge'[d] = charge[d]
    BY DEF Current, Below
  <2>2. Total(charge', Below(v)) = Total(charge, Below(v))
    BY <2>1, TotalSame
  <2>3. Below(v)' = Below(v)
    BY <1>2
  <2> QED
    BY <2>2, <2>3
<1>5. \A v : Covered(v)' <=> Covered(v)
  BY <1>4 DEF Covered
<1> QED
  BY <1>1, <1>3, <1>5 DEF Counted, Live

\* What the head of acquire's loop does, with the observation that stays.
LEMMA DecideStep ==
    ASSUME CreditTypes, Reservations, Clocks, CachesTellNothing, obs' = obs,
           NEW c \in Callers, phase[c] \in {"out", "sleeping"}, NEW patience \in 0..Patience,
           NEW k \in 0..MaxPrice, NEW need, Decide(c, obs, patience, k, need),
           UNCHANGED <<tick, creditsLeft, answer, hidden, crossed>>
    PROVE  /\ CreditTypes' /\ Reservations' /\ Clocks' /\ CachesTellNothing'
           /\ Counted => Counted'
<1> USE CreditNumbers
<1>1. CASE Passes(obs, k, need)
  <2>1. /\ Reserves(c, k) /\ waitedOn' = [waitedOn EXCEPT ![c] = FALSE]
        /\ budget' = [budget EXCEPT ![c] = 0] /\ wakes' = wakes
    BY <1>1 DEF Decide
  <2>2. /\ cost' \in Amounts /\ charge' \in Amounts /\ phase' \in [Callers -> Phases]
        /\ \A d \in Callers : phase'[d] # "sent" =>
              phase'[d] = phase[d] /\ charge'[d] = charge[d]
        /\ Reservations'
    BY <2>1, ReservesStep
  <2>3. waitedOn' \in [Callers -> BOOLEAN] /\ budget' \in [Callers -> 0..Patience]
    BY <2>1 DEF CreditTypes
  <2>4. CreditTypes'
    BY <2>1, <2>2, <2>3 DEF CreditTypes
  <2>5. phase' = [phase EXCEPT ![c] = "sent"]
    BY <2>1 DEF Reserves
  <2>6. \A d \in Callers : /\ phase'[d] = "answered" <=> phase[d] = "answered"
                           /\ phase'[d] = "sleeping" => phase[d] = "sleeping" /\ d # c
    BY <2>5 DEF CreditTypes
  <2>7. Clocks' /\ CachesTellNothing'
    BY <2>1, <2>6 DEF CreditTypes, Clocks, CachesTellNothing
  <2>8. Counted => Counted'
    BY <2>2, <2>6, CountedIsKept DEF CreditTypes
  <2> QED
    BY <2>2, <2>4, <2>7, <2>8
<1>2. CASE ~Passes(obs, k, need)
  <2> DEFINE waits == obs.resetIn <= patience
  <2>1. /\ phase' = [phase EXCEPT ![c] = IF waits THEN "sleeping" ELSE "out"]
        /\ waitedOn' = [waitedOn EXCEPT ![c] = waits]
        /\ wakes' = [wakes EXCEPT ![c] = IF waits THEN obs.resetIn ELSE 0]
        /\ budget' = [budget EXCEPT ![c] = IF waits THEN patience ELSE 0]
        /\ cost' = [cost EXCEPT ![c] = IF waits THEN k ELSE 0]
        /\ inFlight' = inFlight /\ charge' = charge
    BY <1>2 DEF Decide
  <2>2. obs \in Observations /\ obs.resetIn \in Nat /\ waits \in BOOLEAN
    BY <1>2 DEF CreditTypes, Passes, Live, Observations
  <2>3. PICK new \in {"sleeping", "out"} :
          /\ phase' = [phase EXCEPT ![c] = new]
          /\ new = "sleeping" <=> waits
    BY <2>1
  <2>4. /\ cost' \in Amounts /\ \A d \in Callers \ {c} : cost'[d] = cost[d]
    BY <2>1 DEF CreditTypes, Amounts
  <2>5. Reservations'
    <3> DEFINE ph == {"sent", "answered"}
    <3>1. /\ phase \in [Callers -> Phases] /\ cost \in Amounts /\ new \in Phases
          /\ phase[c] \notin ph /\ new \notin ph
      BY DEF CreditTypes, Phases
    <3>2. Total(cost, At(ph))' = Total(cost, At(ph))
      BY <2>3, <2>4, <3>1, InFlightTotal
    <3> QED
      BY <2>1, <3>2 DEF Reservations
  <2>6. CreditTypes'
    <3>1. waitedOn' \in [Callers -> BOOLEAN]
      <4>1. ASSUME NEW w \in BOOLEAN
            PROVE  [waitedOn EXCEPT ![c] = w] \in [Callers -> BOOLEAN]
        BY DEF CreditTypes
      <4> QED
        BY <2>1, <2>2, <4>1, Zenon
    <3>2. /\ phase' \in [Callers -> Phases] /\ wakes' \in [Callers -> Nat]
          /\ budget' \in [Callers -> 0..Patience]
      BY <2>1, <2>2, <2>3 DEF CreditTypes, Phases
    <3> QED
      BY <2>1, <2>4, <3>1, <3>2 DEF CreditTypes
  <2>7. /\ \A d \in Callers : phase'[d] = "answered" <=> phase[d] = "answered"
        /\ \A d \in Callers \ {c} : phase'[d] = phase[d] /\ waitedOn'[d] = waitedOn[d]
                                     /\ wakes'[d] = wakes[d]
        /\ phase'[c] = "sleeping" => wakes'[c] = obs.resetIn
    BY <2>1, <2>3 DEF CreditTypes
  <2>8. Clocks' /\ CachesTellNothing'
    BY <2>7 DEF CreditTypes, Clocks, CachesTellNothing
  <2>9. Counted => Counted'
    BY <2>1, <2>7, CountedIsKept DEF CreditTypes
  <2> QED
    BY <2>5, <2>6, <2>8, <2>9
<1> QED
  BY <1>1, <1>2

\* The health probe reserves, whatever is left.
LEMMA TrackStep ==
    ASSUME CreditInv, NEW c \in Callers, Track(c) PROVE CreditInv'
<1> USE CreditNumbers DEF CreditInv
<1>1. PICK k \in 0..MaxPrice : Reserves(c, k)
  BY DEF Track
<1>2. /\ phase[c] = "out" /\ UNCHANGED <<tick, creditsLeft, obs, reserve, budget, wakes,
                                         waitedOn, answer, hidden, crossed>>
  BY DEF Track
<1>3. /\ cost' \in Amounts /\ charge' \in Amounts /\ phase' \in [Callers -> Phases]
      /\ \A d \in Callers : phase'[d] # "sent" =>
            phase'[d] = phase[d] /\ charge'[d] = charge[d]
      /\ Reservations'
  BY <1>1, <1>2, ReservesStep
<1>4. CreditTypes'
  BY <1>2, <1>3 DEF CreditTypes
<1>5. phase' = [phase EXCEPT ![c] = "sent"]
  BY <1>1 DEF Reserves
<1>6. \A d \in Callers : /\ phase'[d] = "answered" <=> phase[d] = "answered"
                         /\ phase'[d] = "sleeping" => phase[d] = "sleeping"
  BY <1>2, <1>5 DEF CreditTypes
<1>7. Clocks' /\ CachesTellNothing'
  BY <1>2, <1>6 DEF Clocks, CachesTellNothing
<1>8. Counted => Counted'
  BY <1>2, <1>3, <1>6, CountedIsKept DEF CreditTypes
<1> QED
  BY <1>2, <1>3, <1>4, <1>7, <1>8

LEMMA NextTick ==
    ASSUME NEW t \in 0..(WindowTicks - 1)
    PROVE  (t + 1) % WindowTicks = IF t + 1 = WindowTicks THEN 0 ELSE t + 1
<1>1. CASE t + 1 = WindowTicks
  BY <1>1, CreditNumbers
<1>2. CASE t + 1 < WindowTicks
  BY <1>2, CreditNumbers
<1> QED
  BY <1>1, <1>2, CreditNumbers

LEMMA TimeStep ==
    ASSUME CreditInv, TimePasses PROVE CreditInv'
<1> USE CreditNumbers DEF CreditInv
<1>0. /\ \A c \in Callers : phase[c] = "answered" => answer[c].age < MaxDelay
      /\ creditsLeft' = IF tick' = 0 THEN Quota ELSE creditsLeft
      /\ obs' = IF obs = NoObs \/ obs.resetIn = 1 THEN NoObs
                ELSE [obs EXCEPT !.resetIn = @ - 1, !.old = @ \/ tick' = 0]
      /\ answer' = [c \in Callers |-> IF phase[c] = "answered"
                       THEN [answer[c] EXCEPT !.age = @ + 1] ELSE NoAnswer]
      /\ crossed' = (crossed /\ tick' # 0)
      /\ UNCHANGED <<inFlight, cost, charge, phase, reserve, waitedOn, hidden>>
  BY Zenon DEF TimePasses
<1>1. tick' = IF tick + 1 = WindowTicks THEN 0 ELSE tick + 1
  BY NextTick DEF TimePasses, CreditTypes
<1>2. /\ wakes' = [c \in Callers |-> IF wakes[c] > 0 THEN wakes[c] - 1 ELSE 0]
      /\ budget' = [c \in Callers |-> IF budget[c] > 0 THEN budget[c] - 1 ELSE 0]
  <2>1. \A c \in Callers : wakes[c] \in Int /\ budget[c] \in Int
    BY DEF CreditTypes
  <2>2. ASSUME NEW n \in Int PROVE Max({0, n - 1}) = IF n > 0 THEN n - 1 ELSE 0
    <3>1. n - 1 \in Int
      OBVIOUS
    <3>2. Max({0, n - 1}) = IF n - 1 > 0 THEN n - 1 ELSE 0
      BY <3>1, MaxOfZero
    <3> QED
      BY <3>2
  <2> QED
    BY <2>1, <2>2 DEF TimePasses
<1>7. ASSUME obs # NoObs, obs.resetIn # 1
      PROVE  /\ obs \in Observations /\ obs' \in Observations
             /\ obs'.resetIn = obs.resetIn - 1 /\ obs'.remaining = obs.remaining
             /\ obs'.old <=> obs.old \/ tick' = 0
  <2>1. obs \in Observations /\ obs.resetIn - 1 \in Nat \ {0}
    BY <1>7 DEF CreditTypes, Observations
  <2>2. ASSUME NEW n \in Nat \ {0}, NEW b \in BOOLEAN,
               obs' = [obs EXCEPT !.resetIn = n, !.old = b]
        PROVE  /\ obs' \in Observations /\ obs'.resetIn = n /\ obs'.old = b
               /\ obs'.remaining = obs.remaining
    BY <2>1, <2>2 DEF Observations
  <2>3. obs' = [obs EXCEPT !.resetIn = obs.resetIn - 1, !.old = obs.old \/ tick' = 0]
    BY <1>0, <1>7
  <2>4. (obs.old \/ tick' = 0) \in BOOLEAN
    OBVIOUS
  <2> QED
    BY <2>1, <2>2, <2>3, <2>4, Zenon
<1>3. CreditTypes'
  <2>1. tick' \in 0..(WindowTicks - 1) /\ creditsLeft' \in 0..Quota
    BY <1>0, <1>1 DEF CreditTypes
  <2>2. obs' \in Observations \cup {NoObs}
    BY <1>0, <1>7
  <2>3. wakes' \in [Callers -> Nat] /\ budget' \in [Callers -> 0..Patience]
    BY <1>2 DEF CreditTypes
  <2>4. answer' \in [Callers -> AnswersSet]
    <3>1. NoAnswer \in AnswersSet
      BY DEF AnswersSet, NoAnswer
    <3>2. ASSUME NEW c \in Callers, phase[c] = "answered"
          PROVE  [answer[c] EXCEPT !.age = @ + 1] \in AnswersSet
      <4>1. answer[c] \in AnswersSet /\ answer[c].age + 1 \in 0..MaxDelay
        BY <1>0, <3>2 DEF CreditTypes, AnswersSet
      <4> QED
        BY <4>1 DEF AnswersSet
    <3> QED
      BY <1>0, <3>1, <3>2
  <2>5. crossed' \in BOOLEAN
    BY <1>0
  <2> QED
    BY <1>0, <2>1, <2>2, <2>3, <2>4, <2>5 DEF CreditTypes
<1>4. Reservations'
  BY <1>0 DEF Reservations, At
<1>5. Clocks'
  <2>1. \A c \in Callers : phase'[c] = "answered" =>
          /\ answer[c] \in AnswersSet
          /\ answer[c].status # 0 /\ answer[c].reset > 0
          /\ answer[c].age <= tick =>
               answer[c].reset = WindowTicks - tick + answer[c].age
          /\ answer'[c] = [answer[c] EXCEPT !.age = @ + 1]
    BY <1>0 DEF CreditTypes, Clocks
  <2>2. \A c \in Callers : phase'[c] = "answered" =>
          /\ answer'[c].status # 0 /\ answer'[c].reset > 0
          /\ answer'[c].age <= tick' =>
               answer'[c].reset = WindowTicks - tick' + answer'[c].age
    <3> SUFFICES ASSUME NEW c \in Callers, phase'[c] = "answered"
                 PROVE  /\ answer'[c].status # 0 /\ answer'[c].reset > 0
                        /\ answer'[c].age <= tick' =>
                             answer'[c].reset = WindowTicks - tick' + answer'[c].age
      OBVIOUS
    <3>0. /\ answer[c] \in AnswersSet
          /\ answer[c].status # 0 /\ answer[c].reset > 0
          /\ answer[c].age <= tick =>
               answer[c].reset = WindowTicks - tick + answer[c].age
          /\ answer'[c] = [answer[c] EXCEPT !.age = @ + 1]
      BY <2>1, Zenon
    <3>1. /\ answer'[c].status = answer[c].status /\ answer'[c].reset = answer[c].reset
          /\ answer'[c].age = answer[c].age + 1
          /\ answer[c].age \in Nat /\ answer[c].reset \in Nat /\ tick \in Nat
      BY <3>0 DEF CreditTypes, AnswersSet
    <3> QED
      BY <1>1, <3>0, <3>1 DEF CreditTypes
  <2>3. Live(obs') => /\ Live(obs) /\ obs \in Observations /\ obs.resetIn > 1
                      /\ obs'.resetIn = obs.resetIn - 1
                      /\ ~obs'.old => ~obs.old /\ tick' # 0
    <3> SUFFICES ASSUME Live(obs') PROVE Live(obs) /\ obs.resetIn # 1
      BY <1>7 DEF Live, Observations
    <3> QED
      BY <1>0 DEF Live
  <2>4. Live(obs') /\ ~obs'.old => obs'.resetIn >= WindowTicks - tick'
    BY <1>1, <2>3 DEF CreditTypes, Clocks, Observations
  <2>5. \A c \in Callers : phase'[c] = "sleeping" /\ waitedOn'[c] /\ Live(obs') =>
          wakes'[c] = obs'.resetIn
    BY <1>0, <1>2, <2>3 DEF CreditTypes, Clocks, Observations
  <2> QED
    BY <2>2, <2>4, <2>5 DEF Clocks
<1>8. CachesTellNothing'
  BY <1>0 DEF CachesTellNothing, CreditTypes, AnswersSet
<1>6. ~hidden' /\ ~crossed' => Counted'
  <2> SUFFICES ASSUME ~hidden', ~crossed' PROVE Counted'
    OBVIOUS
  <2>1. CASE tick' = 0
    <3>1. Current' = {}
      BY <1>0, <2>1 DEF CreditTypes, Current, AnswersSet
    <3>2. ~Live(obs') \/ obs'.old
      BY <1>0, <2>1 DEF CreditTypes, Live, Observations
    <3>3. Total(charge', {}) = 0
      BY NothingInTotal
    <3> QED
      BY <1>0, <2>1, <3>1, <3>2, <3>3 DEF Counted
  <2>2. CASE tick' # 0
    <3>1. tick' = tick + 1 /\ creditsLeft' = creditsLeft
      BY <1>0, <1>1, <2>2
    <3>2. /\ Current' = Current
          /\ \A c \in Current : answer'[c].remaining = answer[c].remaining
      BY <1>0, <3>1 DEF CreditTypes, Current, AnswersSet
    <3>3. /\ Total(charge, Current)' = Total(charge, Current)
          /\ \A v : Covered(v)' <=> Covered(v)
      <4>1. \A v : Below(v)' = Below(v)
        BY <3>2 DEF Below
      <4>2. charge' = charge
        BY <1>0
      <4>3. \A v : Total(charge, Below(v))' = Total(charge, Below(v))
        BY <4>1, <4>2
      <4>4. Total(charge, Current)' = Total(charge, Current)
        BY <3>2, <4>2
      <4> QED
        BY <3>1, <4>3, <4>4 DEF Covered
    <3>4. Counted
      BY <1>0, <2>2 DEF CreditTypes
    <3>5. CASE Live(obs) /\ ~obs.old
      <4>1. Live(obs') /\ ~obs'.old /\ obs'.remaining = obs.remaining
        <5>1. /\ obs \in Observations /\ obs.resetIn >= WindowTicks - tick
              /\ tick + 1 <= WindowTicks - 1
          BY <1>1, <2>2, <3>5 DEF CreditTypes, Live, Clocks
        <5>2. obs # NoObs /\ obs.resetIn # 1
          BY <5>1, <3>5 DEF Live, Observations, CreditTypes
        <5> QED
          BY <1>7, <2>2, <3>5, <5>2 DEF Live
      <4> QED
        BY <3>1, <3>2, <3>3, <3>4, <3>5, <4>1 DEF Counted
    <3>6. CASE ~(Live(obs) /\ ~obs.old)
      <4>1. ~(Live(obs') /\ ~obs'.old)
        BY <1>0, <3>6 DEF CreditTypes, Live, Observations
      <4> QED
        BY <3>1, <3>2, <3>3, <3>4, <3>6, <4>1 DEF Counted
    <3> QED
      BY <3>5, <3>6
  <2> QED
    BY <2>1, <2>2
<1> QED
  BY <1>3, <1>4, <1>5, <1>6, <1>8

\* The venue answers one request.
LEMMA AnswersStep ==
    ASSUME CreditInv, NEW c \in Callers, Answers(c) PROVE CreditInv'
<1> USE CreditNumbers DEF CreditInv
<1>0. PICK code \in {200, 304, 429}, told \in BOOLEAN :
        LET left == IF code = 200 THEN creditsLeft - charge[c] ELSE creditsLeft IN
        /\ code = 200 => creditsLeft >= charge[c]
        /\ code = 304 => ~told
        /\ code = 429 => creditsLeft < charge[c]
        /\ creditsLeft' = left
        /\ charge' = [charge EXCEPT ![c] = IF code = 200 THEN @ ELSE 0]
        /\ answer' = [answer EXCEPT ![c] = [status |-> code, told |-> told,
                          remaining |-> left, reset |-> Reset, age |-> 0]]
  BY DEF Answers
<1>9. charge \in Amounts /\ charge[c] \in Nat /\ charge[c] <= MaxPrice
  BY DEF CreditTypes, Amounts
<1>8. PICK after \in Nat : creditsLeft' = after
  <2>1. creditsLeft' \in Nat
    BY <1>0, <1>9 DEF CreditTypes
  <2> QED
    BY <2>1
<1>1. /\ after = IF code = 200 THEN creditsLeft - charge[c] ELSE creditsLeft
      /\ creditsLeft' = after
      /\ answer' = [answer EXCEPT ![c] = [status |-> code, told |-> told,
                       remaining |-> after, reset |-> WindowTicks - tick, age |-> 0]]
  <2>1. creditsLeft' = IF code = 200 THEN creditsLeft - charge[c] ELSE creditsLeft
    BY <1>0
  <2>2. answer' = [answer EXCEPT ![c] = [status |-> code, told |-> told,
                      remaining |-> after, reset |-> WindowTicks - tick, age |-> 0]]
    <3>1. CASE code = 200
      BY <1>0, <1>8, <3>1 DEF Reset
    <3>2. CASE code # 200
      BY <1>0, <1>8, <3>2 DEF Reset
    <3> QED
      BY <3>1, <3>2
  <2> QED
    BY <1>8, <2>1, <2>2
<1>2. /\ phase[c] = "sent" /\ phase' = [phase EXCEPT ![c] = "answered"]
      /\ UNCHANGED <<tick, obs, inFlight, cost, reserve, budget, wakes, waitedOn,
                     hidden, crossed>>
  BY DEF Answers
<1>3. after \in 0..Quota /\ after <= creditsLeft
  BY <1>1, <1>9 DEF CreditTypes
<1>10. /\ charge' \in Amounts /\ \A d \in Callers \ {c} : charge'[d] = charge[d]
       /\ code = 200 => charge' = charge
  <2>1. charge' = [charge EXCEPT ![c] = IF code = 200 THEN charge[c] ELSE 0]
    BY <1>0
  <2>2. (IF code = 200 THEN charge[c] ELSE 0) \in 0..MaxPrice
    BY <1>9
  <2>3. \A n \in 0..MaxPrice : [charge EXCEPT ![c] = n] \in Amounts
    BY <1>9 DEF Amounts
  <2>4. charge' \in Amounts /\ \A d \in Callers \ {c} : charge'[d] = charge[d]
    BY <1>9, <2>1, <2>2, <2>3 DEF Amounts
  <2>5. code = 200 => charge' = charge
    BY <1>9, <2>1 DEF Amounts
  <2> QED
    BY <2>4, <2>5
<1>4. CreditTypes'
  <2>1. [status |-> code, told |-> told, remaining |-> after,
         reset |-> WindowTicks - tick, age |-> 0] \in AnswersSet
    BY <1>3 DEF AnswersSet, CreditTypes
  <2>2. answer' \in [Callers -> AnswersSet] /\ phase' \in [Callers -> Phases]
    BY <1>1, <1>2, <2>1 DEF CreditTypes, Phases
  <2> QED
    BY <1>1, <1>2, <1>3, <1>10, <2>2 DEF CreditTypes
<1>5. Reservations'
  <2>1. At({"sent", "answered"})' = At({"sent", "answered"})
    BY <1>2 DEF At, CreditTypes
  <2> QED
    BY <1>2, <2>1 DEF Reservations, Total
<1>6. Clocks'
  BY <1>1, <1>2 DEF Clocks, CreditTypes
<1>11. CachesTellNothing'
  <2>1. \A d \in Callers \ {c} : phase'[d] = phase[d] /\ answer'[d] = answer[d]
    BY <1>1, <1>2 DEF CreditTypes
  <2>2. answer'[c].told = told /\ answer'[c].status = code
    BY <1>1 DEF CreditTypes
  <2> QED
    BY <1>0, <2>1, <2>2 DEF CachesTellNothing
<1>7. ~hidden' /\ ~crossed' => Counted'
  <2> SUFFICES ASSUME Counted PROVE Counted'
    BY <1>2
  <2>1. \A d \in Current : d # c /\ answer'[d] = answer[d] /\ answer[d].remaining \in Nat
    BY <1>1, <1>2 DEF Current, CreditTypes, AnswersSet
  <2>2. CASE code # 200
    <3>1. Current' = Current
      BY <1>1, <1>2, <2>2 DEF Current, CreditTypes
    <3>2. ASSUME NEW v PROVE Covered(v)' <=> Covered(v)
      <4>1. Below(v)' = Below(v)
        BY <2>1, <3>1 DEF Below
      <4>2. \A d \in Below(v) : charge'[d] = charge[d]
        BY <1>10, <2>1, BelowIsNat
      <4>3. Total(charge', Below(v)) = Total(charge, Below(v))
        BY <4>2, TotalSame
      <4>4. creditsLeft' = creditsLeft
        BY <1>1, <2>2
      <4> QED
        BY <4>1, <4>3, <4>4 DEF Covered
    <3>3. Total(charge, Current)' = Total(charge, Current)
      <4>1. \A d \in Current : charge'[d] = charge[d]
        BY <1>10, <2>1, BelowIsNat
      <4>2. Total(charge', Current) = Total(charge, Current)
        BY <4>1, TotalSame
      <4> QED
        BY <3>1, <4>2
    <3>4. creditsLeft' = creditsLeft
      BY <1>1, <2>2
    <3> QED
      BY <1>2, <2>1, <3>1, <3>2, <3>3, <3>4 DEF Counted
  <2>3. CASE code = 200
    <3>1. Current' = Current \cup {c} /\ c \notin Current
      BY <1>1, <1>2, <2>3 DEF Current, CreditTypes
    <3>2. /\ answer'[c].remaining = after /\ after = creditsLeft - charge[c]
          /\ charge' = charge
      BY <1>1, <1>10, <2>3 DEF CreditTypes
    <3>3. Total(charge, Current)' = Total(charge, Current) + charge[c]
      <4>1. Total(charge, Current \cup {c}) = Total(charge, Current) + charge[c]
        BY <1>9, <3>1, BelowIsNat, TotalWith
      <4> QED
        BY <3>1, <3>2, <4>1
    <3>4. ASSUME NEW v \in Nat, Covered(v) PROVE Covered(v)'
      <4>1. CASE after < v
        <5>1. Below(v)' = Below(v) \cup {c} /\ c \notin Below(v)
          BY <2>1, <3>1, <3>2, <4>1 DEF Below
        <5>2. Total(charge, Below(v) \cup {c}) = Total(charge, Below(v)) + charge[c]
          BY <1>9, <5>1, BelowIsNat, TotalWith
        <5>3. Total(charge, Below(v))' = Total(charge, Below(v)) + charge[c]
          BY <3>2, <5>1, <5>2
        <5> QED
          BY <1>1, <1>9, <3>2, <3>4, <5>3, BelowIsNat DEF Covered, CreditTypes
      <4>2. CASE v <= after
        <5>1. Below(v)' = Below(v)
          BY <2>1, <3>1, <3>2, <4>2 DEF Below
        <5>2. Total(charge, Below(v))' = Total(charge, Below(v))
          BY <3>2, <5>1
        <5> QED
          BY <1>1, <4>2, <5>2, BelowIsNat DEF Covered
      <4> QED
        BY <4>1, <4>2
    <3>5. Covered(after)'
      <4>1. Below(after)' = Below(after)
        BY <2>1, <3>1, <3>2 DEF Below
      <4>2. Total(charge, Below(after))' = Total(charge, Below(after))
        BY <3>2, <4>1
      <4> QED
        BY <1>1, <4>2, BelowIsNat DEF Covered
    <3>6. CASE Live(obs) /\ ~obs.old
      <4>1. Covered(obs.remaining)'
        BY <1>2, <3>4, <3>6 DEF Counted, CreditTypes, Live, Observations
      <4>2. \A d \in Current : \/ Covered(answer[d].remaining)'
                               \/ obs.remaining < answer[d].remaining
        BY <2>1, <3>4, <3>6 DEF Counted
      <4>3. \A d \in Current' : \/ Covered(answer[d].remaining)'
                                \/ obs.remaining < answer'[d].remaining
        BY <2>1, <3>1, <3>2, <3>5, <4>2
      <4> QED
        BY <1>2, <3>6, <4>1, <4>3 DEF Counted
    <3>7. CASE ~Live(obs) \/ obs.old
      <4>1. \A d \in Current : Covered(answer[d].remaining)'
        BY <2>1, <3>4, <3>7 DEF Counted
      <4>2. \A d \in Current' : Covered(answer[d].remaining)'
        BY <2>1, <3>1, <3>2, <3>5, <4>1
      <4>3. Quota <= creditsLeft' + Total(charge, Current)'
        BY <1>1, <1>9, <3>2, <3>3, <3>7, BelowIsNat DEF Counted, CreditTypes
      <4> QED
        BY <1>2, <3>7, <4>2, <4>3 DEF Counted
    <3> QED
      BY <3>6, <3>7
  <2> QED
    BY <1>1, <2>2, <2>3
<1> QED
  BY <1>4, <1>5, <1>6, <1>7, <1>11

\* A request that leaves the flight gives its reservation back.
LEMMA ReleaseStep ==
    ASSUME CreditTypes, Reservations, NEW c \in Callers, phase[c] \in {"sent", "answered"},
           Releases(c)
    PROVE  /\ Reservations' /\ phase' \in [Callers -> Phases]
           /\ cost' \in Amounts /\ charge' \in Amounts /\ answer' \in [Callers -> AnswersSet]
           /\ \A d \in Callers \ {c} :
                 phase'[d] = phase[d] /\ charge'[d] = charge[d] /\ answer'[d] = answer[d]
           /\ phase'[c] = "out"
<1> DEFINE ph == {"sent", "answered"}
<1> USE CreditNumbers DEF Releases
<1>1. /\ phase \in [Callers -> Phases] /\ "out" \in Phases /\ "out" \notin ph
      /\ cost \in Amounts /\ cost[c] \in Nat
  BY DEF CreditTypes, Phases, Amounts
<1>2. /\ cost' \in Amounts /\ \A d \in Callers \ {c} : cost'[d] = cost[d]
  BY <1>1 DEF Amounts
<1>3. Total(cost, At(ph))' = Total(cost, At(ph)) - cost[c]
  BY <1>1, <1>2, InFlightTotal
<1>4. Reservations'
  BY <1>3 DEF Reservations
<1>5. NoAnswer \in AnswersSet
  BY DEF AnswersSet, NoAnswer
<1>6. /\ phase' \in [Callers -> Phases] /\ charge' \in Amounts
      /\ answer' \in [Callers -> AnswersSet]
  BY <1>1, <1>5 DEF CreditTypes, Amounts
<1>7. /\ \A d \in Callers \ {c} :
            phase'[d] = phase[d] /\ charge'[d] = charge[d] /\ answer'[d] = answer[d]
      /\ phase'[c] = "out"
  BY DEF CreditTypes, Amounts
<1> QED
  BY <1>2, <1>4, <1>6, <1>7

\* A caller takes its answer: what the limiter then believes is covered, unless
\* the answer crossed the venue's refresh.
LEMMA SettleStep ==
    ASSUME CreditInv, NEW c \in Callers, Settle(c) PROVE CreditInv'
<1> USE CreditNumbers DEF CreditInv
<1> DEFINE a == answer[c]
           r == IF a.status = 429 THEN 0 ELSE a.remaining
           taken == a.told /\ (a.status = 429 \/ ~Outdated(obs, r))
           o == [remaining |-> r, resetIn |-> ResetIn(a), old |-> IsOld(a)]
<1>1. /\ phase[c] = "answered" /\ Releases(c) /\ phase' = [phase EXCEPT ![c] = "out"]
      /\ answer' = [answer EXCEPT ![c] = NoAnswer]
      /\ UNCHANGED <<tick, creditsLeft, reserve, budget, wakes>>
  BY DEF Settle, Releases
<1>12. hidden' = (hidden \/ (a.status = 200 /\ ~a.told))
  BY Zenon DEF Settle
<1>13. /\ Reservations' /\ phase' \in [Callers -> Phases]
       /\ cost' \in Amounts /\ charge' \in Amounts /\ answer' \in [Callers -> AnswersSet]
       /\ \A d \in Callers \ {c} :
             phase'[d] = phase[d] /\ charge'[d] = charge[d] /\ answer'[d] = answer[d]
       /\ phase'[c] = "out"
  BY <1>1, ReleaseStep
<1>2. IF taken THEN obs' = o /\ waitedOn' = [d \in Callers |-> FALSE]
               ELSE UNCHANGED <<obs, waitedOn>>
  BY DEF Settle, Observed
<1>3. crossed' = \/ crossed
                 \/ /\ Live(obs) /\ a.told
                    /\ taken = IsOld(a) /\ obs.old # IsOld(a)
  BY Zenon DEF Settle
<1>4. /\ a \in AnswersSet /\ a.status # 0 /\ a.reset > 0
      /\ a.told => a.status # 304
      /\ ~IsOld(a) => a.reset = WindowTicks - tick + a.age
  BY <1>1 DEF CreditTypes, Clocks, CachesTellNothing, IsOld, AnswersSet
<1>5. IsOld(a) \in BOOLEAN /\ r \in 0..Quota /\ ResetIn(a) \in Nat \ {0}
  BY <1>4 DEF IsOld, ResetIn, AnswersSet
<1>6. o \in Observations
  BY <1>5 DEF Observations
<1>7. /\ o.remaining = r /\ o.resetIn = ResetIn(a) /\ o.old = IsOld(a)
      /\ o # NoObs
  BY <1>6
<1> HIDE DEF o
<1>8. CreditTypes'
  <2>1. obs' \in Observations \cup {NoObs} /\ waitedOn' \in [Callers -> BOOLEAN]
    <3>1. CASE taken
      <4>1. [d \in Callers |-> FALSE] \in [Callers -> BOOLEAN]
        OBVIOUS
      <4>2. obs' = o /\ waitedOn' = [d \in Callers |-> FALSE]
        BY <1>2, <3>1
      <4> QED
        BY <1>6, <4>1, <4>2, Zenon
    <3>2. CASE ~taken
      BY <1>2, <3>2 DEF CreditTypes
    <3> QED
      BY <3>1, <3>2
  <2>2. crossed' \in BOOLEAN /\ hidden' \in BOOLEAN
    BY <1>3, <1>12
  <2> QED
    BY <1>1, <1>13, <2>1, <2>2 DEF CreditTypes
<1>9. Reservations' /\ CachesTellNothing'
  <2>1. \A d \in Callers : phase'[d] = "answered" =>
          phase[d] = "answered" /\ answer'[d] = answer[d]
    BY <1>13
  <2> QED
    BY <1>13, <2>1 DEF CachesTellNothing
<1>10. Clocks'
  <2>1. \A d \in Callers : phase'[d] = "answered" =>
          d # c /\ phase[d] = "answered" /\ answer'[d] = answer[d]
    BY <1>1 DEF CreditTypes
  <2>2. \A d \in Callers : phase'[d] = "answered" =>
          /\ answer'[d].status # 0 /\ answer'[d].reset > 0
          /\ answer'[d].age <= tick => answer'[d].reset = WindowTicks - tick + answer'[d].age
    BY <2>1 DEF Clocks
  <2>3. ~IsOld(a) => ResetIn(a) >= WindowTicks - tick
    BY <1>4 DEF ResetIn, AnswersSet, CreditTypes
  <2>4. Live(obs') /\ ~obs'.old => obs'.resetIn >= WindowTicks - tick
    <3>1. CASE taken
      BY <1>2, <1>7, <2>3, <3>1
    <3>2. CASE ~taken
      BY <1>2, <3>2 DEF Clocks
    <3> QED
      BY <3>1, <3>2
  <2>5. \A d \in Callers : phase'[d] = "sleeping" /\ waitedOn'[d] /\ Live(obs') =>
          wakes[d] = obs'.resetIn
    <3>1. CASE taken
      BY <1>2, <3>1
    <3>2. CASE ~taken
      BY <1>1, <1>2, <3>2 DEF Clocks, CreditTypes
    <3> QED
      BY <3>1, <3>2
  <2> QED
    BY <1>1, <2>2, <2>4, <2>5 DEF Clocks
<1>11. ~hidden' /\ ~crossed' => Counted'
  <2> SUFFICES ASSUME ~hidden, ~crossed, ~crossed', a.status = 200 => a.told
               PROVE Counted'
    BY <1>3, <1>12
  <2>1. Counted
    OBVIOUS
  <2>2. Current' = Current \ {c}
    BY <1>1 DEF Current, CreditTypes
  <2>3. \A d \in Current' : answer'[d] = answer[d] /\ answer[d].remaining \in Nat
    BY <1>1 DEF Current, CreditTypes, AnswersSet
  <2>4. c \in Current <=> a.status = 200 /\ ~IsOld(a)
    BY <1>1, <1>4 DEF Current, IsOld, AnswersSet, CreditTypes
  <2>5. ASSUME NEW v \in Int, c \in Current => v <= a.remaining, Covered(v)
        PROVE  Covered(v)'
    <3>1. Below(v)' = Below(v) /\ c \notin Below(v)
      BY <1>4, <2>2, <2>3, <2>5 DEF Below, AnswersSet
    <3>2. \A d \in Below(v) : charge'[d] = charge[d]
      BY <1>13, <3>1, BelowIsNat
    <3>3. Total(charge', Below(v)) = Total(charge, Below(v))
      BY <3>2, TotalSame
    <3> QED
      BY <1>1, <2>5, <3>1, <3>3 DEF Covered
  <2>10. c \notin Current => Total(charge, Current)' = Total(charge, Current)
    <3> SUFFICES ASSUME c \notin Current PROVE Total(charge, Current)' = Total(charge, Current)
      OBVIOUS
    <3>1. \A d \in Current : charge'[d] = charge[d]
      BY <1>13, BelowIsNat
    <3>2. Total(charge', Current) = Total(charge, Current)
      BY <3>1, TotalSame
    <3>3. Current' = Current
      BY <2>2
    <3> QED
      BY <3>2, <3>3
  <2>6. ASSUME obs' = obs, c \in Current => Live(obs) /\ ~obs.old /\ obs.remaining < r
        PROVE  Counted'
    <3>1. \A d \in Current' : Covered(answer[d].remaining) =>
            \/ Covered(answer[d].remaining)'
            \/ c \in Current /\ a.remaining < answer[d].remaining
      BY <1>4, <2>3, <2>5 DEF AnswersSet
    <3>2. CASE Live(obs) /\ ~obs.old
      <4>1. obs.remaining \in Int /\ (c \in Current => obs.remaining < a.remaining)
        BY <2>4, <2>6, <3>2 DEF CreditTypes, Live, Observations
      <4>2. Covered(obs.remaining)'
        BY <1>4, <2>1, <2>5, <2>6, <3>2, <4>1 DEF Counted, AnswersSet
      <4>3. \A d \in Current' : \/ Covered(answer[d].remaining)'
                                \/ obs.remaining < answer'[d].remaining
        BY <1>4, <2>1, <2>2, <2>3, <3>1, <3>2, <4>1 DEF Counted, AnswersSet
      <4> QED
        BY <2>6, <3>2, <4>2, <4>3 DEF Counted
    <3>3. CASE ~(Live(obs) /\ ~obs.old)
      <4>1. c \notin Current /\ Current' = Current
        BY <2>2, <2>6, <3>3
      <4>2. \A d \in Current' : Covered(answer[d].remaining)'
        BY <2>1, <3>1, <3>3, <4>1 DEF Counted
      <4>3. Total(charge, Current)' = Total(charge, Current)
        BY <2>10, <4>1
      <4> QED
        BY <1>1, <2>1, <2>3, <2>6, <3>3, <4>1, <4>2, <4>3 DEF Counted
    <3> QED
      BY <3>2, <3>3
  <2>7. CASE ~taken
    <3>1. obs' = obs
      BY <1>2, <2>7
    <3>2. c \in Current => Live(obs) /\ obs.remaining < r
      BY <1>5, <2>4, <2>7 DEF Outdated, CreditTypes, Live, Observations
    <3>3. c \in Current => ~(obs.old # IsOld(a))
      BY <1>3, <1>5, <2>4, <2>7, <3>2
    <3>4. Live(obs) => obs.old \in BOOLEAN
      BY DEF CreditTypes, Live, Observations
    <3> QED
      BY <1>5, <2>4, <2>6, <3>1, <3>2, <3>3, <3>4
  <2>8. CASE taken /\ IsOld(a)
    <3>1. obs' = o /\ Live(o) /\ o.old
      BY <1>2, <1>7, <2>8 DEF Live
    <3>5. a.told
      BY <2>8
    <3>2. ~(Live(obs) /\ ~obs.old)
      <4> SUFFICES ASSUME Live(obs), ~obs.old PROVE FALSE
        OBVIOUS
      <4>1. taken = IsOld(a) /\ obs.old # IsOld(a)
        BY <2>8, Zenon
      <4> QED
        BY <1>3, <3>5, <4>1
    <3>3. c \notin Current /\ Current' = Current
      BY <2>2, <2>4, <2>8
    <3>4. \A d \in Current' : Covered(answer[d].remaining)'
      BY <2>1, <2>3, <2>5, <3>2, <3>3 DEF Counted
    <3> QED
      BY <1>1, <2>1, <2>3, <2>10, <3>1, <3>2, <3>3, <3>4 DEF Counted
  <2>9. CASE taken /\ ~IsOld(a)
    <3>1. obs' = o /\ Live(o) /\ ~o.old /\ o.remaining = r /\ r \in 0..Quota
      BY <1>2, <1>5, <1>7, <2>9 DEF Live
    <3>2. /\ Covered(r)
          /\ \A d \in Current : Covered(answer[d].remaining) \/ r < answer[d].remaining
      <4>1. \A d \in Current : answer[d].remaining \in Nat
        BY DEF Current, CreditTypes, AnswersSet
      <4>2. CASE a.status = 429
        <5>1. Covered(0)
          BY BelowIsNat DEF Covered, CreditTypes
        <5> QED
          BY <4>1, <4>2, <5>1
      <4>3. CASE a.status # 429
        <5>1. c \in Current /\ r = a.remaining /\ (Live(obs) => r <= obs.remaining)
          BY <1>4, <1>5, <2>4, <2>9, <4>3 DEF Outdated, CreditTypes, Live, Observations,
             AnswersSet
        <5>2. CASE Live(obs) /\ ~obs.old
          <6>1. obs.remaining \in Nat
            BY <5>2 DEF CreditTypes, Live, Observations
          <6> QED
            BY <1>5, <2>1, <4>1, <5>1, <5>2, <6>1 DEF Counted
        <5>3. CASE ~(Live(obs) /\ ~obs.old)
          BY <2>1, <5>1, <5>3 DEF Counted
        <5> QED
          BY <5>2, <5>3
      <4> QED
        BY <4>2, <4>3
    <3>3. c \in Current => r = a.remaining
      BY <2>4
    <3>4. Covered(obs.remaining)'
      <4>1. obs'.remaining = r /\ r \in Int /\ (c \in Current => r <= a.remaining)
        BY <3>1, <3>3
      <4> QED
        BY <2>5, <3>2, <4>1
    <3>5. \A d \in Current' : Covered(answer[d].remaining)' \/ r < answer'[d].remaining
      BY <1>4, <2>2, <2>3, <2>5, <3>1, <3>2, <3>3 DEF AnswersSet
    <3> QED
      BY <3>1, <3>4, <3>5 DEF Counted
  <2> QED
    BY <1>5, <2>7, <2>8, <2>9
<1> QED
  BY <1>8, <1>9, <1>10, <1>11

\* A failure in transport is the end of what the limiter can know.
LEMMA FailStep ==
    ASSUME CreditInv, NEW c \in Callers, TransportFails(c) PROVE CreditInv'
<1> USE CreditNumbers DEF CreditInv
<1>1. /\ phase[c] \in {"sent", "answered"} /\ Releases(c) /\ hidden' = TRUE
      /\ UNCHANGED <<tick, obs, reserve, budget, wakes, waitedOn, crossed>>
  BY DEF TransportFails
<1>2. creditsLeft' \in 0..Quota
  BY DEF TransportFails, CreditTypes, Amounts
<1>3. /\ Reservations' /\ phase' \in [Callers -> Phases]
      /\ cost' \in Amounts /\ charge' \in Amounts /\ answer' \in [Callers -> AnswersSet]
      /\ \A d \in Callers \ {c} :
            phase'[d] = phase[d] /\ charge'[d] = charge[d] /\ answer'[d] = answer[d]
      /\ phase'[c] = "out"
  BY <1>1, ReleaseStep
<1>4. CreditTypes'
  BY <1>1, <1>2, <1>3 DEF CreditTypes
<1>5. Clocks' /\ CachesTellNothing'
  <2>1. \A d \in Callers :
          /\ phase'[d] = "answered" => phase[d] = "answered" /\ answer'[d] = answer[d]
          /\ phase'[d] = "sleeping" => phase[d] = "sleeping"
    BY <1>3
  <2> QED
    BY <1>1, <2>1 DEF Clocks, CachesTellNothing
<1> QED
  BY <1>1, <1>3, <1>4, <1>5

LEMMA CreditStep == CreditInv /\ [CreditNext]_creditVars => CreditInv'
<1> SUFFICES ASSUME CreditInv, [CreditNext]_creditVars PROVE CreditInv'
  OBVIOUS
<1>1. ASSUME NEW c \in Callers, AcquireCredits(c) PROVE CreditInv'
  <2>1. PICK k \in Costs, need \in {0, Reserve}, patience \in {0, Patience} :
          Decide(c, obs, patience, k, need)
    BY <1>1 DEF AcquireCredits
  <2>2. patience \in 0..Patience /\ k \in 0..MaxPrice
    BY CreditNumbers
  <2>3. /\ phase[c] = "out" /\ obs' = obs
        /\ UNCHANGED <<tick, creditsLeft, answer, hidden, crossed>>
    BY <1>1 DEF AcquireCredits
  <2> QED
    BY <2>1, <2>2, <2>3, DecideStep DEF CreditInv
<1>2. ASSUME NEW c \in Callers, Wake(c) PROVE CreditInv'
  <2>1. obs' = obs
    BY <1>2, WakeKeepsObs DEF CreditInv
  <2>2. Decide(c, obs, budget[c], cost[c], reserve[c])
    <3>1. Decide(c, obs', budget[c], cost[c], reserve[c])
      BY <1>2, Zenon DEF Wake
    <3> QED
      BY <2>1, <3>1
  <2>3. /\ phase[c] = "sleeping" /\ budget[c] \in 0..Patience /\ cost[c] \in 0..MaxPrice
        /\ UNCHANGED <<tick, creditsLeft, answer, hidden, crossed>>
    BY <1>2 DEF Wake, CreditInv, CreditTypes, Amounts
  <2> QED
    BY <2>1, <2>2, <2>3, DecideStep DEF CreditInv
<1>8. ASSUME NEW c \in Callers, Track(c) PROVE CreditInv'
  BY <1>8, TrackStep
<1>3. ASSUME TimePasses PROVE CreditInv'
  BY <1>3, TimeStep
<1>4. ASSUME NEW c \in Callers, Settle(c) PROVE CreditInv'
  BY <1>4, SettleStep
<1>5. ASSUME NEW c \in Callers, TransportFails(c) PROVE CreditInv'
  BY <1>5, FailStep
<1>6. ASSUME NEW c \in Callers, Answers(c) PROVE CreditInv'
  BY <1>6, AnswersStep
<1>7. CASE UNCHANGED creditVars
  <2>1. /\ Current' = Current /\ At({"sent", "answered"})' = At({"sent", "answered"})
    BY <1>7 DEF creditVars, Current, At
  <2>2. \A v : Below(v)' = Below(v)
    BY <1>7, <2>1 DEF creditVars, Below
  <2>3. CreditTypes' /\ Clocks' /\ CachesTellNothing'
    BY <1>7 DEF creditVars, CreditInv, CreditTypes, Clocks, CachesTellNothing
  <2>4. Reservations' /\ (Counted => Counted')
    BY <1>7, <2>1, <2>2 DEF creditVars, CreditInv, Reservations, Total, Counted, Covered
  <2> QED
    BY <1>7, <2>3, <2>4 DEF creditVars, CreditInv
<1> QED
  BY <1>1, <1>2, <1>3, <1>4, <1>5, <1>6, <1>7, <1>8 DEF CreditNext

\* What PacificaRateLimiter was told is left is no more than what is left and what the
\* requests took whose answers are on their way; and when no request in flight costs
\* more than was reserved for it, the limiter believes no more to be left than what will
\* be left once the venue has them all: for any quota, costs, prices, window, delay and
\* number of requests, unless the limiter hears nothing of a request, or an answer of the
\* venue's current window was given up for what an earlier window's had said.
THEOREM CreditsSuffice == CreditSpec => []EstimateIsSafe
<1>1. CreditInv => EstimateIsSafe
  <2> SUFFICES ASSUME CreditInv PROVE EstimateIsSafe
    OBVIOUS
  <2> USE CreditNumbers DEF CreditInv
  <2> DEFINE mid == At({"sent"})
             back == At({"answered"})
  <2>1. CreditTypeOK
    BY DEF CreditTypes, Reservations, CreditTypeOK, Observations
  <2>2. /\ mid \subseteq Callers /\ back \subseteq Callers
        /\ At({"sent", "answered"}) = mid \cup back /\ mid \cap back = {}
        /\ Current \subseteq back /\ \A v : Below(v) \subseteq back
    BY DEF At, Current, Below
  <2>3. cost \in Amounts /\ charge \in Amounts /\ creditsLeft \in Nat
    BY DEF CreditTypes
  <2> HIDE DEF mid, back
  <2>4. /\ Total(charge, back) \in Nat /\ Total(charge, mid) \in Nat
        /\ Total(cost, back) \in Nat /\ Total(cost, mid) \in Nat
    BY <2>2, TotalIsNat
  <2>5. inFlight = Total(cost, mid) + Total(cost, back)
    <3>1. Total(cost, mid \cup back) = Total(cost, mid) + Total(cost, back)
      BY <2>2, TotalSplit
    <3> QED
      BY <2>2, <3>1 DEF Reservations
  <2>6. ASSUME NEW S, S \subseteq back PROVE Total(charge, S) <= Total(charge, back)
    <3>1. \A c \in S : charge[c] <= charge[c]
      BY <2>2, <2>3, <2>6 DEF Amounts
    <3> QED
      BY <2>2, <2>3, <2>6, <3>1, TotalGrows
  <2>7. ASSUME Live(obs), ~hidden, ~crossed
        PROVE  obs.remaining \in Int /\ obs.remaining <= creditsLeft + Total(charge, back)
    <3>0. obs.remaining \in 0..Quota
      BY <2>7 DEF CreditTypes, Live, Observations
    <3>1. CASE ~obs.old
      <4>1. obs.remaining <= creditsLeft + Total(charge, Below(obs.remaining))
        BY <2>7, <3>1 DEF Counted, Covered
      <4>2. /\ Total(charge, Below(obs.remaining)) <= Total(charge, back)
            /\ Total(charge, Below(obs.remaining)) \in Nat
        BY <2>2, <2>6, BelowIsNat
      <4> QED
        BY <2>3, <2>4, <3>0, <4>1, <4>2
    <3>2. CASE obs.old
      <4>1. Quota <= creditsLeft + Total(charge, Current)
        BY <2>7, <3>2 DEF Counted
      <4>2. Total(charge, Current) <= Total(charge, back) /\ Total(charge, Current) \in Nat
        BY <2>2, <2>6, BelowIsNat
      <4> QED
        BY <2>3, <2>4, <3>0, <4>1, <4>2
    <3> QED
      BY <3>1, <3>2
  <2>8. ASSUME \A c \in mid \cup back : charge[c] <= cost[c]
        PROVE  /\ Total(charge, mid) <= Total(cost, mid)
               /\ Total(charge, back) <= Total(cost, back)
    BY <2>2, <2>3, <2>8, TotalGrows
  <2>9. ASSUME Live(obs), ~hidden, ~crossed, \A c \in mid \cup back : charge[c] <= cost[c]
        PROVE  obs.remaining - inFlight <= creditsLeft - Total(charge, mid)
    BY <2>3, <2>4, <2>5, <2>7, <2>8, <2>9
  <2> QED
    BY <2>1, <2>2, <2>7, <2>9 DEF EstimateIsSafe, mid, back
<1> QED
  BY <1>1, CreditStart, CreditStep, PTL DEF CreditSpec

-----------------------------------------------------------------------------
(* A connection has one socket, or a connect that is due, exactly while    *)
(* there are channels, and timers only while it has a socket.  What breaks *)
(* that in the code is left out by the hypotheses of the theorems: state   *)
(* listeners that close or unsubscribe, and a subscribe that runs before a *)
(* deferred connect that is due.                                           *)

Flags ==
    /\ opened \in BOOLEAN /\ timer \in BOOLEAN /\ awaiting \in BOOLEAN
    /\ terminal \in BOOLEAN /\ intervals \in BOOLEAN /\ sendTimer \in BOOLEAN
    /\ wanted \in BOOLEAN

ConnTypes ==
    /\ status \in {"idle", "connecting", "live", "stale", "reconnecting", "closed"}
    /\ ws \in Slots \cup {None}
    /\ attempt \in 0..(MaxAttempts + 1)
    /\ maxAttempts \in {MaxAttempts, Unlimited}
    /\ leaked \in Nat
    /\ queue \in 0..MaxQueue /\ sent \in 0..OutPerMin /\ recent \in 0..PerMin
    /\ silence \in {"unwatched", "fresh", "late", "dead"}
    /\ sock \in [Slots -> {"gone", "connecting", "open", "closing"}]
    /\ cont \in {"none", "connect", "opened", "schedule"}

\* The end of a connection, and the failures that lead there.
EndIsKnown ==
    /\ terminal <=> status = "closed"
    /\ terminal => ~wanted
    /\ ~terminal /\ maxAttempts # Unlimited => attempt <= MaxAttempts

\* The current socket is the only one that is not on its way out, and what waits
\* to be sent waits for it.
SocketIsKnown ==
    /\ OneSocket
    /\ ws # None => sock[ws] = IF opened THEN "open" ELSE "connecting"
    /\ opened => ws # None
    /\ queue > 0 => sendTimer /\ opened

\* Between callbacks there is a socket, or a connect that is due, exactly for
\* the channels; in the middle of one the rest of it is about to make one.
CallbacksFit ==
    /\ ws # None => ~timer /\ status # "idle"
    /\ cont = "none" =>
          /\ ws # None \/ timer <=> wanted /\ ~terminal
          /\ status \notin {"idle", "closed"} => ws # None \/ timer
          /\ intervals <=> opened
    /\ cont # "none" =>
          /\ wanted /\ ~terminal /\ ~timer /\ ~intervals
          /\ cont = "opened" <=> ws # None
          /\ cont = "opened" => opened
          /\ status = CASE cont = "connect" -> "connecting" [] cont = "opened" -> "live"
                        [] cont = "schedule" -> "reconnecting"

ConnInv == Flags /\ ConnTypes /\ leaked = 0 /\ EndIsKnown /\ SocketIsKnown /\ CallbacksFit

LEMMA TypesAre == TypeOK <=> Flags /\ ConnTypes
<1>1. {opened, timer, awaiting, terminal, intervals, sendTimer, wanted}
         \subseteq BOOLEAN <=> Flags
  BY Zenon DEF Flags
<1> QED
  BY <1>1 DEF TypeOK, ConnTypes

LEMMA ConnStart == Init => ConnInv
<1> SUFFICES ASSUME Init PROVE ConnInv
  OBVIOUS
<1> USE ConnectionAssumption DEF Init
<1>1. ConnTypes /\ leaked = 0
  BY DEF ConnTypes
<1>2. Flags
  BY DEF Flags
<1>3. EndIsKnown /\ SocketIsKnown /\ CallbacksFit
  BY DEF EndIsKnown, SocketIsKnown, OneSocket, CallbacksFit
<1> QED BY <1>1, <1>2, <1>3 DEF ConnInv

\* send: what may not go now waits, and for nothing else.
LEMMA SentOrKept ==
    ASSUME ConnTypes, Flags, SocketIsKnown,
           \/ queue < MaxQueue /\ Send(1)
           \/ UNCHANGED outbound
           \/ IF queue < MaxQueue THEN Send(1) ELSE UNCHANGED outbound
           \/ IF IsOpen /\ queue < MaxQueue THEN Send(1) ELSE UNCHANGED outbound
    PROVE  /\ queue' \in 0..MaxQueue /\ sent' \in 0..OutPerMin /\ sendTimer' \in BOOLEAN
           /\ queue' > 0 => sendTimer'
<1> USE ConnectionAssumption
<1>1. CASE UNCHANGED outbound
  BY <1>1 DEF outbound, ConnTypes, Flags, SocketIsKnown
<1>2. CASE queue < MaxQueue /\ Send(1)
  <2> DEFINE going == IF sendTimer THEN 0
                      ELSE IF queue + 1 < OutPerMin - sent THEN queue + 1 ELSE OutPerMin - sent
  <2>1. /\ queue' = queue + 1 - going /\ sent' = sent + going
        /\ sendTimer' \in BOOLEAN
        /\ queue + 1 > going => sendTimer'
    <3>1. queue' = queue + 1 - going /\ sent' = sent + going
      BY <1>2 DEF Send, ConnTypes, Flags
    <3>2. sendTimer' = (sendTimer \/ queue + 1 > going)
      BY <1>2, Zenon DEF Send
    <3>3. sendTimer' \in BOOLEAN /\ (queue + 1 > going => sendTimer')
      BY <3>2, Zenon
    <3> QED BY <3>1, <3>3
  <2>2. queue \in Nat /\ queue < MaxQueue /\ sent \in Nat /\ sent <= OutPerMin
    BY <1>2 DEF ConnTypes
  <2>3. going \in Nat /\ going <= queue + 1 /\ sent + going <= OutPerMin
    BY <2>2
  <2> HIDE DEF going
  <2>4. queue' \in 0..MaxQueue /\ sent' \in 0..OutPerMin
    BY <2>1, <2>2, <2>3
  <2>5. sendTimer' \in BOOLEAN
    BY <2>1
  <2>6. queue' > 0 => sendTimer'
    BY <2>1, <2>2, <2>3
  <2> QED BY <2>4, <2>5, <2>6
<1> QED BY <1>1, <1>2

\* forceReconnect of an open socket: another attempt is due, or it was the last.
LEMMA Reconnects ==
    ASSUME ConnInv, cont = "none", IsOpen, ForceReconnect, sent' \in 0..OutPerMin,
           UNCHANGED <<leaked, maxAttempts, recent, silence>>
    PROVE  ConnInv'
<1> USE ConnectionAssumption DEF ConnInv
<1>1. /\ ws' = None /\ opened' = FALSE /\ awaiting' = FALSE /\ timer' = FALSE
      /\ queue' = 0 /\ sendTimer' = FALSE /\ intervals' = FALSE
      /\ wanted' = (wanted /\ ~terminal')
      /\ sock' = [i \in Slots |-> IF i = ws THEN "closing" ELSE sock[i]]
  BY DEF ForceReconnect, Teardown, Detach
<1>9. wanted /\ ~terminal' => wanted'
  BY <1>1, Zenon
<1>2. /\ wanted /\ ~terminal /\ status # "idle" /\ status # "closed"
      /\ maxAttempts # Unlimited => attempt <= MaxAttempts
  BY DEF CallbacksFit, EndIsKnown, IsOpen
<1>3. /\ attempt' \in 0..(MaxAttempts + 1)
      /\ \/ /\ status' = "closed" /\ terminal' = TRUE /\ cont' = "none"
         \/ /\ maxAttempts # Unlimited => attempt' <= MaxAttempts
            /\ status' = "reconnecting" /\ cont' = "schedule" /\ terminal' = terminal
  BY <1>2 DEF ForceReconnect, HandleClose, ConnTypes
<1>4. ConnTypes'
  BY <1>1, <1>2, <1>3 DEF ConnTypes
<1>5. Flags' /\ (leaked = 0)'
  BY <1>1, <1>2, <1>3 DEF Flags
<1>7. SocketIsKnown'
  BY <1>1 DEF SocketIsKnown, OneSocket, ConnTypes
<1>6. CASE cont' = "none"
  BY <1>1, <1>2, <1>3, <1>4, <1>5, <1>6, <1>7 DEF EndIsKnown, CallbacksFit
<1>8. CASE cont' = "schedule"
  BY <1>1, <1>2, <1>3, <1>4, <1>5, <1>7, <1>8, <1>9 DEF EndIsKnown, CallbacksFit
<1> QED BY <1>3, <1>6, <1>8

LEMMA ConnStep == ASSUME ~Reentrant, ~LateTimers, ConnInv, [Next]_vars PROVE ConnInv'
<1> USE ConnectionAssumption DEF ConnInv
<1>1. ASSUME Subscribe PROVE ConnInv'
  <2>1. ConnTypes'
    BY <1>1 DEF Subscribe, ConnectWithBudget, Send, IsOpen, fields, outbound, Flags, ConnTypes, EndIsKnown, CallbacksFit
  <2>6. Flags'
    BY <1>1 DEF Subscribe, ConnectWithBudget, Send, IsOpen, fields, outbound, Flags, ConnTypes, EndIsKnown, CallbacksFit
  <2>2. (leaked = 0)'
    BY <1>1 DEF Subscribe, ConnectWithBudget, Send, IsOpen, fields, outbound, CallbacksFit
  <2>3. EndIsKnown'
    BY <1>1 DEF Subscribe, ConnectWithBudget, Send, IsOpen, fields, outbound, Flags, ConnTypes, EndIsKnown, CallbacksFit
  <2>4. SocketIsKnown'
    BY <1>1 DEF Subscribe, ConnectWithBudget, Send, IsOpen, fields, outbound, Flags, ConnTypes, SocketIsKnown, OneSocket, CallbacksFit
  <2>5. CallbacksFit'
    BY <1>1 DEF Subscribe, ConnectWithBudget, Send, IsOpen, fields, outbound, Flags, ConnTypes, EndIsKnown, SocketIsKnown, OneSocket, CallbacksFit
  <2> QED BY <2>1, <2>2, <2>3, <2>4, <2>5, <2>6
<1>2. ASSUME Unsubscribe PROVE ConnInv'
  <2>1. ConnTypes'
    BY <1>2 DEF Unsubscribe, CloseIdle, Teardown, Detach, IsOpen, fields, outbound, Flags, ConnTypes, EndIsKnown, CallbacksFit
  <2>6. Flags'
    BY <1>2 DEF Unsubscribe, CloseIdle, Teardown, Detach, IsOpen, fields, outbound, Flags, ConnTypes, EndIsKnown, CallbacksFit
  <2>2. (leaked = 0)'
    BY <1>2 DEF Unsubscribe, CloseIdle, Teardown, Detach, IsOpen, fields, outbound, CallbacksFit
  <2>3. EndIsKnown'
    BY <1>2 DEF Unsubscribe, CloseIdle, Teardown, Detach, IsOpen, fields, outbound, Flags, ConnTypes, EndIsKnown, CallbacksFit
  <2>4. SocketIsKnown'
    BY <1>2 DEF Unsubscribe, CloseIdle, Teardown, Detach, IsOpen, fields, outbound, Flags, ConnTypes, SocketIsKnown, OneSocket, CallbacksFit
  <2>5. CallbacksFit'
    BY <1>2 DEF Unsubscribe, CloseIdle, Teardown, Detach, IsOpen, fields, outbound, Flags, ConnTypes, EndIsKnown, SocketIsKnown, OneSocket, CallbacksFit
  <2> QED BY <2>1, <2>2, <2>3, <2>4, <2>5, <2>6
<1>3. ASSUME Close PROVE ConnInv'
  <2>1. ConnTypes'
    BY <1>3 DEF Close, Teardown, Detach, IsOpen, fields, outbound, Flags, ConnTypes, EndIsKnown, CallbacksFit
  <2>6. Flags'
    BY <1>3 DEF Close, Teardown, Detach, IsOpen, fields, outbound, Flags, ConnTypes, EndIsKnown, CallbacksFit
  <2>2. (leaked = 0)'
    BY <1>3 DEF Close, Teardown, Detach, IsOpen, fields, outbound, CallbacksFit
  <2>3. EndIsKnown'
    BY <1>3 DEF Close, Teardown, Detach, IsOpen, fields, outbound, Flags, ConnTypes, EndIsKnown, CallbacksFit
  <2>4. SocketIsKnown'
    BY <1>3 DEF Close, Teardown, Detach, IsOpen, fields, outbound, Flags, ConnTypes, SocketIsKnown, OneSocket, CallbacksFit
  <2>5. CallbacksFit'
    BY <1>3 DEF Close, Teardown, Detach, IsOpen, fields, outbound, Flags, ConnTypes, EndIsKnown, SocketIsKnown, OneSocket, CallbacksFit
  <2> QED BY <2>1, <2>2, <2>3, <2>4, <2>5, <2>6
<1>4. ASSUME TimerFires PROVE ConnInv'
  <2>1. \/ timer' = FALSE /\ terminal /\ UNCHANGED <<recent, status, cont>>
        \/ /\ ~terminal /\ recent < PerMin /\ timer' = FALSE /\ recent' = recent + 1
           /\ status' = "connecting" /\ cont' = "connect"
        \/ UNCHANGED <<timer, recent, status, cont>>
    BY <1>4 DEF TimerFires
  <2>2. /\ cont = "none" /\ timer
        /\ UNCHANGED <<ws, opened, attempt, maxAttempts, awaiting, terminal, intervals,
                       leaked, queue, sent, sendTimer, wanted, silence, sock>>
    BY <1>4 DEF TimerFires, outbound
  <2>3. recent' \in 0..PerMin /\ status' \in {"connecting", status} /\ cont' \in {"connect", cont}
    BY <2>1 DEF ConnTypes
  <2>7. ConnTypes'
    BY <2>2, <2>3 DEF ConnTypes
  <2>4. Flags' /\ (leaked = 0)'
    BY <2>1, <2>2 DEF Flags
  <2>5. EndIsKnown' /\ SocketIsKnown'
    BY <2>1, <2>2 DEF ConnTypes, EndIsKnown, SocketIsKnown, OneSocket, CallbacksFit
  <2>6. CallbacksFit'
    BY <2>1, <2>2 DEF Flags, ConnTypes, EndIsKnown, SocketIsKnown, CallbacksFit
  <2> QED BY <2>4, <2>5, <2>6, <2>7
<1>5. ASSUME CreateSocket PROVE ConnInv'
  <2>1. ConnTypes'
    BY <1>5 DEF CreateSocket, IsOpen, fields, outbound, Flags, ConnTypes, EndIsKnown, CallbacksFit
  <2>6. Flags'
    BY <1>5 DEF CreateSocket, IsOpen, fields, outbound, Flags, ConnTypes, EndIsKnown, CallbacksFit
  <2>2. (leaked = 0)'
    BY <1>5 DEF CreateSocket, IsOpen, fields, outbound, CallbacksFit
  <2>3. EndIsKnown'
    BY <1>5 DEF CreateSocket, IsOpen, fields, outbound, Flags, ConnTypes, EndIsKnown, CallbacksFit
  <2>4. SocketIsKnown'
    BY <1>5 DEF CreateSocket, IsOpen, fields, outbound, Flags, ConnTypes, SocketIsKnown, OneSocket, CallbacksFit
  <2>5. CallbacksFit'
    BY <1>5 DEF CreateSocket, IsOpen, fields, outbound, Flags, ConnTypes, EndIsKnown, SocketIsKnown, OneSocket, CallbacksFit
  <2> QED BY <2>1, <2>2, <2>3, <2>4, <2>5, <2>6
<1>6. ASSUME CreateThrows PROVE ConnInv'
  <2>1. ConnTypes'
    BY <1>6 DEF CreateThrows, Teardown, Detach, HandleClose, GivesUp, IsOpen, fields, outbound, Flags, ConnTypes, EndIsKnown, CallbacksFit
  <2>6. Flags'
    BY <1>6 DEF CreateThrows, Teardown, Detach, HandleClose, GivesUp, IsOpen, fields, outbound, Flags, ConnTypes, EndIsKnown, CallbacksFit
  <2>2. (leaked = 0)'
    BY <1>6 DEF CreateThrows, Teardown, Detach, HandleClose, GivesUp, IsOpen, fields, outbound, CallbacksFit
  <2>3. EndIsKnown'
    BY <1>6 DEF CreateThrows, Teardown, Detach, HandleClose, GivesUp, IsOpen, fields, outbound, Flags, ConnTypes, EndIsKnown, CallbacksFit
  <2>4. SocketIsKnown'
    <3>1. ws = None /\ ~opened /\ queue = 0
      BY <1>6 DEF CreateThrows, CallbacksFit, SocketIsKnown, ConnTypes
    <3>2. ws' = None /\ opened' = FALSE /\ queue' = 0
      BY <1>6, <3>1 DEF CreateThrows, Teardown, Detach
    <3>3. ASSUME NEW i \in Slots PROVE sock'[i] = sock[i]
      BY <1>6, <3>1 DEF CreateThrows, Teardown
    <3> QED
      BY <3>1, <3>2, <3>3 DEF SocketIsKnown, OneSocket
  <2>5. CallbacksFit'
    <3>1. /\ cont = "connect" /\ ws = None /\ ~opened /\ ~timer /\ ~intervals
          /\ wanted /\ ~terminal /\ status = "connecting"
      BY <1>6 DEF CreateThrows, CallbacksFit, SocketIsKnown
    <3>2. wanted' = (wanted /\ ~terminal') /\ ws' = None /\ opened' = FALSE
      BY <1>6, <3>1 DEF CreateThrows, Teardown, Detach
    <3>3. wanted' <=> ~terminal'
      BY <3>1, <3>2, Zenon
    <3>4. timer' = FALSE /\ ~intervals'
      BY <1>6, <3>1 DEF CreateThrows, Teardown, Detach, Flags
    <3>5. \/ status' = "closed" /\ terminal' /\ cont' = "none"
          \/ status' = "reconnecting" /\ ~terminal' /\ cont' = "schedule"
      BY <1>6, <3>1 DEF CreateThrows, HandleClose
    <3>6. (intervals <=> opened)'
      BY <3>2, <3>4
    <3> QED
      BY <3>2, <3>3, <3>4, <3>5, <3>6 DEF CallbacksFit
  <2> QED BY <2>1, <2>2, <2>3, <2>4, <2>5, <2>6
<1>7. ASSUME Opened PROVE ConnInv'
  <2>1. /\ cont = "opened" /\ cont' = "none" /\ ~intervals /\ intervals' = TRUE /\ opened
        /\ leaked' = 0 /\ silence' \in {silence, "fresh"}
        /\ UNCHANGED <<status, ws, opened, attempt, maxAttempts, timer, awaiting, terminal, recent, wanted, sock>>
    BY <1>7 DEF Opened, fields, CallbacksFit, Flags
  <2>2. /\ queue' \in 0..MaxQueue /\ sent' \in 0..OutPerMin /\ sendTimer' \in BOOLEAN
        /\ queue' > 0 => sendTimer'
    BY <1>7, SentOrKept DEF Opened
  <2>3. ConnTypes' /\ Flags'
    BY <2>1, <2>2 DEF ConnTypes, Flags
  <2>4. EndIsKnown' /\ SocketIsKnown'
    BY <2>1, <2>2 DEF EndIsKnown, SocketIsKnown, OneSocket
  <2>5. CallbacksFit'
    BY <2>1 DEF EndIsKnown, CallbacksFit
  <2> QED BY <2>1, <2>3, <2>4, <2>5
<1>8. ASSUME Schedule PROVE ConnInv'
  <2>1. ConnTypes'
    BY <1>8 DEF Schedule, IsOpen, fields, outbound, Flags, ConnTypes, EndIsKnown, CallbacksFit
  <2>6. Flags'
    BY <1>8 DEF Schedule, IsOpen, fields, outbound, Flags, ConnTypes, EndIsKnown, CallbacksFit
  <2>2. (leaked = 0)'
    BY <1>8 DEF Schedule, IsOpen, fields, outbound, CallbacksFit
  <2>3. EndIsKnown'
    BY <1>8 DEF Schedule, IsOpen, fields, outbound, Flags, ConnTypes, EndIsKnown, CallbacksFit
  <2>4. SocketIsKnown'
    BY <1>8 DEF Schedule, IsOpen, fields, outbound, Flags, ConnTypes, SocketIsKnown, OneSocket, CallbacksFit
  <2>5. CallbacksFit'
    BY <1>8 DEF Schedule, IsOpen, fields, outbound, Flags, ConnTypes, EndIsKnown, SocketIsKnown, OneSocket, CallbacksFit
  <2> QED BY <2>1, <2>2, <2>3, <2>4, <2>5, <2>6
<1>9. ASSUME Evaluate PROVE ConnInv'
  <2>1. CASE ForceReconnect
    BY <1>9, <2>1, Reconnects DEF Evaluate, ConnTypes
  <2>2. CASE ~ForceReconnect
    <3>1. /\ cont = "none" /\ ws # None /\ opened
          /\ status' \in {"stale", "live", status}
          /\ UNCHANGED <<ws, opened, attempt, maxAttempts, timer, awaiting, terminal, intervals, queue, sent,
                         sendTimer, wanted, sock, cont, leaked, recent, silence>>
      BY <1>9, <2>2 DEF Evaluate, IsOpen
    <3>2. ~terminal
      BY <3>1 DEF CallbacksFit
    <3>3. status' \notin {"idle", "closed"}
      BY <3>1, <3>2 DEF EndIsKnown, CallbacksFit
    <3>4. ConnTypes' /\ Flags' /\ (leaked = 0)'
      BY <3>1 DEF ConnTypes, Flags
    <3>5. EndIsKnown' /\ SocketIsKnown'
      BY <3>1, <3>2, <3>3 DEF EndIsKnown, SocketIsKnown, OneSocket
    <3>6. CallbacksFit'
      BY <3>1, <3>3 DEF CallbacksFit
    <3> QED BY <3>4, <3>5, <3>6
  <2> QED BY <2>1, <2>2
<1>10. ASSUME PingTick PROVE ConnInv'
  <2>1. CASE ForceReconnect /\ UNCHANGED sent
    BY <1>10, <2>1, Reconnects DEF PingTick, ConnTypes
  <2>2. CASE ~(ForceReconnect /\ UNCHANGED sent)
    <3>1. /\ cont = "none" /\ ws # None /\ opened /\ awaiting' = TRUE
          /\ UNCHANGED <<status, ws, opened, timer, attempt, maxAttempts, terminal, intervals,
                         wanted, sock, cont, leaked, recent, silence>>
      BY <1>10, <2>2 DEF PingTick, IsOpen
    <3>2. /\ queue' \in 0..MaxQueue /\ sent' \in 0..OutPerMin /\ sendTimer' \in BOOLEAN
          /\ queue' > 0 => sendTimer'
      <4>1. IF queue < MaxQueue THEN Send(1) ELSE UNCHANGED outbound
        BY <1>10, <2>2 DEF PingTick
      <4> QED BY <4>1, SentOrKept
    <3>3. ConnTypes' /\ Flags' /\ (leaked = 0)'
      BY <3>1, <3>2 DEF ConnTypes, Flags
    <3>4. EndIsKnown' /\ SocketIsKnown' /\ CallbacksFit'
      BY <3>1, <3>2 DEF EndIsKnown, SocketIsKnown, OneSocket, CallbacksFit
    <3> QED BY <3>3, <3>4
  <2> QED BY <2>1, <2>2
<1>11. ASSUME Pong PROVE ConnInv'
  <2>1. ConnTypes'
    BY <1>11 DEF Pong, IsOpen, fields, outbound, Flags, ConnTypes, EndIsKnown, CallbacksFit
  <2>6. Flags'
    BY <1>11 DEF Pong, IsOpen, fields, outbound, Flags, ConnTypes, EndIsKnown, CallbacksFit
  <2>2. (leaked = 0)'
    BY <1>11 DEF Pong, IsOpen, fields, outbound, CallbacksFit
  <2>3. EndIsKnown'
    BY <1>11 DEF Pong, IsOpen, fields, outbound, Flags, ConnTypes, EndIsKnown, CallbacksFit
  <2>4. SocketIsKnown'
    BY <1>11 DEF Pong, IsOpen, fields, outbound, Flags, ConnTypes, SocketIsKnown, OneSocket, CallbacksFit
  <2>5. CallbacksFit'
    BY <1>11 DEF Pong, IsOpen, fields, outbound, Flags, ConnTypes, EndIsKnown, SocketIsKnown, OneSocket, CallbacksFit
  <2> QED BY <2>1, <2>2, <2>3, <2>4, <2>5, <2>6
<1>12. ASSUME Frame PROVE ConnInv'
  <2>1. ConnTypes'
    BY <1>12 DEF Frame, IsOpen, fields, outbound, Flags, ConnTypes, EndIsKnown, CallbacksFit
  <2>6. Flags'
    BY <1>12 DEF Frame, IsOpen, fields, outbound, Flags, ConnTypes, EndIsKnown, CallbacksFit
  <2>2. (leaked = 0)'
    BY <1>12 DEF Frame, IsOpen, fields, outbound, CallbacksFit
  <2>3. EndIsKnown'
    BY <1>12 DEF Frame, IsOpen, fields, outbound, Flags, ConnTypes, EndIsKnown, CallbacksFit
  <2>4. SocketIsKnown'
    BY <1>12 DEF Frame, IsOpen, fields, outbound, Flags, ConnTypes, SocketIsKnown, OneSocket, CallbacksFit
  <2>5. CallbacksFit'
    BY <1>12 DEF Frame, IsOpen, fields, outbound, Flags, ConnTypes, EndIsKnown, SocketIsKnown, OneSocket, CallbacksFit
  <2> QED BY <2>1, <2>2, <2>3, <2>4, <2>5, <2>6
<1>13. ASSUME SendTimerFires PROVE ConnInv'
  <2>1. ConnTypes'
    BY <1>13 DEF SendTimerFires, IsOpen, fields, outbound, Flags, ConnTypes, EndIsKnown, CallbacksFit
  <2>6. Flags'
    BY <1>13 DEF SendTimerFires, IsOpen, fields, outbound, Flags, ConnTypes, EndIsKnown, CallbacksFit
  <2>2. (leaked = 0)'
    BY <1>13 DEF SendTimerFires, IsOpen, fields, outbound, CallbacksFit
  <2>3. EndIsKnown'
    BY <1>13 DEF SendTimerFires, IsOpen, fields, outbound, Flags, ConnTypes, EndIsKnown, CallbacksFit
  <2>4. SocketIsKnown'
    BY <1>13 DEF SendTimerFires, IsOpen, fields, outbound, Flags, ConnTypes, SocketIsKnown, OneSocket, CallbacksFit
  <2>5. CallbacksFit'
    BY <1>13 DEF SendTimerFires, IsOpen, fields, outbound, Flags, ConnTypes, EndIsKnown, SocketIsKnown, OneSocket, CallbacksFit
  <2> QED BY <2>1, <2>2, <2>3, <2>4, <2>5, <2>6
<1>14. ASSUME SilenceGrows PROVE ConnInv'
  <2>1. ConnTypes'
    BY <1>14 DEF SilenceGrows, IsOpen, fields, outbound, Flags, ConnTypes, EndIsKnown, CallbacksFit
  <2>6. Flags'
    BY <1>14 DEF SilenceGrows, IsOpen, fields, outbound, Flags, ConnTypes, EndIsKnown, CallbacksFit
  <2>2. (leaked = 0)'
    BY <1>14 DEF SilenceGrows, IsOpen, fields, outbound, CallbacksFit
  <2>3. EndIsKnown'
    BY <1>14 DEF SilenceGrows, IsOpen, fields, outbound, Flags, ConnTypes, EndIsKnown, CallbacksFit
  <2>4. SocketIsKnown'
    BY <1>14 DEF SilenceGrows, IsOpen, fields, outbound, Flags, ConnTypes, SocketIsKnown, OneSocket, CallbacksFit
  <2>5. CallbacksFit'
    BY <1>14 DEF SilenceGrows, IsOpen, fields, outbound, Flags, ConnTypes, EndIsKnown, SocketIsKnown, OneSocket, CallbacksFit
  <2> QED BY <2>1, <2>2, <2>3, <2>4, <2>5, <2>6
<1>15. ASSUME ConnectAges PROVE ConnInv'
  <2>1. ConnTypes'
    BY <1>15 DEF ConnectAges, IsOpen, fields, outbound, Flags, ConnTypes, EndIsKnown, CallbacksFit
  <2>6. Flags'
    BY <1>15 DEF ConnectAges, IsOpen, fields, outbound, Flags, ConnTypes, EndIsKnown, CallbacksFit
  <2>2. (leaked = 0)'
    BY <1>15 DEF ConnectAges, IsOpen, fields, outbound, CallbacksFit
  <2>3. EndIsKnown'
    BY <1>15 DEF ConnectAges, IsOpen, fields, outbound, Flags, ConnTypes, EndIsKnown, CallbacksFit
  <2>4. SocketIsKnown'
    BY <1>15 DEF ConnectAges, IsOpen, fields, outbound, Flags, ConnTypes, SocketIsKnown, OneSocket, CallbacksFit
  <2>5. CallbacksFit'
    BY <1>15 DEF ConnectAges, IsOpen, fields, outbound, Flags, ConnTypes, EndIsKnown, SocketIsKnown, OneSocket, CallbacksFit
  <2> QED BY <2>1, <2>2, <2>3, <2>4, <2>5, <2>6
<1>16. ASSUME SendAges PROVE ConnInv'
  <2>1. ConnTypes'
    BY <1>16 DEF SendAges, IsOpen, fields, outbound, Flags, ConnTypes, EndIsKnown, CallbacksFit
  <2>6. Flags'
    BY <1>16 DEF SendAges, IsOpen, fields, outbound, Flags, ConnTypes, EndIsKnown, CallbacksFit
  <2>2. (leaked = 0)'
    BY <1>16 DEF SendAges, IsOpen, fields, outbound, CallbacksFit
  <2>3. EndIsKnown'
    BY <1>16 DEF SendAges, IsOpen, fields, outbound, Flags, ConnTypes, EndIsKnown, CallbacksFit
  <2>4. SocketIsKnown'
    BY <1>16 DEF SendAges, IsOpen, fields, outbound, Flags, ConnTypes, SocketIsKnown, OneSocket, CallbacksFit
  <2>5. CallbacksFit'
    BY <1>16 DEF SendAges, IsOpen, fields, outbound, Flags, ConnTypes, EndIsKnown, SocketIsKnown, OneSocket, CallbacksFit
  <2> QED BY <2>1, <2>2, <2>3, <2>4, <2>5, <2>6
<1>17. ASSUME NEW i \in Slots, Opens(i) PROVE ConnInv'
  <2>1. ConnTypes'
    BY <1>17 DEF Opens, IsOpen, fields, outbound, Flags, ConnTypes, EndIsKnown, CallbacksFit
  <2>6. Flags'
    BY <1>17 DEF Opens, IsOpen, fields, outbound, Flags, ConnTypes, EndIsKnown, CallbacksFit
  <2>2. (leaked = 0)'
    BY <1>17 DEF Opens, IsOpen, fields, outbound, CallbacksFit
  <2>3. EndIsKnown'
    BY <1>17 DEF Opens, IsOpen, fields, outbound, Flags, ConnTypes, EndIsKnown, CallbacksFit
  <2>4. SocketIsKnown'
    BY <1>17 DEF Opens, IsOpen, fields, outbound, Flags, ConnTypes, SocketIsKnown, OneSocket, CallbacksFit
  <2>5. CallbacksFit'
    BY <1>17 DEF Opens, IsOpen, fields, outbound, Flags, ConnTypes, EndIsKnown, SocketIsKnown, OneSocket, CallbacksFit
  <2> QED BY <2>1, <2>2, <2>3, <2>4, <2>5, <2>6
<1>18. ASSUME NEW i \in Slots, Gone(i) PROVE ConnInv'
  <2>1. ConnTypes'
    BY <1>18 DEF Gone, Detach, HandleClose, GivesUp, IsOpen, fields, outbound, Flags, ConnTypes, EndIsKnown, CallbacksFit
  <2>6. Flags'
    BY <1>18 DEF Gone, Detach, HandleClose, GivesUp, IsOpen, fields, outbound, Flags, ConnTypes, EndIsKnown, CallbacksFit
  <2>2. (leaked = 0)'
    BY <1>18 DEF Gone, Detach, HandleClose, GivesUp, IsOpen, fields, outbound, CallbacksFit
  <2>3. EndIsKnown'
    BY <1>18 DEF Gone, Detach, HandleClose, GivesUp, IsOpen, fields, outbound, Flags, ConnTypes, EndIsKnown, CallbacksFit
  <2>4. SocketIsKnown'
    BY <1>18 DEF Gone, Detach, HandleClose, GivesUp, IsOpen, fields, outbound, Flags, ConnTypes, SocketIsKnown, OneSocket, CallbacksFit
  <2>5. CallbacksFit'
    BY <1>18 DEF Gone, Detach, HandleClose, GivesUp, IsOpen, fields, outbound, Flags, ConnTypes, EndIsKnown, SocketIsKnown, OneSocket, CallbacksFit
  <2> QED BY <2>1, <2>2, <2>3, <2>4, <2>5, <2>6
<1>19. CASE UNCHANGED vars
  BY <1>19 DEF vars, fields, outbound, Flags, ConnTypes, EndIsKnown, SocketIsKnown, OneSocket, CallbacksFit
<1> QED
  BY <1>1, <1>2, <1>3, <1>4, <1>5, <1>6, <1>7, <1>8, <1>9, <1>10, <1>11, <1>12, <1>13, <1>14, <1>15, <1>16, <1>17, <1>18, <1>19 DEF Next

\* As long as listeners do not call back into the stream and due timers fire first,
\* there is one socket, or a connect that is due, exactly while there are channels,
\* for any budget, any number of attempts and of sockets on their way out.
THEOREM OneSocketForChannels ==
    ASSUME ~Reentrant, ~LateTimers PROVE Spec => []SocketsFollowChannels
<1>1. ConnInv => SocketsFollowChannels
  BY DEF ConnInv, SocketIsKnown, CallbacksFit, SocketsFollowChannels
<1>2. ConnInv /\ [Next]_vars => ConnInv'
  BY ConnStep
<1> QED
  BY ConnStart, <1>1, <1>2, PTL DEF Spec

\* Under the same conditions intervals and queued messages never outlive their socket,
\* and no interval runs twice.
THEOREM TimersEndWithSocket ==
    ASSUME ~Reentrant, ~LateTimers PROVE Spec => []TimersFollowSocket
<1>1. ConnInv => TimersFollowSocket
  <2> SUFFICES ASSUME ConnInv PROVE TimersFollowSocket
    OBVIOUS
  <2>1. TypeOK /\ leaked = 0 BY TypesAre DEF ConnInv
  <2>2. opened => ws # None BY DEF ConnInv, SocketIsKnown
  <2>3. cont = "none" => intervals = IsOpen
    BY <2>2 DEF ConnInv, Flags, CallbacksFit, IsOpen
  <2>4. queue > 0 => sendTimer /\ IsOpen
    BY <2>2 DEF ConnInv, SocketIsKnown, IsOpen
  <2> QED BY <2>1, <2>3, <2>4 DEF TimersFollowSocket
<1>2. ConnInv /\ [Next]_vars => ConnInv'
  BY ConnStep
<1> QED
  BY ConnStart, <1>1, <1>2, PTL DEF Spec

=============================================================================
