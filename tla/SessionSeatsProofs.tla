-------------------------- MODULE SessionSeatsProofs -------------------------
(* For any number of cores and windows, whether or not an earlier session     *)
(* left a token file: a seat that is up has a token, no token is replaced     *)
(* under it, and every hello on its way carries the current token, unless two *)
(* seats raced to make the user's first file.                                 *)
EXTENDS SessionSeats, TLAPS

USE SessionSeatsAssumption DEF Proc, NoToken, Own, Other, Up, Seated, Steps, Goto

\* A seated process owns its own lock, and the other lock too in the steps
\* that took it.
OwnsItsLock == \A p \in Proc : Seated(p) => lock[Own(p)] = p
OwnsTheOther ==
  \A p \in Proc : pc[p] \in {"rotate", "unclaim", "probe"} => lock[Other(p)] = p

\* A seat past claim_session_token() has left a token in the file.
TokenOnceSeated ==
  \A p \in Proc : Up(p) \/ pc[p] = "unclaim" => token # NoToken

\* Only a window past its claim says hello.
HelloFromUp == \A p \in Proc : sent[p] # NoToken => p \in Glass /\ Up(p)

SeatInv == /\ TypeOK /\ OwnsItsLock /\ OwnsTheOther /\ TokenOnceSeated
           /\ HelloFromUp /\ HelloMatches

LEMMA SeatInvInit == ASSUME Init PROVE SeatInv
<1> USE DEF Init
<1>1. TypeOK
  <2>1. pc \in [Proc -> Steps] /\ lock \in [{"core", "ui"} -> Proc \cup {None}]
    OBVIOUS
  <2>2. token \in Nat /\ newest \in Nat /\ sent \in [Proc -> Nat]
    OBVIOUS
  <2>3. QED BY <2>1, <2>2 DEF TypeOK
<1>2. OwnsItsLock /\ OwnsTheOther /\ HelloFromUp /\ HelloMatches
  BY DEF OwnsItsLock, OwnsTheOther, HelloFromUp, HelloMatches
<1>3. TokenOnceSeated
  BY DEF TokenOnceSeated
<1>4. QED BY <1>1, <1>2, <1>3 DEF SeatInv

LEMMA RotatorIsAlone ==
  ASSUME SeatInv, NEW p \in Proc, pc[p] = "rotate"
  PROVE  \A q \in Proc : ~Up(q) /\ sent[q] = NoToken
<1>1. lock[Own(p)] = p /\ lock[Other(p)] = p
  BY DEF SeatInv, OwnsItsLock, OwnsTheOther, TypeOK
<1>2. ASSUME NEW q \in Proc, Seated(q) PROVE q = p
  BY <1>1, <1>2 DEF SeatInv, OwnsItsLock, TypeOK
<1>3. QED BY <1>2 DEF SeatInv, HelloFromUp, TypeOK

LEMMA SeatInvStep == ASSUME SeatInv, [Next]_vars PROVE SeatInv'
<1> USE DEF SeatInv, TypeOK, OwnsItsLock, OwnsTheOther, TokenOnceSeated, HelloFromUp,
            HelloMatches
<1>1. ASSUME NEW p \in Proc, StartUp(p) PROVE SeatInv'
  <2>1. CASE TakeOwnLock(p)       BY <2>1 DEF TakeOwnLock
  <2>2. CASE RefuseCore(p)        BY <2>2 DEF RefuseCore
  <2>3. CASE StartAgain(p)        BY <2>3 DEF StartAgain
  <2>4. CASE SecondLaunch(p)      BY <2>4 DEF SecondLaunch
  <2>5. CASE LeaveSecondLaunch(p) BY <2>5 DEF LeaveSecondLaunch
  <2>6. CASE Claim(p)             BY <2>6 DEF Claim
  <2>7. CASE Rotate(p)
    <3>1. \A q \in Proc : ~Up(q) /\ sent[q] = NoToken
      BY <2>7, RotatorIsAlone DEF Rotate
    <3>2. QED BY <2>7, <3>1 DEF Rotate, WriteToken
  <2>8. CASE Unclaim(p)           BY <2>8 DEF Unclaim
  <2>9. CASE ReadToken(p)         BY <2>9 DEF ReadToken
  <2>10. CASE CreateToken(p)
    <3>1. token = NoToken => \A q \in Proc : sent[q] = NoToken
      OBVIOUS
    <3>2. TypeOK' /\ OwnsItsLock' /\ OwnsTheOther' /\ HelloFromUp'
      BY <2>10 DEF CreateToken, WriteToken
    <3>3. TokenOnceSeated'
      BY <2>10 DEF CreateToken, WriteToken
    <3>4. HelloMatches'
      BY <2>10, <3>1 DEF CreateToken, WriteToken
    <3>5. QED BY <3>2, <3>3, <3>4
  <2>11. QED BY <1>1, <2>1, <2>2, <2>3, <2>4, <2>5, <2>6, <2>7, <2>8, <2>9,
                <2>10 DEF StartUp
<1>2. ASSUME NEW p \in Proc, Life(p) PROVE SeatInv'
  <2>1. CASE Probe(p)             BY <2>1 DEF Probe
  <2>2. CASE EndProbe(p)          BY <2>2 DEF EndProbe
  <2>3. CASE ReadForHello(p)      BY <2>3 DEF ReadForHello
  <2>4. CASE HelloDone(p)         BY <2>4 DEF HelloDone
  <2>5. CASE Quit(p)              BY <2>5 DEF Quit
  <2>6. CASE Crash(p)             BY <2>6 DEF Crash
  <2>7. QED BY <1>2, <2>1, <2>2, <2>3, <2>4, <2>5, <2>6 DEF Life
<1>3. CASE UNCHANGED vars
  BY <1>3 DEF vars
<1>4. QED BY <1>1, <1>2, <1>3 DEF Next

(* A hello a window has on its way always carries the token the core will     *)
(* compare it with (claim_session_token, read_token).                         *)
THEOREM HelloAlwaysMatches == Spec => []HelloMatches
<1>1. Init => SeatInv
  BY SeatInvInit
<1>2. SeatInv /\ [Next]_vars => SeatInv'
  BY SeatInvStep
<1>3. SeatInv => HelloMatches
  BY DEF SeatInv
<1>4. QED BY <1>1, <1>2, <1>3, PTL DEF Spec

(* Types hold. *)
THEOREM SeatTypes == Spec => []TypeOK
<1>1. Init => SeatInv
  BY SeatInvInit
<1>2. SeatInv /\ [Next]_vars => SeatInv'
  BY SeatInvStep
<1>3. SeatInv => TypeOK
  BY DEF SeatInv
<1>4. QED BY <1>1, <1>2, <1>3, PTL DEF Spec

(* A seat that is up always has a token to hand out (ensure_token).           *)
THEOREM SeatsHaveTokens == Spec => []SeatHasToken
<1>1. Init => SeatInv
  BY SeatInvInit
<1>2. SeatInv /\ [Next]_vars => SeatInv'
  BY SeatInvStep
<1>3. SeatInv => SeatHasToken
  BY DEF SeatInv, TokenOnceSeated, SeatHasToken
<1>4. QED BY <1>1, <1>2, <1>3, PTL DEF Spec

(* No step replaces the token while a seat is up (claim_session_token holds   *)
(* the other seat's lock while it rotates).                                   *)
THEOREM TokenStable == Spec => NoRotationUnderASeat
<1>1. Init => SeatInv
  BY SeatInvInit
<1>2. SeatInv /\ [Next]_vars => SeatInv'
  BY SeatInvStep
<1>3. ASSUME SeatInv, [Next]_vars
      PROVE  [token' # token /\ ~raced' => \A p \in Proc : ~Up(p)]_vars
  <2>1. ASSUME NEW p \in Proc, Rotate(p) PROVE \A q \in Proc : ~Up(q)
    BY <2>1, <1>3, RotatorIsAlone DEF Rotate
  <2>2. ASSUME NEW p \in Proc, CreateToken(p), ~raced'
        PROVE  \A q \in Proc : ~Up(q)
    BY <2>2, <1>3 DEF CreateToken, SeatInv, TokenOnceSeated
  <2>3. ASSUME NEW p \in Proc, StartUp(p), ~Rotate(p), ~CreateToken(p)
        PROVE  token' = token
    BY <2>3 DEF StartUp, TakeOwnLock, RefuseCore, StartAgain, SecondLaunch,
       LeaveSecondLaunch, Claim, Unclaim, ReadToken
  <2>4. ASSUME NEW p \in Proc, Life(p) PROVE token' = token
    BY <2>4 DEF Life, Probe, EndProbe, ReadForHello, HelloDone, Quit, Crash
  <2>5. QED BY <1>3, <2>1, <2>2, <2>3, <2>4 DEF Next, vars
<1>4. QED BY <1>1, <1>2, <1>3, PTL DEF Spec, NoRotationUnderASeat
=============================================================================
