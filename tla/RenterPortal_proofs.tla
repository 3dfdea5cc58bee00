------------------------ MODULE RenterPortal_proofs ------------------------
(***************************************************************************)
(* Whose documents a renter sees, for any number of requests, codes,       *)
(* renters and archived documents: the properties of RenterPortal.         *)
(***************************************************************************)
EXTENDS RenterPortal, TLAPS

\* A code that was issued is for a party of its tenancy.
IssuedForParty ==
    \A c \in Code : code[c] # Absent =>
        code[c] \in CodeRow /\ <<code[c].tenancy, code[c].renter>> \in Party

\* The request of a redemption, while its transaction has the code row locked:
\* what it checked is still so, and nobody else holds the code.
CodeClaim(s) ==
    txn[s].pc \in {"renter", "write"} =>
        /\ code[txn[s].code] # Absent
        /\ code[txn[s].code].tenancy = txn[s].tenancy
        /\ ~Spent(txn[s].code)
        /\ HoldsCode(txn[s].code) = {s}

\* What a refusal says of the code it names.
Evidenced(c, outcome) ==
    /\ outcome = "CODE_SPENT" /\ c # None => Spent(c)
    /\ outcome = "RENTER_ALREADY_LINKED" =>
          /\ c # None /\ code[c] # Absent
          /\ \E e \in redemption : e.renter = code[c].renter /\ e.code # c

RefusalClaim(s) == txn[s].pc = "refused" => Evidenced(txn[s].code, txn[s].outcome)

Refusals == \A a \in attempt : Evidenced(a.code, a.outcome)

\* One redemption per renter and per code, and the link it made.
Redemptions ==
    /\ \A e, f \in redemption : e.renter = f.renter \/ e.code = f.code => e = f
    /\ \A r \in Renter : link[r] # None <=> \E e \in redemption : e.renter = r
    /\ \A e \in redemption :
          /\ link[e.renter] = e.person
          /\ code[e.code] = [tenancy |-> e.tenancy, renter |-> e.renter]

LinkInv ==
    /\ TypeOK /\ IssuedForParty /\ Redemptions /\ Refusals
    /\ \A s \in Session : CodeClaim(s) /\ RefusalClaim(s)

\* A publication, and the request for one, is of its source's tenancy.
OwnTenancy ==
    /\ \A d \in Source : Published(d) => publication[d].tenancy = Archive[d].tenancy
    /\ \A s \in Session : txn[s].pc \in {"predecessor", "insert"} =>
          Archive[txn[s].source].tenancy = txn[s].tenancy

\* A request that is about to insert has seen its predecessor, and a publication
\* is never changed.
PublishClaim(s) ==
    LET x == txn[s]
        p == x.supersedes
    IN  /\ x.pc = "insert" /\ p # None =>
              /\ Published(p) /\ publication[p].tenancy = x.tenancy
              /\ Archive[p].type = Archive[x.source].type
        /\ x.pc = "answered" =>
              publication[x.source] = [tenancy |-> x.tenancy, supersedes |-> p]

\* The predecessor of a publication is one of its tenancy and type, and no
\* other publication's.
Succession ==
    \A d \in Source : LET p == publication[d].supersedes IN
        Published(d) /\ p # None =>
            /\ Published(p) /\ publication[p].tenancy = publication[d].tenancy
            /\ Archive[p].type = Archive[d].type
            /\ p # d /\ publication[p].supersedes # d
            /\ \A e \in Source \ {d} : Published(e) => publication[e].supersedes # p

PublicationInv ==
    /\ TypeOK /\ OwnTenancy /\ Succession
    /\ \A s \in Session : PublishClaim(s)

-----------------------------------------------------------------------------
(* Rows and requests.                                                      *)

LEMMA AbsentIsNoRow ==
    /\ Absent \notin CodeRow /\ Absent \notin PublicationRow
    /\ \A r \in CodeRow : r.tenancy \in Tenancy /\ r.renter \in Renter
    /\ \A r \in PublicationRow : r.tenancy \in Tenancy /\ r.supersedes \in Source \cup {None}
  BY DEF Absent, CodeRow, PublicationRow

\* Which fields a request has at its pc.
LEMMA RequestFields ==
    ASSUME NEW x \in Request
    PROVE  /\ x.pc \in RedeemPc => /\ x.person \in Person /\ x.tenancy \in Tenancy
                                   /\ x.code \in Code /\ x.expired \in BOOLEAN
           /\ x.pc = "refused" => x.code \in Code \cup {None} /\ x.outcome \in Outcome
           /\ x.pc \in {"predecessor", "insert", "answered"} =>
                 /\ x.source \in Source /\ x.tenancy \in Tenancy
                 /\ x.supersedes \in Source \cup {None}
           /\ x.pc = "idle" => x = Idle
  BY DEF Request, RedeemPc, Idle

LEMMA IdlePc == Idle.pc = "idle" /\ Idle \in Request
  BY DEF Idle, Request

LEMMA InitPortal == Init => LinkInv /\ PublicationInv
<1> SUFFICES ASSUME Init PROVE LinkInv /\ PublicationInv
  OBVIOUS
<1>1. TypeOK
  BY IdlePc DEF Init, TypeOK
<1>2. LinkInv
  BY <1>1, IdlePc DEF Init, LinkInv, IssuedForParty, Redemptions, Refusals, CodeClaim,
                      RefusalClaim
<1>3. PublicationInv
  BY <1>1, IdlePc DEF Init, PublicationInv, OwnTenancy, Succession, PublishClaim, Published
<1> QED
  BY <1>2, <1>3

-----------------------------------------------------------------------------
(* Types.                                                                  *)

\* The request of one session goes on.
LEMMA OneRequest ==
    ASSUME TypeOK, NEW s \in Session, NEW next \in Request,
           txn' = [txn EXCEPT ![s] = next]
    PROVE  /\ txn' \in [Session -> Request] /\ txn'[s] = next
           /\ \A t \in Session \ {s} : txn'[t] = txn[t]
  BY DEF TypeOK

LEMMA RefuseType ==
    ASSUME TypeOK, NEW s \in Session, NEW c \in Code \cup {None},
           NEW outcome \in Outcome, Refuse(s, c, outcome)
    PROVE  /\ [pc |-> "refused", code |-> c, outcome |-> outcome] \in Request
           /\ txn' = [txn EXCEPT ![s] = [pc |-> "refused", code |-> c, outcome |-> outcome]]
           /\ txn' \in [Session -> Request]
  BY DEF TypeOK, Refuse, Request

LEMMA NextPc ==
    ASSUME TypeOK, NEW s \in Session, NEW pc
    PROVE  /\ txn[s].pc \in RedeemPc /\ pc \in RedeemPc =>
                 /\ [txn[s] EXCEPT !.pc = pc] \in Request
                 /\ [txn[s] EXCEPT !.pc = pc].pc = pc
                 /\ [txn[s] EXCEPT !.pc = pc].code = txn[s].code
                 /\ [txn[s] EXCEPT !.pc = pc].tenancy = txn[s].tenancy
           /\ txn[s].pc = "predecessor" /\ pc = "insert" =>
                 /\ [txn[s] EXCEPT !.pc = pc] \in Request
                 /\ [txn[s] EXCEPT !.pc = pc].pc = pc
                 /\ [txn[s] EXCEPT !.pc = pc].source = txn[s].source
                 /\ [txn[s] EXCEPT !.pc = pc].tenancy = txn[s].tenancy
                 /\ [txn[s] EXCEPT !.pc = pc].supersedes = txn[s].supersedes
<1> DEFINE Redeem == [pc: RedeemPc, person: Person, tenancy: Tenancy, code: Code,
                      expired: BOOLEAN]
           Publishing == [pc: {"predecessor", "insert", "answered"}, source: Source,
                          tenancy: Tenancy, supersedes: Source \cup {None}]
<1>1. txn[s] \in Request
  BY DEF TypeOK
<1>2. ASSUME txn[s].pc \in RedeemPc, pc \in RedeemPc
      PROVE  /\ [txn[s] EXCEPT !.pc = pc] \in Redeem
             /\ [txn[s] EXCEPT !.pc = pc].pc = pc
             /\ [txn[s] EXCEPT !.pc = pc].code = txn[s].code
             /\ [txn[s] EXCEPT !.pc = pc].tenancy = txn[s].tenancy
  <2>1. txn[s] \in Redeem
    BY <1>1, <1>2 DEF Request, RedeemPc, Idle
  <2> QED
    BY <1>2, <2>1
<1>3. ASSUME txn[s].pc = "predecessor", pc = "insert"
      PROVE  /\ [txn[s] EXCEPT !.pc = pc] \in Publishing
             /\ [txn[s] EXCEPT !.pc = pc].pc = pc
             /\ [txn[s] EXCEPT !.pc = pc].source = txn[s].source
             /\ [txn[s] EXCEPT !.pc = pc].tenancy = txn[s].tenancy
             /\ [txn[s] EXCEPT !.pc = pc].supersedes = txn[s].supersedes
  <2>1. txn[s] \in Publishing
    BY <1>1, <1>3 DEF Request, RedeemPc, Idle
  <2> QED
    BY <1>3, <2>1
<1>4. Redeem \subseteq Request /\ Publishing \subseteq Request
  BY DEF Request
<1> HIDE DEF Redeem, Publishing
<1> QED
  BY <1>2, <1>3, <1>4

LEMMA PcStep ==
    ASSUME NEW s \in Session, NEW pc
    PROVE  [txn EXCEPT ![s].pc = pc] = [txn EXCEPT ![s] = [txn[s] EXCEPT !.pc = pc]]
  OBVIOUS

\* A redemption's refusal by the code alone, or by the renter.
LEMMA RefusalOf ==
    ASSUME NEW x
    PROVE  /\ CodeRefusal(x) \in (Outcome \ {"RENTER_ALREADY_LINKED"}) \cup {None}
           /\ CodeRefusal(x) = "CODE_SPENT" => Spent(x.code)
           /\ RenterRefusal(x) \in {"PERSON_UNKNOWN", "RENTER_ALREADY_LINKED", None}
           /\ RenterRefusal(x) = "RENTER_ALREADY_LINKED" => link[code[x.code].renter] # None
  BY PortalAssumption DEF CodeRefusal, RenterRefusal, Outcome, Unlinked

\* Every action keeps the types.
LEMMA TypeKeeps == TypeOK /\ (\A s \in Session : CodeClaim(s)) /\ [Next]_vars => TypeOK'
<1> SUFFICES ASSUME TypeOK, \A s \in Session : CodeClaim(s), [Next]_vars PROVE TypeOK'
  OBVIOUS
<1> USE DEF TypeOK
<1>0. ASSUME NEW c \in Code, Expire(c) PROVE TypeOK'
  BY <1>0 DEF Expire
<1>1. ASSUME NEW c \in Code, NEW t \in Tenancy, NEW r \in Renter, IssueCode(c, t, r)
      PROVE  TypeOK'
  <2>1. [tenancy |-> t, renter |-> r] \in CodeRow
    BY DEF CodeRow
  <2> QED
    BY <1>1, <2>1 DEF IssueCode
<1>2. ASSUME NEW s \in Session, NEW p \in Person, NEW t \in Tenancy, NEW c \in Code,
             BeginRedeem(s, p, t, c)
      PROVE  TypeOK'
  <2>1. [pc |-> "code", person |-> p, tenancy |-> t, code |-> c,
         expired |-> c \in expired] \in Request
    BY DEF Request, RedeemPc
  <2> QED
    BY <1>2, <2>1 DEF BeginRedeem
<1>3. ASSUME NEW s \in Session, NEW d \in Source, NEW t \in Tenancy,
             NEW p \in Source \cup {None}, Publish(s, d, t, p)
      PROVE  TypeOK'
  <2>1. \A pc \in {"predecessor", "insert", "answered"} :
            [pc |-> pc, source |-> d, tenancy |-> t, supersedes |-> p] \in Request
    BY DEF Request
  <2> QED
    BY <1>3, <2>1, IdlePc DEF Publish, Answer
<1>4. ASSUME NEW s \in Session, LockCode(s) PROVE TypeOK'
  <2> DEFINE x == txn[s]
             c == IF code[x.code] = Absent THEN None ELSE x.code
  <2>1. x.pc = "code" /\ x \in Request /\ x.code \in Code
    BY <1>4, RequestFields DEF LockCode, RedeemPc
  <2>2. UNCHANGED <<code, expired, redemption, link, attempt, publication>>
    BY <1>4 DEF LockCode
  <2>3. CASE CodeRefusal(x) = None
    BY <1>4, <2>1, <2>2, <2>3, NextPc, PcStep DEF LockCode, RedeemPc
  <2>4. CASE CodeRefusal(x) # None
    <3>1. CodeRefusal(x) \in Outcome /\ c \in Code \cup {None}
      BY <2>1, <2>4, RefusalOf
    <3>2. Refuse(s, c, CodeRefusal(x))
      BY <1>4, <2>4 DEF LockCode
    <3>3. txn' \in [Session -> Request]
      BY <3>1, <3>2, RefuseType
    <3> QED
      BY <2>2, <3>3
  <2> QED
    BY <2>3, <2>4
<1>5. ASSUME NEW s \in Session, LockRenter(s) PROVE TypeOK'
  <2> DEFINE x == txn[s]
  <2>1. x.pc = "renter" /\ x \in Request /\ x.code \in Code
    BY <1>5, RequestFields DEF LockRenter, RedeemPc
  <2>2. UNCHANGED <<code, expired, redemption, link, attempt, publication>>
    BY <1>5 DEF LockRenter
  <2>3. CASE RenterRefusal(x) = None
    BY <1>5, <2>1, <2>2, <2>3, NextPc, PcStep DEF LockRenter, RedeemPc
  <2>4. CASE RenterRefusal(x) # None
    <3>1. RenterRefusal(x) \in Outcome
      BY <2>4, RefusalOf DEF Outcome
    <3>2. Refuse(s, x.code, RenterRefusal(x)) /\ x.code \in Code \cup {None}
      BY <1>5, <2>1, <2>4 DEF LockRenter
    <3> DEFINE outcome == RenterRefusal(x)
    <3> HIDE DEF outcome
    <3>3. txn' \in [Session -> Request]
      BY <3>1, <3>2, RefuseType DEF outcome
    <3> QED
      BY <2>2, <3>3
  <2> QED
    BY <2>3, <2>4
<1>6. ASSUME NEW s \in Session, Link(s) PROVE TypeOK'
  <2> DEFINE x == txn[s]
             r == code[x.code].renter
  <2>1. /\ x.pc = "write" /\ x \in Request /\ x.code \in Code
        /\ x.person \in Person /\ x.tenancy \in Tenancy
    BY <1>6, RequestFields DEF Link, RedeemPc
  <2>2. UNCHANGED <<code, expired, attempt, publication>>
    BY <1>6 DEF Link
  <2>3. CASE ~Spent(x.code) /\ Unlinked(r) /\ x.code \notin expired
    <3>1. /\ redemption' = redemption \cup
                {[code |-> x.code, renter |-> r, tenancy |-> x.tenancy, person |-> x.person]}
          /\ link' = [link EXCEPT ![r] = x.person] /\ txn' = [txn EXCEPT ![s] = Idle]
      BY <1>6, <2>3 DEF Link
    <3>2. code[x.code] \in CodeRow
      BY <2>1 DEF CodeClaim
    <3>3. r \in Renter
      BY <3>2, AbsentIsNoRow
    <3>4. [code |-> x.code, renter |-> r, tenancy |-> x.tenancy, person |-> x.person]
             \in RedemptionRow
      BY <2>1, <3>3 DEF RedemptionRow
    <3> QED
      BY <2>1, <2>2, <3>1, <3>3, <3>4, IdlePc
  <2>4. CASE ~(~Spent(x.code) /\ Unlinked(r) /\ x.code \notin expired)
    <3>1. Refuse(s, None, "CODE_SPENT") /\ UNCHANGED <<redemption, link>>
      BY <1>6, <2>4 DEF Link
    <3>2. None \in Code \cup {None} /\ "CODE_SPENT" \in Outcome
      BY DEF Outcome
    <3>3. txn' \in [Session -> Request]
      BY <3>1, <3>2, RefuseType
    <3> QED
      BY <2>2, <3>1, <3>3
  <2> QED
    BY <2>3, <2>4
<1>7. ASSUME NEW s \in Session, PersistRefusal(s) PROVE TypeOK'
  <2>1. [code |-> txn[s].code, outcome |-> txn[s].outcome] \in AttemptRow
    BY <1>7, RequestFields DEF PersistRefusal, AttemptRow
  <2> QED
    BY <1>7, <2>1, IdlePc DEF PersistRefusal
<1>8. ASSUME NEW s \in Session, Crash(s) \/ Deliver(s) PROVE TypeOK'
  BY <1>8, IdlePc DEF Crash, Deliver
<1>9. ASSUME NEW s \in Session, VerifyPredecessor(s) PROVE TypeOK'
  <2>1. CASE txn' = [txn EXCEPT ![s].pc = "insert"]
    BY <1>9, <2>1, NextPc, PcStep DEF VerifyPredecessor
  <2>2. CASE Answer(s, txn[s].source, txn[s].tenancy, txn[s].supersedes, FALSE)
    BY <1>9, <2>2, IdlePc DEF VerifyPredecessor, Answer
  <2> QED
    BY <1>9, <2>1, <2>2 DEF VerifyPredecessor
<1>10. ASSUME NEW s \in Session, InsertPublication(s) PROVE TypeOK'
  <2> DEFINE x == txn[s]
             answer == [pc |-> "answered", source |-> x.source, tenancy |-> x.tenancy,
                        supersedes |-> x.supersedes]
  <2>1. /\ x.source \in Source /\ x.tenancy \in Tenancy
        /\ x.supersedes \in Source \cup {None}
    BY <1>10, RequestFields DEF InsertPublication
  <2>2. answer \in Request
    BY <2>1 DEF Request
  <2>3. txn' = [txn EXCEPT ![s] = answer] \/ txn' = [txn EXCEPT ![s] = Idle]
    BY <1>10 DEF InsertPublication, Answer
  <2>4. txn' \in [Session -> Request]
    BY <2>2, <2>3, IdlePc
  <2>5. publication' \in [Source -> PublicationRow \cup {Absent}]
    <3>1. [tenancy |-> x.tenancy, supersedes |-> x.supersedes] \in PublicationRow
      BY <2>1 DEF PublicationRow
    <3>2. \/ publication' = publication
          \/ publication' = [publication EXCEPT ![x.source] =
                               [tenancy |-> x.tenancy, supersedes |-> x.supersedes]]
      BY <1>10 DEF InsertPublication
    <3> QED
      BY <2>1, <3>1, <3>2
  <2> QED
    BY <1>10, <2>4, <2>5 DEF InsertPublication
<1>11. CASE UNCHANGED vars
  BY <1>11 DEF vars
<1> QED
  BY <1>0, <1>1, <1>2, <1>3, <1>4, <1>5, <1>6, <1>7, <1>8, <1>9, <1>10, <1>11 DEF Next, Step

-----------------------------------------------------------------------------
(* Redemptions.                                                            *)

\* A step of one request that leaves codes, redemptions and links alone.
LEMMA RequestStep ==
    ASSUME LinkInv, TypeOK', NEW s \in Session, NEW next \in Request,
           txn' = [txn EXCEPT ![s] = next], UNCHANGED <<code, redemption, link>>,
           Refusals',
           next.pc \in {"renter", "write"} =>
               /\ HoldsCode(next.code) \subseteq {s}
               /\ code[next.code] # Absent /\ code[next.code].tenancy = next.tenancy
               /\ ~Spent(next.code),
           next.pc = "refused" => Evidenced(next.code, next.outcome)
    PROVE  LinkInv'
<1>1. /\ txn'[s] = next /\ \A t \in Session \ {s} : txn'[t] = txn[t]
  BY OneRequest DEF LinkInv
<1>2. \A c : Spent(c)' <=> Spent(c)
  BY DEF Spent
<1>3. \A c, o : Evidenced(c, o)' <=> Evidenced(c, o)
  BY <1>2 DEF Evidenced
<1>4. CodeClaim(s)'
  <2> SUFFICES ASSUME next.pc \in {"renter", "write"}
               PROVE  HoldsCode(next.code)' = {s}
    BY <1>1, <1>2 DEF CodeClaim
  <2> QED
    BY <1>1 DEF HoldsCode
<1>5. ASSUME NEW t \in Session \ {s} PROVE CodeClaim(t)'
  <2> SUFFICES ASSUME txn[t].pc \in {"renter", "write"}
               PROVE  HoldsCode(txn[t].code)' = {t}
    BY <1>1, <1>2 DEF CodeClaim, LinkInv
  <2>1. HoldsCode(txn[t].code) = {t}
    BY DEF LinkInv, CodeClaim
  <2>2. t \in HoldsCode(txn[t].code)
    BY <2>1
  <2>3. next.pc \in {"renter", "write"} => next.code # txn[t].code
    BY <2>2
  <2>4. s \notin HoldsCode(txn[t].code)'
    BY <1>1, <2>3 DEF HoldsCode
  <2>5. \A u \in Session \ {s} : u \in HoldsCode(txn[t].code)' <=> u \in HoldsCode(txn[t].code)
    BY <1>1 DEF HoldsCode
  <2>6. HoldsCode(txn[t].code)' \subseteq Session
    BY DEF HoldsCode
  <2> QED
    BY <2>1, <2>4, <2>5, <2>6
<1>6. \A t \in Session : RefusalClaim(t)'
  BY <1>1, <1>3 DEF LinkInv, RefusalClaim
<1>7. IssuedForParty' /\ Redemptions'
  BY DEF LinkInv, IssuedForParty, Redemptions
<1> QED
  BY <1>4, <1>5, <1>6, <1>7 DEF LinkInv

\* The evidence that is there is still evidence.
LEMMA RefusalsUnchanged ==
    ASSUME LinkInv, UNCHANGED <<code, redemption, attempt>> PROVE Refusals'
  BY DEF LinkInv, Refusals, Evidenced, Spent

LEMMA IssueKeeps ==
    ASSUME LinkInv, TypeOK', NEW c \in Code, NEW t \in Tenancy, NEW r \in Renter,
           IssueCode(c, t, r)
    PROVE  LinkInv'
<1> DEFINE row == [tenancy |-> t, renter |-> r]
<1>1. /\ code[c] = Absent /\ <<t, r>> \in Party /\ code' = [code EXCEPT ![c] = row]
      /\ UNCHANGED <<expired, redemption, link, attempt, publication, txn>>
  BY DEF IssueCode
<1>2. row \in CodeRow /\ row.tenancy = t /\ row.renter = r
  BY DEF CodeRow
<1> HIDE DEF row
<1>3. code'[c] = row /\ \A d \in Code \ {c} : code'[d] = code[d]
  BY <1>1 DEF LinkInv, TypeOK
<1>4. \A d \in Code : code[d] # Absent => code'[d] = code[d]
  BY <1>1, <1>3
<1>5. IssuedForParty'
  BY <1>1, <1>2, <1>3 DEF LinkInv, IssuedForParty
<1>6. \A e \in redemption : e.code \in Code /\ code[e.code] # Absent
  <2> SUFFICES ASSUME NEW e \in redemption PROVE e.code \in Code /\ code[e.code] # Absent
    OBVIOUS
  <2>1. e.code \in Code /\ e.tenancy \in Tenancy /\ e.renter \in Renter
    BY DEF LinkInv, TypeOK, RedemptionRow
  <2>2. [tenancy |-> e.tenancy, renter |-> e.renter] \in CodeRow
    BY <2>1 DEF CodeRow
  <2> QED
    BY <2>1, <2>2, AbsentIsNoRow DEF LinkInv, Redemptions
<1>7. Redemptions'
  BY <1>1, <1>4, <1>6 DEF LinkInv, Redemptions
<1>8. ASSUME NEW x \in Code \cup {None}, NEW outcome, Evidenced(x, outcome)
      PROVE  Evidenced(x, outcome)'
  BY <1>1, <1>4, <1>8 DEF Evidenced, Spent
<1>9. \A a \in attempt : a.code \in Code \cup {None}
  BY DEF LinkInv, TypeOK, AttemptRow
<1>10. Refusals'
  BY <1>1, <1>8, <1>9 DEF LinkInv, Refusals
<1>11. ASSUME NEW s \in Session PROVE CodeClaim(s)' /\ RefusalClaim(s)'
  <2>1. txn[s] \in Request
    BY DEF LinkInv, TypeOK
  <2>2. txn[s].pc \in {"renter", "write"} => txn[s].code \in Code
    BY <2>1, RequestFields DEF RedeemPc
  <2>3. CodeClaim(s)'
    BY <1>1, <1>4, <2>2 DEF LinkInv, CodeClaim, Spent, HoldsCode
  <2>4. txn[s].pc = "refused" => txn[s].code \in Code \cup {None}
    BY <2>1, RequestFields
  <2>5. RefusalClaim(s)'
    BY <1>1, <1>8, <2>4 DEF LinkInv, RefusalClaim
  <2> QED
    BY <2>3, <2>5
<1> QED
  BY <1>5, <1>7, <1>10, <1>11 DEF LinkInv

LEMMA BeginKeeps ==
    ASSUME LinkInv, TypeOK', NEW s \in Session, NEW p \in Person, NEW t \in Tenancy,
           NEW c \in Code, BeginRedeem(s, p, t, c)
    PROVE  LinkInv'
<1> DEFINE next == [pc |-> "code", person |-> p, tenancy |-> t, code |-> c,
                    expired |-> c \in expired]
<1>1. next \in Request /\ next.pc = "code"
  BY DEF Request, RedeemPc
<1>2. txn' = [txn EXCEPT ![s] = next] /\ UNCHANGED <<code, redemption, link, attempt>>
  BY DEF BeginRedeem
<1> HIDE DEF next
<1> QED
  BY <1>1, <1>2, RequestStep, RefusalsUnchanged

\* The lock on the code row is granted when nobody holds it.
LEMMA LockCodeKeeps ==
    ASSUME LinkInv, TypeOK', NEW s \in Session, LockCode(s)
    PROVE  LinkInv'
<1> DEFINE x == txn[s]
<1>1. x.pc = "code" /\ x \in Request /\ x.code \in Code /\ TypeOK
  BY RequestFields DEF LockCode, LinkInv, TypeOK, RedeemPc
<1>2. HoldsCode(x.code) = {} /\ UNCHANGED <<code, redemption, link, attempt>>
  BY <1>1 DEF LockCode, WaitsFor
<1>3. CASE CodeRefusal(x) = None
  <2> DEFINE next == [x EXCEPT !.pc = "renter"]
  <2>1. /\ next \in Request /\ next.pc = "renter" /\ next.code = x.code
        /\ next.tenancy = x.tenancy
    BY <1>1, NextPc DEF RedeemPc
  <2>2. txn' = [txn EXCEPT ![s] = next]
    BY <1>3, PcStep DEF LockCode
  <2>3. code[x.code] # Absent /\ code[x.code].tenancy = x.tenancy /\ ~Spent(x.code)
    BY <1>3, PortalAssumption DEF CodeRefusal, Outcome
  <2> HIDE DEF next
  <2> QED
    BY <1>2, <2>1, <2>2, <2>3, RequestStep, RefusalsUnchanged
<1>4. CASE CodeRefusal(x) # None
  <2> DEFINE c == IF code[x.code] = Absent THEN None ELSE x.code
             outcome == CodeRefusal(x)
             next == [pc |-> "refused", code |-> c, outcome |-> outcome]
  <2>1. /\ outcome \in Outcome \ {"RENTER_ALREADY_LINKED"}
        /\ outcome = "CODE_SPENT" => Spent(x.code)
    BY <1>4, RefusalOf
  <2>2. Refuse(s, c, outcome) /\ c \in Code \cup {None} /\ (c # None => c = x.code)
    BY <1>1, <1>4 DEF LockCode
  <2> HIDE DEF c, outcome
  <2>3. next \in Request /\ txn' = [txn EXCEPT ![s] = next]
    BY <1>1, <2>1, <2>2, RefuseType
  <2>4. next.pc = "refused" /\ Evidenced(next.code, next.outcome)
    BY <2>1, <2>2 DEF Evidenced
  <2> HIDE DEF next
  <2> QED
    BY <1>2, <2>3, <2>4, RequestStep, RefusalsUnchanged
<1> QED
  BY <1>3, <1>4

\* A renter who is linked already was linked by another code: the request has
\* this one locked, and it was not spent.
LEMMA LockRenterKeeps ==
    ASSUME LinkInv, TypeOK', NEW s \in Session, LockRenter(s)
    PROVE  LinkInv'
<1> DEFINE x == txn[s]
<1>1. x.pc = "renter" /\ x \in Request /\ x.code \in Code /\ TypeOK
  BY RequestFields DEF LockRenter, LinkInv, TypeOK, RedeemPc
<1>2. UNCHANGED <<code, redemption, link, attempt>>
  BY DEF LockRenter
<1>3. /\ code[x.code] # Absent /\ code[x.code].tenancy = x.tenancy /\ ~Spent(x.code)
      /\ HoldsCode(x.code) = {s}
  BY <1>1 DEF LinkInv, CodeClaim
<1>4. CASE RenterRefusal(x) = None
  <2> DEFINE next == [x EXCEPT !.pc = "write"]
  <2>1. /\ next \in Request /\ next.pc = "write" /\ next.code = x.code
        /\ next.tenancy = x.tenancy
    BY <1>1, NextPc DEF RedeemPc
  <2>2. txn' = [txn EXCEPT ![s] = next]
    BY <1>4, PcStep DEF LockRenter
  <2> HIDE DEF next
  <2> QED
    BY <1>2, <1>3, <2>1, <2>2, RequestStep, RefusalsUnchanged
<1>5. CASE RenterRefusal(x) # None
  <2> DEFINE outcome == RenterRefusal(x)
             next == [pc |-> "refused", code |-> x.code, outcome |-> outcome]
  <2>1. /\ outcome \in {"PERSON_UNKNOWN", "RENTER_ALREADY_LINKED"}
        /\ outcome = "RENTER_ALREADY_LINKED" => link[code[x.code].renter] # None
    BY <1>5, RefusalOf
  <2>2. Refuse(s, x.code, outcome) /\ x.code \in Code \cup {None} /\ x.code # None
    BY <1>1, <1>5, PortalAssumption DEF LockRenter
  <2> HIDE DEF outcome
  <2>0. outcome \in Outcome
    BY <2>1 DEF Outcome
  <2>3. next \in Request /\ txn' = [txn EXCEPT ![s] = next]
    BY <1>1, <2>0, <2>2, RefuseType
  <2>4. code[x.code].renter \in Renter
    BY <1>1, <1>3, AbsentIsNoRow DEF LinkInv, IssuedForParty
  <2>5. outcome = "RENTER_ALREADY_LINKED" =>
            \E e \in redemption : e.renter = code[x.code].renter /\ e.code # x.code
    BY <1>3, <2>1, <2>4 DEF LinkInv, Redemptions, Spent
  <2>6. next.pc = "refused" /\ Evidenced(next.code, next.outcome)
    BY <1>3, <2>1, <2>2, <2>5 DEF Evidenced
  <2> HIDE DEF next
  <2> QED
    BY <1>2, <2>3, <2>6, RequestStep, RefusalsUnchanged
<1> QED
  BY <1>4, <1>5

\* The evidence and the link, or a refusal by the index or the trigger.
LEMMA LinkKeeps ==
    ASSUME LinkInv, TypeOK', NEW s \in Session, Link(s)
    PROVE  LinkInv'
<1> DEFINE x == txn[s]
           r == code[x.code].renter
           e == [code |-> x.code, renter |-> r, tenancy |-> x.tenancy, person |-> x.person]
<1>1. /\ x.pc = "write" /\ x \in Request /\ x.code \in Code /\ TypeOK
      /\ x.person \in Person
  BY RequestFields DEF Link, LinkInv, TypeOK, RedeemPc
<1>2. UNCHANGED <<code, expired, attempt, publication>>
  BY DEF Link
<1>3. /\ code[x.code] \in CodeRow /\ code[x.code].tenancy = x.tenancy
      /\ HoldsCode(x.code) = {s}
  BY <1>1 DEF LinkInv, CodeClaim, IssuedForParty
<1>4. r \in Renter
  BY <1>3, AbsentIsNoRow
<1>5. CASE ~Spent(x.code) /\ Unlinked(r) /\ x.code \notin expired
  <2>1. /\ redemption' = redemption \cup {e} /\ link' = [link EXCEPT ![r] = x.person]
        /\ txn' = [txn EXCEPT ![s] = Idle]
    BY <1>5 DEF Link
  <2>2. /\ e.code = x.code /\ e.renter = r /\ e.person = x.person
        /\ code[e.code] = [tenancy |-> e.tenancy, renter |-> e.renter]
    BY <1>3 DEF CodeRow
  <2>3. \A f \in redemption : f.code # x.code /\ f.renter # r
    BY <1>4, <1>5 DEF LinkInv, Redemptions, Spent, Unlinked
  <2>4. x.person # None
    BY <1>1, PortalAssumption
  <2>5. \A q \in Renter : link'[q] = IF q = r THEN x.person ELSE link[q]
    BY <1>1, <1>4, <2>1 DEF TypeOK
  <2>6. \A f \in redemption : f.renter \in Renter
    BY <1>1 DEF TypeOK, RedemptionRow
  <2> HIDE DEF e
  <2>7. Redemptions'
    <3>1. \A f, g \in redemption' : f.renter = g.renter \/ f.code = g.code => f = g
      BY <2>1, <2>2, <2>3 DEF LinkInv, Redemptions
    <3>2. \A q \in Renter : link'[q] # None <=> \E f \in redemption' : f.renter = q
      BY <2>1, <2>2, <2>4, <2>5 DEF LinkInv, Redemptions
    <3>3. \A f \in redemption' :
              /\ link'[f.renter] = f.person
              /\ code'[f.code] = [tenancy |-> f.tenancy, renter |-> f.renter]
      <4>1. ASSUME NEW f \in redemption
            PROVE  /\ link'[f.renter] = f.person
                   /\ code'[f.code] = [tenancy |-> f.tenancy, renter |-> f.renter]
        BY <1>2, <2>3, <2>5, <2>6 DEF LinkInv, Redemptions
      <4>2. link'[e.renter] = e.person
        BY <1>4, <2>2, <2>5
      <4>3. code'[e.code] = [tenancy |-> e.tenancy, renter |-> e.renter]
        BY <1>2, <2>2
      <4> QED
        BY <2>1, <4>1, <4>2, <4>3
    <3> QED
      BY <3>1, <3>2, <3>3 DEF Redemptions
  <2>8. ASSUME NEW c, NEW outcome, Evidenced(c, outcome) PROVE Evidenced(c, outcome)'
    BY <1>2, <2>1, <2>8 DEF Evidenced, Spent
  <2>9. Refusals'
    BY <1>2, <2>8 DEF LinkInv, Refusals
  <2>10. /\ txn'[s] = Idle /\ \A t \in Session \ {s} : txn'[t] = txn[t]
    BY <1>1, <2>1, IdlePc, OneRequest
  <2>11. ASSUME NEW t \in Session PROVE RefusalClaim(t)'
    BY <2>8, <2>10, IdlePc DEF LinkInv, RefusalClaim
  <2>12. CodeClaim(s)'
    BY <2>10, IdlePc DEF CodeClaim
  <2>13. ASSUME NEW t \in Session \ {s}, txn[t].pc \in {"renter", "write"}
         PROVE  CodeClaim(t)'
    <3>1. /\ code[txn[t].code] # Absent /\ code[txn[t].code].tenancy = txn[t].tenancy
          /\ ~Spent(txn[t].code) /\ HoldsCode(txn[t].code) = {t}
      BY <2>13 DEF LinkInv, CodeClaim
    <3>2. txn[t].code # x.code
      BY <1>3, <3>1
    <3>3. ~Spent(txn[t].code)'
      BY <2>1, <2>2, <2>10, <3>1, <3>2 DEF Spent
    <3>4. HoldsCode(txn[t].code)' = {t}
      BY <2>10, <3>1, IdlePc DEF HoldsCode
    <3> QED
      BY <1>2, <2>10, <3>1, <3>3, <3>4 DEF CodeClaim
  <2>14. ASSUME NEW t \in Session \ {s}, txn[t].pc \notin {"renter", "write"}
         PROVE  CodeClaim(t)'
    BY <2>10, <2>14 DEF CodeClaim
  <2>15. IssuedForParty'
    BY <1>2 DEF LinkInv, IssuedForParty
  <2> QED
    BY <2>7, <2>9, <2>11, <2>12, <2>13, <2>14, <2>15 DEF LinkInv
<1>6. CASE ~(~Spent(x.code) /\ Unlinked(r) /\ x.code \notin expired)
  <2> DEFINE next == [pc |-> "refused", code |-> None, outcome |-> "CODE_SPENT"]
  <2>1. Refuse(s, None, "CODE_SPENT") /\ UNCHANGED <<redemption, link>>
    BY <1>6 DEF Link
  <2>2. None \in Code \cup {None} /\ "CODE_SPENT" \in Outcome
    BY DEF Outcome
  <2>3. next \in Request /\ txn' = [txn EXCEPT ![s] = next]
    BY <1>1, <2>1, <2>2, RefuseType
  <2>4. next.pc = "refused" /\ Evidenced(next.code, next.outcome)
    BY DEF Evidenced
  <2> HIDE DEF next
  <2> QED
    BY <1>2, <2>1, <2>3, <2>4, RequestStep, RefusalsUnchanged
<1> QED
  BY <1>5, <1>6

LEMMA PersistKeeps ==
    ASSUME LinkInv, TypeOK', NEW s \in Session, PersistRefusal(s)
    PROVE  LinkInv'
<1> DEFINE x == txn[s]
           a == [code |-> x.code, outcome |-> x.outcome]
<1>1. /\ x.pc = "refused" /\ attempt' = attempt \cup {a}
      /\ txn' = [txn EXCEPT ![s] = Idle] /\ UNCHANGED <<code, redemption, link>>
  BY DEF PersistRefusal
<1>2. Evidenced(x.code, x.outcome) /\ a.code = x.code /\ a.outcome = x.outcome
  BY <1>1 DEF LinkInv, RefusalClaim
<1> HIDE DEF a
<1>3. \A b \in attempt' : Evidenced(b.code, b.outcome)
  BY <1>1, <1>2 DEF LinkInv, Refusals
<1>4. Refusals'
  BY <1>1, <1>3 DEF Refusals, Evidenced, Spent
<1> QED
  BY <1>1, <1>4, IdlePc, RequestStep

LEMMA CrashKeeps ==
    ASSUME LinkInv, TypeOK', NEW s \in Session, Crash(s) \/ Deliver(s)
    PROVE  LinkInv'
<1>1. txn' = [txn EXCEPT ![s] = Idle] /\ UNCHANGED <<code, redemption, link, attempt>>
  BY DEF Crash, Deliver
<1> QED
  BY <1>1, IdlePc, RequestStep, RefusalsUnchanged

\* A publishing request holds no code and claims no refusal.
LEMMA PublishingStep ==
    ASSUME LinkInv, TypeOK', NEW s \in Session, NEW next \in Request,
           txn' = [txn EXCEPT ![s] = next], UNCHANGED <<code, redemption, link, attempt>>,
           next.pc \in {"idle", "predecessor", "insert", "answered"}
    PROVE  LinkInv'
  BY RequestStep, RefusalsUnchanged

LEMMA AnswerType ==
    ASSUME NEW d \in Source, NEW t \in Tenancy, NEW p \in Source \cup {None}
    PROVE  \E next \in Request :
              /\ next = [pc |-> "answered", source |-> d, tenancy |-> t, supersedes |-> p]
              /\ next.pc = "answered" /\ next.source = d /\ next.tenancy = t
              /\ next.supersedes = p
<1>1. [pc |-> "answered", source |-> d, tenancy |-> t, supersedes |-> p] \in Request
  BY DEF Request
<1> QED
  BY <1>1

LEMMA ExpireKeeps ==
    ASSUME LinkInv, TypeOK', NEW c \in Code, Expire(c)
    PROVE  LinkInv'
<1>1. UNCHANGED <<code, redemption, link, attempt, publication, txn>>
  BY DEF Expire
<1> QED
  BY <1>1 DEF LinkInv, IssuedForParty, Redemptions, Refusals, Evidenced, Spent, CodeClaim,
              RefusalClaim, HoldsCode

-----------------------------------------------------------------------------
(* Publications.                                                           *)

PublishPc == {"predecessor", "insert", "answered"}

\* A step of one request that publishes nothing.
LEMMA PublicationsAlone ==
    ASSUME PublicationInv, TypeOK', NEW s \in Session, UNCHANGED publication,
           \A t \in Session \ {s} : txn'[t] = txn[t],
           txn'[s].pc \in {"predecessor", "insert"} =>
               Archive[txn'[s].source].tenancy = txn'[s].tenancy,
           PublishClaim(s)'
    PROVE  PublicationInv'
<1>1. ASSUME NEW t \in Session \ {s} PROVE PublishClaim(t)'
  BY DEF PublicationInv, PublishClaim, Published
<1>2. OwnTenancy'
  BY DEF PublicationInv, OwnTenancy, Published
<1>3. Succession'
  BY DEF PublicationInv, Succession, Published
<1> QED
  BY <1>1, <1>2, <1>3 DEF PublicationInv

\* A redemption's step has nothing to do with publications.
LEMMA RedeemingAside ==
    ASSUME PublicationInv, TypeOK', NEW s \in Session, UNCHANGED publication,
           NEW next, txn' = [txn EXCEPT ![s] = next], next.pc \notin PublishPc
    PROVE  PublicationInv'
<1>1. txn'[s] = next /\ \A t \in Session \ {s} : txn'[t] = txn[t]
  BY DEF PublicationInv, TypeOK
<1>2. PublishClaim(s)'
  BY <1>1 DEF PublishClaim, PublishPc
<1> QED
  BY <1>1, <1>2, PublicationsAlone DEF PublishPc

LEMMA RedemptionSteps ==
    ASSUME PublicationInv, TypeOK', NEW s \in Session,
           \/ \E p \in Person, t \in Tenancy, c \in Code : BeginRedeem(s, p, t, c)
           \/ LockCode(s) \/ LockRenter(s) \/ Link(s) \/ PersistRefusal(s)
           \/ Deliver(s) \/ Crash(s)
    PROVE  PublicationInv'
<1>0. TypeOK /\ UNCHANGED publication
  BY DEF PublicationInv, BeginRedeem, LockCode, LockRenter, Link, PersistRefusal, Deliver, Crash
<1>1. ASSUME NEW c, NEW outcome, Refuse(s, c, outcome) PROVE PublicationInv'
  <2> DEFINE next == [pc |-> "refused", code |-> c, outcome |-> outcome]
  <2>1. txn' = [txn EXCEPT ![s] = next] /\ next.pc \notin PublishPc
    BY <1>1 DEF Refuse, PublishPc
  <2> HIDE DEF next
  <2> QED
    BY <1>0, <2>1, RedeemingAside
<1>2. ASSUME txn' = [txn EXCEPT ![s] = Idle] PROVE PublicationInv'
  BY <1>0, <1>2, IdlePc, RedeemingAside DEF PublishPc
<1>3. ASSUME NEW pc \in RedeemPc, txn[s].pc \in RedeemPc, txn' = [txn EXCEPT ![s].pc = pc]
      PROVE  PublicationInv'
  <2> DEFINE next == [txn[s] EXCEPT !.pc = pc]
  <2>1. txn' = [txn EXCEPT ![s] = next]
    BY <1>3, PcStep
  <2>2. next.pc = pc
    BY <1>0, <1>3, NextPc
  <2>3. next.pc \notin PublishPc
    BY <2>2 DEF RedeemPc, PublishPc
  <2> HIDE DEF next
  <2> QED
    BY <1>0, <2>1, <2>3, RedeemingAside
<1>4. ASSUME NEW p \in Person, NEW t \in Tenancy, NEW c \in Code, BeginRedeem(s, p, t, c)
      PROVE  PublicationInv'
  <2> DEFINE next == [pc |-> "code", person |-> p, tenancy |-> t, code |-> c,
                      expired |-> c \in expired]
  <2>1. txn' = [txn EXCEPT ![s] = next] /\ next.pc \notin PublishPc
    BY <1>4 DEF BeginRedeem, PublishPc
  <2> HIDE DEF next
  <2> QED
    BY <1>0, <2>1, RedeemingAside
<1>5. CASE LockCode(s)
  <2>1. \/ \E c, o : Refuse(s, c, o)
        \/ txn[s].pc = "code" /\ txn' = [txn EXCEPT ![s].pc = "renter"]
    BY <1>5 DEF LockCode
  <2> QED
    BY <1>1, <1>3, <2>1 DEF RedeemPc
<1>6. CASE LockRenter(s)
  <2>1. \/ \E c, o : Refuse(s, c, o)
        \/ txn[s].pc = "renter" /\ txn' = [txn EXCEPT ![s].pc = "write"]
    BY <1>6 DEF LockRenter
  <2> QED
    BY <1>1, <1>3, <2>1 DEF RedeemPc
<1>7. CASE Link(s) \/ PersistRefusal(s) \/ Deliver(s) \/ Crash(s)
  <2>1. (\E c, o : Refuse(s, c, o)) \/ txn' = [txn EXCEPT ![s] = Idle]
    BY <1>7 DEF Link, PersistRefusal, Deliver, Crash
  <2> QED
    BY <1>1, <1>2, <2>1
<1> QED
  BY <1>4, <1>5, <1>6, <1>7

\* An answer is the publication asked for, or nothing.
LEMMA AnswerKeeps ==
    ASSUME LinkInv, PublicationInv, TypeOK', NEW s \in Session, NEW d \in Source,
           NEW t \in Tenancy, NEW p \in Source \cup {None},
           \/ Answer(s, d, t, p, TRUE) /\ SamePublication(d, t, p)
           \/ Answer(s, d, t, p, FALSE),
           UNCHANGED <<code, redemption, link, attempt, publication>>
    PROVE  LinkInv' /\ PublicationInv'
<1>1. PICK next \in Request :
          /\ txn' = [txn EXCEPT ![s] = next]
          /\ \/ next = Idle
             \/ /\ next.pc = "answered" /\ next.source = d /\ next.tenancy = t
                /\ next.supersedes = p /\ SamePublication(d, t, p)
  BY AnswerType, IdlePc DEF Answer
<1>2. next.pc \in {"idle", "answered"}
  BY <1>1, IdlePc
<1>3. txn'[s] = next /\ \A u \in Session \ {s} : txn'[u] = txn[u]
  BY <1>1 DEF LinkInv, TypeOK
<1>4. PublishClaim(s)'
  BY <1>1, <1>3, IdlePc DEF PublishClaim, SamePublication
<1> QED
  BY <1>1, <1>2, <1>3, <1>4, PublishingStep, PublicationsAlone

LEMMA PublishKeeps ==
    ASSUME LinkInv, PublicationInv, TypeOK', NEW s \in Session, NEW d \in Source,
           NEW t \in Tenancy, NEW p \in Source \cup {None}, Publish(s, d, t, p)
    PROVE  LinkInv' /\ PublicationInv'
<1>1. UNCHANGED <<code, redemption, link, attempt, publication>>
  BY DEF Publish
<1>2. CASE Published(d)
  <2>1. \/ Answer(s, d, t, p, TRUE) /\ SamePublication(d, t, p)
        \/ Answer(s, d, t, p, FALSE)
    BY <1>2 DEF Publish, Answer
  <2> QED
    BY <1>1, <2>1, AnswerKeeps
<1>3. CASE ~Published(d) /\ ~(OwnSource(d, t) /\ Archive[d].publishable)
  <2>1. Answer(s, d, t, p, FALSE)
    BY <1>3 DEF Publish
  <2> QED
    BY <1>1, <2>1, AnswerKeeps
<1>4. CASE ~Published(d) /\ OwnSource(d, t) /\ Archive[d].publishable
  <2> DEFINE next == [pc |-> "predecessor", source |-> d, tenancy |-> t, supersedes |-> p]
  <2>1. /\ next \in Request /\ next.pc = "predecessor"
        /\ Archive[next.source].tenancy = next.tenancy
    BY <1>4 DEF Request, OwnSource
  <2>2. txn' = [txn EXCEPT ![s] = next]
    BY <1>4 DEF Publish
  <2> HIDE DEF next
  <2>3. txn'[s] = next /\ \A u \in Session \ {s} : txn'[u] = txn[u]
    BY <2>2 DEF LinkInv, TypeOK
  <2>4. PublishClaim(s)'
    BY <2>1, <2>3 DEF PublishClaim
  <2> QED
    BY <1>1, <2>1, <2>2, <2>3, <2>4, PublishingStep, PublicationsAlone
<1> QED
  BY <1>2, <1>3, <1>4

\* A publishing request names a source, a tenancy and a predecessor.
LEMMA PublishingFields ==
    ASSUME TypeOK, NEW s \in Session, txn[s].pc \in PublishPc
    PROVE  /\ txn[s].source \in Source /\ txn[s].tenancy \in Tenancy
           /\ txn[s].supersedes \in Source \cup {None}
<1>1. txn[s] \in Request
  BY DEF TypeOK
<1> QED
  BY <1>1, RequestFields DEF PublishPc

LEMMA VerifyKeeps ==
    ASSUME LinkInv, PublicationInv, TypeOK', NEW s \in Session, VerifyPredecessor(s)
    PROVE  LinkInv' /\ PublicationInv'
<1> DEFINE x == txn[s]
           p == x.supersedes
<1>1. /\ x.pc = "predecessor" /\ TypeOK
      /\ UNCHANGED <<code, redemption, link, attempt, publication>>
  BY DEF VerifyPredecessor, LinkInv
<1>2. x.source \in Source /\ x.tenancy \in Tenancy /\ p \in Source \cup {None}
  BY <1>1, PublishingFields DEF PublishPc
<1>3. CASE ~(\/ p = None
             \/ /\ Published(p) /\ publication[p].tenancy = x.tenancy
                /\ Archive[p].type = Archive[x.source].type)
  <2>1. Answer(s, x.source, x.tenancy, p, FALSE)
    BY <1>3 DEF VerifyPredecessor
  <2> QED
    BY <1>1, <1>2, <2>1, AnswerKeeps
<1>4. CASE \/ p = None
           \/ /\ Published(p) /\ publication[p].tenancy = x.tenancy
              /\ Archive[p].type = Archive[x.source].type
  <2> DEFINE next == [x EXCEPT !.pc = "insert"]
  <2>1. txn' = [txn EXCEPT ![s] = next]
    BY <1>4, PcStep DEF VerifyPredecessor
  <2>2. /\ next \in Request /\ next.pc = "insert" /\ next.source = x.source
        /\ next.tenancy = x.tenancy /\ next.supersedes = p
    BY <1>1, NextPc
  <2> HIDE DEF next
  <2>3. txn'[s] = next /\ \A u \in Session \ {s} : txn'[u] = txn[u]
    BY <1>1, <2>1 DEF TypeOK
  <2>4. Archive[next.source].tenancy = next.tenancy
    BY <1>1, <2>2 DEF PublicationInv, OwnTenancy
  <2>5. PublishClaim(s)'
    BY <1>1, <1>4, <2>2, <2>3 DEF PublishClaim, Published
  <2> QED
    BY <1>1, <2>1, <2>2, <2>3, <2>4, <2>5, PublishingStep, PublicationsAlone
<1> QED
  BY <1>3, <1>4

\* The unique indexes decide: the new publication succeeds one that nobody
\* else succeeds, and nothing can already succeed it.
LEMMA InsertKeeps ==
    ASSUME LinkInv, PublicationInv, TypeOK', NEW s \in Session, InsertPublication(s)
    PROVE  LinkInv' /\ PublicationInv'
<1>1. txn[s].pc = "insert" /\ TypeOK /\ UNCHANGED <<code, redemption, link, attempt>>
  BY DEF InsertPublication, LinkInv
<1>2. PICK d \in Source, t \in Tenancy, p \in Source \cup {None} :
          txn[s].source = d /\ txn[s].tenancy = t /\ txn[s].supersedes = p
  BY <1>1, PublishingFields DEF PublishPc
<1> DEFINE row == [tenancy |-> t, supersedes |-> p]
<1>3. CASE Published(d)
  <2>1. /\ \/ Answer(s, d, t, p, TRUE) /\ SamePublication(d, t, p)
           \/ Answer(s, d, t, p, FALSE)
        /\ UNCHANGED publication
    BY <1>2, <1>3 DEF InsertPublication, Answer
  <2> QED
    BY <1>1, <1>2, <2>1, AnswerKeeps
<1>4. CASE ~Published(d) /\ Succeeded(p)
  <2>1. Answer(s, d, t, p, FALSE) /\ UNCHANGED publication
    BY <1>2, <1>4 DEF InsertPublication
  <2> QED
    BY <1>1, <1>2, <2>1, AnswerKeeps
<1>5. CASE ~Published(d) /\ ~Succeeded(p)
  <2>1. publication' = [publication EXCEPT ![d] = row] /\ Answer(s, d, t, p, TRUE)
    BY <1>2, <1>5 DEF InsertPublication
  <2>2. row \in PublicationRow /\ row.tenancy = t /\ row.supersedes = p
    BY <1>2 DEF PublicationRow
  <2>3. /\ p # None => /\ Published(p) /\ publication[p].tenancy = t
                       /\ Archive[p].type = Archive[d].type
        /\ Archive[d].tenancy = t
    BY <1>1, <1>2 DEF PublicationInv, PublishClaim, OwnTenancy
  <2> HIDE DEF row
  <2>4. publication'[d] = row /\ \A e \in Source \ {d} : publication'[e] = publication[e]
    BY <1>1, <1>2, <2>1 DEF TypeOK
  <2>5. Published(d)' /\ \A e \in Source \ {d} : Published(e)' <=> Published(e)
    BY <2>2, <2>4, AbsentIsNoRow DEF Published
  <2>6. \A e \in Source : Published(e) => e # d /\ publication[e].supersedes # d
    <3> SUFFICES ASSUME NEW e \in Source, Published(e), publication[e].supersedes = d
                 PROVE  FALSE
      BY <1>5
    <3>1. d # None
      BY <1>2, PortalAssumption
    <3>2. Published(publication[e].supersedes)
      BY <3>1 DEF PublicationInv, Succession
    <3> QED
      BY <1>5, <3>2
  <2>7. p # None => p \in Source \ {d} /\ \A e \in Source \ {d} :
                        Published(e) => publication[e].supersedes # p
    BY <1>2, <1>5, <2>3 DEF Succeeded
  <2>8. Succession'
    <3> SUFFICES ASSUME NEW e \in Source, Published(e)', NEW q, q # None,
                        publication'[e].supersedes = q
                 PROVE  /\ Published(q)' /\ publication'[q].tenancy = publication'[e].tenancy
                        /\ Archive[q].type = Archive[e].type
                        /\ q # e /\ publication'[q].supersedes # e
                        /\ \A f \in Source \ {e} : Published(f)' =>
                                publication'[f].supersedes # q
      BY DEF Succession
    <3>1. CASE e = d
      <4>1. q = p /\ p # None /\ publication'[e].tenancy = t
        BY <2>2, <2>4, <3>1
      <4>2. Published(q)' /\ publication'[q] = publication[q] /\ publication[q].tenancy = t
        BY <2>3, <2>4, <2>5, <2>7, <4>1
      <4>3. publication'[q].supersedes # e
        BY <2>3, <2>6, <2>7, <3>1, <4>1, <4>2
      <4>4. \A f \in Source \ {e} : Published(f)' => publication'[f].supersedes # q
        BY <2>4, <2>5, <2>7, <3>1, <4>1
      <4> QED
        BY <2>3, <2>7, <3>1, <4>1, <4>2, <4>3, <4>4
    <3>2. CASE e # d
      <4>1. publication'[e] = publication[e] /\ Published(e)
        BY <2>4, <2>5, <3>2
      <4>2. /\ Published(q) /\ publication[q].tenancy = publication[e].tenancy
            /\ Archive[q].type = Archive[e].type
            /\ q # e /\ publication[q].supersedes # e
            /\ \A f \in Source \ {e} : Published(f) => publication[f].supersedes # q
        BY <4>1 DEF PublicationInv, Succession
      <4>3. q \in Source
        <5>1. publication[e] \in PublicationRow
          BY <1>1, <4>1 DEF TypeOK, Published
        <5> QED
          BY <4>1, <5>1, AbsentIsNoRow
      <4>4. q # d
        BY <2>6, <4>2, <4>3
      <4>5. publication'[q] = publication[q] /\ Published(q)'
        BY <2>4, <2>5, <4>2, <4>3, <4>4
      <4>6. p # q
        BY <2>7, <3>2, <4>1
      <4>7. \A f \in Source \ {e} : Published(f)' => publication'[f].supersedes # q
        BY <2>2, <2>4, <2>5, <4>2, <4>6
      <4> QED
        BY <4>1, <4>2, <4>5, <4>7
    <3> QED
      BY <3>1, <3>2
  <2>9. PICK next \in Request :
            /\ txn' = [txn EXCEPT ![s] = next] /\ next.pc = "answered"
            /\ next.source = d /\ next.tenancy = t /\ next.supersedes = p
    <3>1. txn' = [txn EXCEPT ![s] = [pc |-> "answered", source |-> d, tenancy |-> t,
                                     supersedes |-> p]]
      BY <2>1 DEF Answer
    <3>2. PICK m \in Request :
              /\ m = [pc |-> "answered", source |-> d, tenancy |-> t, supersedes |-> p]
              /\ m.pc = "answered" /\ m.source = d /\ m.tenancy = t /\ m.supersedes = p
      BY <1>2, AnswerType
    <3>3. txn' = [txn EXCEPT ![s] = m]
      BY <3>1, <3>2
    <3> QED
      BY <3>2, <3>3
  <2>11. txn'[s] = next /\ \A u \in Session \ {s} : txn'[u] = txn[u]
    BY <1>1, <2>9 DEF TypeOK
  <2>12. LinkInv'
    BY <1>1, <2>9, PublishingStep
  <2>13. OwnTenancy'
    <3>1. \A e \in Source : Published(e)' => publication'[e].tenancy = Archive[e].tenancy
      BY <2>2, <2>3, <2>4, <2>5 DEF PublicationInv, OwnTenancy
    <3>2. \A u \in Session : txn'[u].pc \in {"predecessor", "insert"} =>
              Archive[txn'[u].source].tenancy = txn'[u].tenancy
      BY <2>9, <2>11 DEF PublicationInv, OwnTenancy
    <3> QED
      BY <3>1, <3>2 DEF OwnTenancy
  <2>14. PublishClaim(s)'
    BY <2>4, <2>9, <2>11 DEF PublishClaim, row
  <2>15. ASSUME NEW u \in Session \ {s} PROVE PublishClaim(u)'
    <3>0. PICK y : txn[u] = y
      OBVIOUS
    <3>1. txn'[u] = y /\ PublishClaim(u)
      BY <2>11, <3>0 DEF PublicationInv
    <3>2. y.pc \in {"insert", "answered"} =>
              y.source \in Source /\ y.tenancy \in Tenancy /\ y.supersedes \in Source \cup {None}
      BY <1>1, <3>0, PublishingFields DEF PublishPc
    <3>3. ASSUME y.pc = "insert", y.supersedes # None
          PROVE  /\ Published(y.supersedes)'
                 /\ publication'[y.supersedes].tenancy = y.tenancy
                 /\ Archive[y.supersedes].type = Archive[y.source].type
      <4>1. /\ Published(y.supersedes) /\ publication[y.supersedes].tenancy = y.tenancy
            /\ Archive[y.supersedes].type = Archive[y.source].type
        BY <3>0, <3>1, <3>3 DEF PublishClaim
      <4>2. y.supersedes \in Source \ {d}
        BY <1>5, <3>2, <3>3, <4>1
      <4> QED
        BY <2>4, <2>5, <4>1, <4>2
    <3>4. ASSUME y.pc = "answered"
          PROVE  publication'[y.source] = [tenancy |-> y.tenancy, supersedes |-> y.supersedes]
      <4>1. publication[y.source] = [tenancy |-> y.tenancy, supersedes |-> y.supersedes]
        BY <3>0, <3>1, <3>4 DEF PublishClaim
      <4>2. publication[y.source] \in PublicationRow
        BY <3>2, <3>4, <4>1 DEF PublicationRow
      <4>3. y.source # d
        BY <1>5, <4>2, AbsentIsNoRow DEF Published
      <4> QED
        BY <2>4, <3>2, <3>4, <4>1, <4>3
    <3> QED
      BY <3>1, <3>3, <3>4 DEF PublishClaim
  <2> QED
    BY <2>8, <2>12, <2>13, <2>14, <2>15 DEF PublicationInv
<1> QED
  BY <1>3, <1>4, <1>5

-----------------------------------------------------------------------------
(* The properties.                                                         *)

LEMMA UnchangedKeeps ==
    ASSUME LinkInv, PublicationInv, UNCHANGED vars
    PROVE  LinkInv' /\ PublicationInv'
<1>1. UNCHANGED <<code, expired, redemption, link, attempt, publication, txn>>
  BY DEF vars
<1>2. TypeOK'
  BY <1>1 DEF LinkInv, TypeOK
<1> QED
  BY <1>1, <1>2 DEF LinkInv, PublicationInv, IssuedForParty, Redemptions, Refusals, Evidenced,
     Spent, CodeClaim, RefusalClaim, HoldsCode, OwnTenancy, Succession, PublishClaim, Published

LEMMA PortalStep == LinkInv /\ PublicationInv /\ [Next]_vars => LinkInv' /\ PublicationInv'
<1> SUFFICES ASSUME LinkInv, PublicationInv, [Next]_vars
             PROVE  LinkInv' /\ PublicationInv'
  OBVIOUS
<1>1. TypeOK'
  BY TypeKeeps DEF LinkInv
<1>2. CASE UNCHANGED vars
  BY <1>2, UnchangedKeeps
<1>3. ASSUME NEW c \in Code,
             Expire(c) \/ \E t \in Tenancy, r \in Renter : IssueCode(c, t, r)
      PROVE  LinkInv' /\ PublicationInv'
  <2>1. LinkInv'
    BY <1>1, <1>3, ExpireKeeps, IssueKeeps
  <2>2. UNCHANGED <<publication, txn>>
    BY <1>3 DEF Expire, IssueCode
  <2>3. PublicationInv'
    BY <1>1, <2>2 DEF PublicationInv, OwnTenancy, Succession, PublishClaim, Published
  <2> QED
    BY <2>1, <2>3
<1>4. ASSUME NEW s \in Session, NEW p \in Person, NEW t \in Tenancy, NEW c \in Code,
             BeginRedeem(s, p, t, c)
      PROVE  LinkInv' /\ PublicationInv'
  BY <1>1, <1>4, BeginKeeps, RedemptionSteps
<1>5. ASSUME NEW s \in Session, NEW d \in Source, NEW t \in Tenancy,
             NEW p \in Source \cup {None}, Publish(s, d, t, p)
      PROVE  LinkInv' /\ PublicationInv'
  BY <1>1, <1>5, PublishKeeps
<1>6. ASSUME NEW s \in Session, Step(s) \/ Crash(s)
      PROVE  LinkInv' /\ PublicationInv'
  <2>1. CASE LockCode(s)
    BY <1>1, <2>1, LockCodeKeeps, RedemptionSteps
  <2>2. CASE LockRenter(s)
    BY <1>1, <2>2, LockRenterKeeps, RedemptionSteps
  <2>3. CASE Link(s)
    BY <1>1, <2>3, LinkKeeps, RedemptionSteps
  <2>4. CASE PersistRefusal(s)
    BY <1>1, <2>4, PersistKeeps, RedemptionSteps
  <2>5. CASE Deliver(s) \/ Crash(s)
    BY <1>1, <2>5, CrashKeeps, RedemptionSteps
  <2>6. CASE VerifyPredecessor(s)
    BY <1>1, <2>6, VerifyKeeps
  <2>7. CASE InsertPublication(s)
    BY <1>1, <2>7, InsertKeeps
  <2> QED
    BY <1>6, <2>1, <2>2, <2>3, <2>4, <2>5, <2>6, <2>7 DEF Step
<1> QED
  BY <1>2, <1>3, <1>4, <1>5, <1>6 DEF Next

LEMMA AlwaysPortalInv == Spec => [](LinkInv /\ PublicationInv)
<1>1. Init => LinkInv /\ PublicationInv
  BY InitPortal
<1>2. LinkInv /\ PublicationInv /\ [Next]_vars => LinkInv' /\ PublicationInv'
  BY PortalStep
<1> QED
  BY <1>1, <1>2, PTL DEF Spec

\* Every table holds rows of its type, and every request is one the handlers of
\* the portal can have in progress.
THEOREM PortalTypes == Spec => []TypeOK
<1>1. LinkInv => TypeOK
  BY DEF LinkInv
<1> QED
  BY <1>1, AlwaysPortalInv, PTL

\* However redemptions, refusals, crashes and the expiry of codes interleave, a
\* renter is linked by exactly one redemption, a code is spent once, and a
\* recorded refusal is true of the code it names.
THEOREM AlwaysLinkedByRedemption == Spec => []LinkedByRedemption
<1>1. LinkInv => LinkedByRedemption
  BY DEF LinkInv, Redemptions, Refusals, Evidenced, LinkedByRedemption
<1> QED
  BY <1>1, AlwaysPortalInv, PTL

\* A person sees a document only after redeeming a code for a party of the
\* tenancy the archived document was made for.
THEOREM AlwaysDocumentsOfOwnTenancy == Spec => []DocumentsOfOwnTenancy
<1>1. LinkInv /\ PublicationInv => DocumentsOfOwnTenancy
  <2> SUFFICES ASSUME LinkInv, PublicationInv, NEW p \in Person, NEW d \in DocumentsOf(p)
               PROVE  \E e \in redemption :
                          e.person = p /\ <<Archive[d].tenancy, e.renter>> \in Party
    BY DEF DocumentsOfOwnTenancy
  <2>1. d \in Source /\ Published(d) /\ publication[d].tenancy \in TenanciesOf(p)
    BY DEF DocumentsOf
  <2>2. publication[d].tenancy = Archive[d].tenancy
    BY <2>1 DEF PublicationInv, OwnTenancy
  <2>3. PICK r \in Renter : link[r] = p /\ <<Archive[d].tenancy, r>> \in Party
    BY <2>1, <2>2 DEF TenanciesOf
  <2>4. p # None
    BY PortalAssumption
  <2>5. PICK e \in redemption : e.renter = r
    BY <2>3, <2>4 DEF LinkInv, Redemptions
  <2>6. e.person = p
    BY <2>3, <2>5 DEF LinkInv, Redemptions
  <2> QED
    BY <2>3, <2>5, <2>6
<1> QED
  BY <1>1, AlwaysPortalInv, PTL

\* However publications interleave, a successful answer is the publication asked
\* for, and the versions of a document form chains within tenancy and type.
THEOREM AlwaysPublicationsAreChains == Spec => []PublicationsAreChains
<1>1. PublicationInv => PublicationsAreChains
  BY DEF PublicationInv, PublishClaim, Succession, PublicationsAreChains
<1> QED
  BY <1>1, AlwaysPortalInv, PTL

-----------------------------------------------------------------------------
(* Waiting.                                                                *)

\* A request that waits is behind the one it waits for on the way code,
\* renter, write; one that records a refusal has no lock left.
LEMMA WaitsClimb ==
    ASSUME NEW s \in Session, NEW t \in WaitsFor(s)
    PROVE  \/ txn[s].pc \in {"code", "refused"} /\ txn[t].pc \in {"renter", "write"}
           \/ txn[s].pc = "renter" /\ txn[t].pc = "write"
<1>1. CASE txn[s].pc = "code"
  BY <1>1 DEF WaitsFor, HoldsCode
<1>2. CASE txn[s].pc = "renter"
  BY <1>2 DEF WaitsFor, HoldsRenter
<1>3. CASE txn[s].pc = "refused"
  BY <1>3 DEF WaitsFor, HoldsCode
<1> QED
  BY <1>1, <1>2, <1>3 DEF WaitsFor

\* No two requests of the portal ever wait for each other: the code row is
\* always locked before the renter row, and a refusal is recorded after the
\* refused transaction has released both.
THEOREM NeverCircularWait == Spec => []NoCircularWait
<1>1. NoCircularWait
  BY WaitsClimb DEF NoCircularWait
<1> QED
  BY <1>1, PTL

=============================================================================
