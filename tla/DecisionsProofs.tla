--------------------------- MODULE DecisionsProofs ---------------------------
(***************************************************************************)
(* Proofs about Decisions for any logins, sessions, tenants and registries *)
(* and any number of restarts: type correctness and the three invariants   *)
(* of what ends up on the stream; and, of any registry, that a secret      *)
(* authenticates the tenant that lists it.                                 *)
(***************************************************************************)
EXTENDS Decisions, TLAPS

-----------------------------------------------------------------------------
(* Registries, of any length. *)

(* Among indices of a sequence, the last that matches is the only one      *)
(* when only one matches.                                                  *)
LEMMA OnlyHit ==
  ASSUME NEW n \in Nat, NEW i \in 1 .. n, NEW hits, hits = {i}
  PROVE  (CHOOSE k \in hits : \A j \in hits : j <= k) = i
<1>1. i \in hits /\ \A j \in hits : j <= i
  OBVIOUS
<1>2. (CHOOSE k \in hits : \A j \in hits : j <= k) \in hits
  BY <1>1
<1> QED
  BY <1>2

LEMMA Indices ==
  ASSUME NEW f, Registry(f)
  PROVE  /\ Len(f) \in Nat /\ DOMAIN f = 1 .. Len(f)
         /\ \A i, j \in DOMAIN f : i # j => Distinguishable(f[i], f[j])
BY DEF Registry, Acceptable

(* BySecretKey: of two tenants that New let into one file, neither can     *)
(* ever be taken for the other, and a secret authenticates the entry that  *)
(* lists it (tenant.go, BySecretKey).                                      *)
THEOREM SecretNamesItsTenant ==
  ASSUME NEW f, Registry(f), NEW i \in DOMAIN f
  PROVE  /\ BySecretKey(f, f[i].secret) = f[i].id
         /\ \A j \in DOMAIN f : BySecretKey(f, f[j].secret) = f[i].id => j = i
<1>1. ASSUME NEW k \in DOMAIN f
      PROVE  BySecretKey(f, f[k].secret) = f[k].id
  <2> DEFINE hits == {j \in DOMAIN f : f[j].secret = f[k].secret}
  <2>1. hits = {k}
    BY Indices DEF Distinguishable
  <2>2. (CHOOSE m \in hits : \A j \in hits : j <= m) = k
    <3> HIDE DEF hits
    <3> QED
      BY <2>1, OnlyHit, Indices
  <2> QED
    BY <2>1, <2>2 DEF BySecretKey
<1> QED
  BY <1>1, Indices DEF Distinguishable

-----------------------------------------------------------------------------
(* Whom a login's secret speaks for, once its decision was authenticated:  *)
(* the tenant of the decision or nobody, unless a restart moved it.        *)
SpeakerKept(l) ==
  decide[l].tenant # Nobody =>
    Speaks(l) \in {decide[l].tenant, Nobody} \/ l \in moved

(* What one login's three handlers say of each other: a report is made     *)
(* only of the verdict the service gave this login, and what was read as   *)
(* stored is.                                                              *)
HandlersOK(l) ==
  /\ login[l].pc = "page" => decide[l].pc = "idle"
  /\ login[l].pc \in {"page", "deciding"} => report[l].pc = "idle"
  /\ SpeakerKept(l)
  /\ decide[l].pc = "looking" => decide[l].tenant # Nobody
  /\ decide[l].status = 200 =>
       /\ decide[l].tenant # Nobody
       /\ decide[l].out.id = l /\ decide[l].pc \in {"archiving", "replied", "gone"}
  /\ decide[l].pc = "archiving" => decide[l].status = 200
  /\ report[l].pc # "idle" =>
       /\ decide[l].pc = "replied" /\ decide[l].status = 200
       /\ login[l].answer = decide[l].out
  /\ report[l].status = 202 => StoredOutcome(l)
  /\ login[l].filed # NoWord =>
       \E r \in stored : r.kind = "outcome" /\ r.of = l /\ r.says = login[l].filed
  /\ decide[l].counted = "written" => StoredEvaluation(l)

(* What a record says is what its login's handlers say.                    *)
RecordOK(r) ==
  /\ r.kind = "evaluation" =>
       /\ r.tenant = decide[r.of].tenant
       /\ decide[r.of].pc \in {"archiving", "replied", "gone"}
       /\ decide[r.of].status = 200
       /\ r.says = decide[r.of].out.decision
       /\ login[r.of].participant => r.subject = NoWord
  /\ r.kind = "outcome" =>
       /\ r.tenant = decide[r.of].tenant \/ r.of \in moved
       /\ report[r.of].pc \in {"appending", "replied", "gone"}
       /\ r.says = LabelFor(login[r.of].answer.decision)
       /\ r.says \in ValidOutcomes

RowOK(row) ==
  row.id # NoId =>
    /\ row.id = row.of /\ decide[row.of].pc = "replied" /\ decide[row.of].status = 200
    /\ row.decision = decide[row.of].out.decision

IInv ==
  /\ TypeOK
  /\ \A l \in Login : HandlersOK(l)
  /\ \A r \in sent \cup stored : RecordOK(r)
  /\ \A row \in capture : RowOK(row)

-----------------------------------------------------------------------------
(* Constants and values. *)

LEMMA Values ==
  /\ NoId \notin Login
  /\ NoWord \notin Verdicts \cup ValidOutcomes
  /\ Nobody \notin Tenants
  /\ Modes = {"monitor", "enforce"}
  /\ MaxCrashes \in Nat
BY DecisionsAssumption

LEMMA Counting ==
  ASSUME NEW m \in Nat, NEW n \in 0 .. m, n < m
  PROVE  n + 1 \in 0 .. m
OBVIOUS

LEMMA Speaker ==
  ASSUME NEW f \in Files, NEW key
  PROVE  BySecretKey(f, key) \in Tenants \cup {Nobody}
<1>1. Registry(f)
  BY DecisionsAssumption DEF Registry
<1>2. CASE \E i \in DOMAIN f : f[i].secret = key
  <2>1. PICK i \in DOMAIN f : f[i].secret = key
    BY <1>2
  <2>2. BySecretKey(f, key) = f[i].id
    BY <1>1, <2>1, SecretNamesItsTenant
  <2> QED
    BY <2>1, <2>2 DEF Tenants
<1>3. CASE \A i \in DOMAIN f : f[i].secret # key
  BY <1>3 DEF BySecretKey
<1> QED
  BY <1>2, <1>3

LEMMA SpeakerKnown ==
  ASSUME registry \in Files, NEW l \in Login, Speaks(l) # Nobody
  PROVE  Speaks(l) \in Tenants
BY Speaker DEF Speaks

LEMMA Labels ==
  ASSUME NEW d
  PROVE  /\ LabelFor(d) \in ValidOutcomes \cup {NoWord}
         /\ LabelFor(d) = "login_success" => d = "allow"
         /\ LabelFor(d) = "login_failure" => d = "block"
         /\ LabelFor(d) \in {"login_success", "login_failure", NoWord}
BY Values DEF LabelFor, ValidOutcomes

LEMMA AnswerTypes ==
  ASSUME TypeOK, NEW l \in Login
  PROVE  /\ NoAnswer \in Answers /\ FailOpen \in Answers /\ Decoded(l) \in Answers
         /\ \A d \in Verdicts : Output(l, d) \in Answers
         /\ NoAnswer.id = NoId /\ FailOpen.id = NoId
         /\ \A d \in Verdicts : Output(l, d).id = l /\ Output(l, d).decision = d
<1>1. mode \in Modes /\ decide[l].out \in Answers
  BY DEF TypeOK, DecideState
<1>2. NoAnswer \in Answers /\ FailOpen \in Answers /\ NoAnswer.id = NoId /\ FailOpen.id = NoId
  BY DEF NoAnswer, FailOpen, Answers, Verdicts
<1>3. ASSUME NEW d \in Verdicts
      PROVE  Output(l, d) \in Answers /\ Output(l, d).id = l /\ Output(l, d).decision = d
  BY <1>1 DEF Output, Answers
<1> QED
  BY <1>1, <1>2, <1>3 DEF Decoded

LEMMA InitIInv == Init => IInv
<1> SUFFICES ASSUME Init PROVE IInv
  OBVIOUS
<1>1. NoAnswer \in Answers
  BY DEF NoAnswer, Answers
<1>2. 0 \in 0 .. MaxCrashes
  BY Values
<1>3. /\ login \in [Login -> LoginState]
      /\ decide \in [Login -> DecideState]
      /\ report \in [Login -> ReportState]
  BY <1>1 DEF Init, LoginState, DecideState, DecidePlaces, DecideCodes,
                       Counts, ReportState, ReportPlaces, ReportCodes
<1>4. TypeOK
  BY <1>2, <1>3 DEF Init, TypeOK
<1>5. \A l \in Login : HandlersOK(l)
  BY DEF Init, HandlersOK, SpeakerKept
<1> QED
  BY <1>4, <1>5 DEF Init, IInv

-----------------------------------------------------------------------------
(* What a step may do to a login's records without disturbing them.        *)

LEMMA SameHandlers ==
  ASSUME NEW k \in Login, HandlersOK(k), stored \subseteq stored',
         UNCHANGED <<registry, moved>>,
         login'[k] = login[k], decide'[k] = decide[k], report'[k] = report[k]
  PROVE  HandlersOK(k)'
BY DEF HandlersOK, SpeakerKept, Speaks, StoredOutcome, StoredEvaluation

(* A record and a row stand as long as the verdict and the answer they     *)
(* were made of do.                                                        *)
VerdictStands(k) ==
  /\ decide[k].status = 200 /\ decide[k].pc \in {"archiving", "replied", "gone"} =>
       /\ decide'[k].status = 200 /\ decide'[k].out = decide[k].out
       /\ decide'[k].tenant = decide[k].tenant
       /\ decide'[k].pc \in {"archiving", "replied", "gone"}
       /\ decide[k].pc = "replied" => decide'[k].pc = "replied"
       /\ login'[k].participant = login[k].participant
  /\ report[k].pc \in {"appending", "replied", "gone"} =>
       /\ report'[k].pc \in {"appending", "replied", "gone"}
       /\ login'[k].answer = login[k].answer
       /\ decide'[k].tenant = decide[k].tenant

LEMMA RecordStands ==
  ASSUME NEW r, RecordOK(r), VerdictStands(r.of), moved \subseteq moved'
  PROVE  RecordOK(r)'
BY DEF RecordOK, VerdictStands

LEMMA RowStands ==
  ASSUME NEW row, RowOK(row), VerdictStands(row.of)
  PROVE  RowOK(row)'
BY DEF RowOK, VerdictStands

(* A step of login l that lets every verdict stand preserves IInv if what  *)
(* it adds is right.                                                       *)
LEMMA OneLogin ==
  ASSUME IInv, TypeOK', NEW l \in Login,
         \A k \in Login \ {l} :
           login'[k] = login[k] /\ decide'[k] = decide[k] /\ report'[k] = report[k],
         UNCHANGED <<registry, moved>>,
         VerdictStands(l), stored \subseteq stored',
         HandlersOK(l)',
         \A r \in (sent \cup stored)' : r \in sent \cup stored \/ RecordOK(r)',
         \A row \in capture' : row \in capture \/ RowOK(row)'
  PROVE  IInv'
<1>1. \A k \in Login : VerdictStands(k)
  BY DEF VerdictStands
<1>2. \A k \in Login : HandlersOK(k)'
  BY SameHandlers DEF IInv
<1>3. \A r \in (sent \cup stored)' : RecordOK(r)'
  <2>1. \A r \in sent \cup stored : r.of \in Login
    BY DEF IInv, TypeOK, Records
  <2> QED
    BY <1>1, <2>1, RecordStands DEF IInv
<1>4. \A row \in capture' : RowOK(row)'
  <2>1. \A row \in capture : row.of \in Login
    BY DEF IInv, TypeOK
  <2> QED
    BY <1>1, <2>1, RowStands DEF IInv
<1> QED
  BY <1>2, <1>3, <1>4 DEF IInv

-----------------------------------------------------------------------------
(* The backend's steps. *)

LEMMA SubmitStep ==
  ASSUME IInv, NEW l \in Login, Submit(l)
  PROVE  IInv'
<1> DEFINE step(t, p) == [login[l] EXCEPT !.pc = "deciding", !.token = t, !.participant = p]
           ask == [decide[l] EXCEPT !.pc = "asked"]
<1>1. PICK t \in Token, p \in BOOLEAN : login' = [login EXCEPT ![l] = step(t, p)]
  BY DEF Submit, IInv, TypeOK
<1>2. decide' = [decide EXCEPT ![l] = ask]
  BY DEF Submit
<1>3. login[l] \in LoginState /\ decide[l] \in DecideState
  BY DEF IInv, TypeOK
<1>4. step(t, p) \in LoginState
  BY <1>3 DEF LoginState
<1>40. ask \in DecideState
  BY <1>3 DEF DecideState, DecidePlaces
<1>5. TypeOK'
  BY <1>1, <1>2, <1>4, <1>40 DEF Submit, envVars, IInv, TypeOK
<1>6. /\ \A k \in Login \ {l} :
           login'[k] = login[k] /\ decide'[k] = decide[k] /\ report'[k] = report[k]
      /\ report'[l] = report[l]
      /\ login'[l].pc = "deciding" /\ login'[l].filed = login[l].filed
      /\ login'[l].answer = login[l].answer
      /\ decide'[l].pc = "asked" /\ decide'[l].status = decide[l].status
      /\ decide'[l].counted = decide[l].counted /\ decide'[l].tenant = decide[l].tenant
      /\ UNCHANGED <<registry, moved>>
      /\ login[l].pc = "page" /\ stored' = stored /\ sent' = sent /\ capture' = capture
  BY <1>1, <1>2, <1>3 DEF Submit, envVars, IInv, TypeOK, LoginState, DecideState
<1>7. HandlersOK(l)
  BY DEF IInv
<1>8. VerdictStands(l)
  BY <1>6, <1>7 DEF VerdictStands, HandlersOK
<1>9. HandlersOK(l)'
  BY <1>6, <1>7 DEF HandlersOK, SpeakerKept, Speaks, StoredOutcome, StoredEvaluation
<1> QED
  BY <1>5, <1>6, <1>8, <1>9, OneLogin

(* login between its calls.  A verdict that carries an evaluation is the   *)
(* one the service gave.                                                   *)
LEMMA ProceedStep ==
  ASSUME IInv, NEW l \in Login, login[l].pc = "deciding",
         NEW answer \in Answers, NEW cameBack \in BOOLEAN, Proceed(l, answer, cameBack),
         answer.id # NoId =>
           decide[l].pc = "replied" /\ decide[l].status = 200 /\ answer = decide[l].out
  PROVE  IInv'
<1> DEFINE shown == [login[l] EXCEPT !.pc = "shown", !.answer = answer]
           going == [login[l] EXCEPT !.pc = "reporting", !.answer = answer]
           ask   == [report[l] EXCEPT !.pc = "asked"]
           row   == CaptureRow(l, answer)
<1>1. login[l] \in LoginState /\ decide[l] \in DecideState /\ report[l] \in ReportState
  BY DEF IInv, TypeOK
<1>2. shown \in LoginState /\ going \in LoginState
  BY <1>1 DEF LoginState
<1>3. ask \in ReportState
  BY <1>1 DEF ReportState, ReportPlaces
<1>4. /\ row \in [of : Login, id : Login \cup {NoId}, decision : Verdicts \cup {NoWord}]
      /\ row.of = l /\ row.id = answer.id /\ row.decision = answer.decision
  BY DEF CaptureRow, Answers
<1>5. /\ decide' = decide /\ sent' = sent /\ stored' = stored /\ mode' = mode
      /\ configured' = configured /\ registry' = registry /\ crashes' = crashes
      /\ moved' = moved /\ capture' \subseteq capture \cup {row}
  BY DEF Proceed, envVars
<1>6. HandlersOK(l)
  BY DEF IInv
<1>7. CASE Filing(answer) = NoWord
  <2>1. login' = [login EXCEPT ![l] = shown] /\ report' = report
    BY <1>7 DEF Proceed
  <2>2. TypeOK'
    BY <1>2, <1>4, <1>5, <2>1 DEF IInv, TypeOK
  <2>3. /\ \A k \in Login \ {l} : login'[k] = login[k]
        /\ login'[l].pc = "shown" /\ login'[l].filed = login[l].filed
        /\ login'[l].participant = login[l].participant
    BY <1>1, <2>1 DEF IInv, TypeOK, LoginState
  <2>4. VerdictStands(l)
    BY <1>5, <1>6, <2>1, <2>3 DEF VerdictStands, HandlersOK
  <2>5. HandlersOK(l)'
    BY <1>5, <1>6, <2>1, <2>3 DEF HandlersOK, SpeakerKept, Speaks, StoredOutcome, StoredEvaluation
  <2>6. RowOK(row)'
    BY <1>4, <1>5, <1>6 DEF RowOK, HandlersOK
  <2> HIDE DEF row, shown
  <2> QED
    BY <1>5, <2>1, <2>2, <2>3, <2>4, <2>5, <2>6, OneLogin
<1>8. CASE Filing(answer) # NoWord
  <2>0. answer.id # NoId
    BY <1>8 DEF Filing
  <2>1. login' = [login EXCEPT ![l] = going] /\ report' = [report EXCEPT ![l] = ask]
    BY <1>8 DEF Proceed
  <2>2. TypeOK'
    BY <1>2, <1>3, <1>4, <1>5, <2>1 DEF IInv, TypeOK
  <2>3. /\ \A k \in Login \ {l} : login'[k] = login[k] /\ report'[k] = report[k]
        /\ login'[l].pc = "reporting" /\ login'[l].filed = login[l].filed
        /\ login'[l].participant = login[l].participant /\ login'[l].answer = answer
        /\ report'[l].pc = "asked" /\ report'[l].status = report[l].status
    BY <1>1, <2>1 DEF IInv, TypeOK, LoginState, ReportState
  <2>4. VerdictStands(l)
    BY <1>5, <1>6, <2>3 DEF VerdictStands, HandlersOK
  <2>5. HandlersOK(l)'
    BY <1>5, <1>6, <2>0, <2>3 DEF HandlersOK, SpeakerKept, Speaks, StoredOutcome, StoredEvaluation
  <2>6. RowOK(row)'
    BY <1>4, <1>5, <1>6 DEF RowOK, HandlersOK
  <2> HIDE DEF row, going, ask
  <2> QED
    BY <1>5, <2>1, <2>2, <2>3, <2>4, <2>5, <2>6, OneLogin
<1> QED
  BY <1>7, <1>8

LEMMA BackendStep ==
  ASSUME IInv, NEW l \in Login, Backend(l)
  PROVE  IInv'
<1>0. HandlersOK(l) /\ login[l] \in LoginState /\ decide[l] \in DecideState
  BY DEF IInv, TypeOK
<1>1. CASE Decided(l)
  <2>1. Decoded(l) \in Answers
    BY AnswerTypes DEF IInv
  <2>2. Decoded(l).id # NoId =>
          decide[l].pc = "replied" /\ decide[l].status = 200 /\ Decoded(l) = decide[l].out
    BY <1>1, AnswerTypes DEF Decided, Decoded, IInv
  <2> QED
    BY <1>1, <2>1, <2>2, ProceedStep DEF Decided
<1>2. CASE DecideFails(l)
  BY <1>2, AnswerTypes, ProceedStep DEF DecideFails, IInv
<1>3. ASSUME NEW filed \in ValidOutcomes \cup {NoWord},
             login[l].pc = "reporting",
             login' = [login EXCEPT ![l] = [login[l] EXCEPT !.pc = "shown", !.filed = filed]],
             UNCHANGED <<envVars, serverVars, stored, capture>>,
             filed # NoWord =>
               \E r \in stored : r.kind = "outcome" /\ r.of = l /\ r.says = filed
      PROVE  IInv'
  <2> DEFINE shown == [login[l] EXCEPT !.pc = "shown", !.filed = filed]
  <2>1. shown \in LoginState
    BY <1>0 DEF LoginState
  <2>2. TypeOK'
    BY <1>3, <2>1 DEF IInv, TypeOK, envVars, serverVars
  <2>3. /\ \A k \in Login \ {l} : login'[k] = login[k]
        /\ login'[l].pc = "shown" /\ login'[l].filed = filed
        /\ login'[l].participant = login[l].participant
        /\ login'[l].answer = login[l].answer
    BY <1>0, <1>3 DEF IInv, TypeOK, LoginState
  <2>4. decide' = decide /\ report' = report /\ sent' = sent /\ stored' = stored
        /\ capture' = capture /\ registry' = registry /\ moved' = moved
    BY <1>3 DEF serverVars, envVars
  <2>5. VerdictStands(l)
    BY <2>3, <2>4 DEF VerdictStands
  <2>6. HandlersOK(l)'
    BY <1>0, <1>3, <2>3, <2>4 DEF HandlersOK, SpeakerKept, Speaks, StoredOutcome, StoredEvaluation
  <2> HIDE DEF shown
  <2> QED
    BY <2>2, <2>3, <2>4, <2>5, <2>6, OneLogin
<1>4. CASE ReportAnswered(l)
  <2> DEFINE filed == IF report[l].status = 202 THEN LabelFor(login[l].answer.decision)
                      ELSE NoWord
  <2>1. filed \in ValidOutcomes \cup {NoWord}
    BY Labels
  <2>2. filed # NoWord => \E r \in stored : r.kind = "outcome" /\ r.of = l /\ r.says = filed
    BY <1>0 DEF HandlersOK, StoredOutcome, IInv, RecordOK
  <2>3. login' = [login EXCEPT ![l] = [login[l] EXCEPT !.pc = "shown", !.filed = filed]]
    BY <1>4 DEF ReportAnswered
  <2> HIDE DEF filed
  <2> QED
    BY <1>3, <1>4, <2>1, <2>2, <2>3 DEF ReportAnswered
<1>5. CASE ReportFails(l)
  <2>2. [login[l] EXCEPT !.pc = "shown"] = [login[l] EXCEPT !.pc = "shown", !.filed = login[l].filed]
    BY <1>0 DEF LoginState
  <2>3. login[l].filed \in ValidOutcomes \cup {NoWord}
    BY <1>0 DEF LoginState
  <2>4. login' = [login EXCEPT ![l] = [login[l] EXCEPT !.pc = "shown", !.filed = login[l].filed]]
    BY <1>5, <2>2 DEF ReportFails
  <2> QED
    BY <1>0, <1>3, <1>5, <2>3, <2>4 DEF ReportFails, HandlersOK
<1> QED
  BY <1>1, <1>2, <1>4, <1>5 DEF Backend

-----------------------------------------------------------------------------
(* The service's steps: each changes one handler of one login. *)

LEMMA DecideStep ==
  ASSUME IInv, NEW l \in Login, NEW new \in DecideState,
         decide' = [decide EXCEPT ![l] = new],
         UNCHANGED <<envVars, login, report, stored, capture>>,
         sent' \subseteq Records,
         \A r \in sent' : r \in sent \/ RecordOK(r)',
         decide[l].pc \in {"asked", "looking", "archiving"},
         decide[l].pc = "archiving" =>
           new.status = 200 /\ new.out = decide[l].out /\ new.pc = "replied",
         new.pc \in {"looking", "archiving", "replied"},
         new.pc = "looking" => new.status # 200 /\ new.tenant = Speaks(l) /\ Speaks(l) # Nobody,
         new.pc # "looking" => new.tenant = decide[l].tenant,
         new.status = 200 => new.tenant # Nobody,
         new.pc = "archiving" => new.status = 200,
         new.status = 200 => new.out.id = l,
         new.counted = "written" => new.counted = decide[l].counted \/ StoredEvaluation(l)
  PROVE  IInv'
<1>1. TypeOK'
  BY DEF IInv, TypeOK, envVars
<1>2. /\ \A k \in Login \ {l} : decide'[k] = decide[k]
      /\ decide'[l] = new
      /\ login' = login /\ report' = report /\ stored' = stored /\ capture' = capture
      /\ registry' = registry /\ moved' = moved
  BY DEF IInv, TypeOK, envVars
<1>3. HandlersOK(l)
  BY DEF IInv
<1>4. VerdictStands(l)
  BY <1>2, <1>3 DEF VerdictStands, HandlersOK
<1>5. HandlersOK(l)'
  BY <1>2, <1>3 DEF HandlersOK, SpeakerKept, Speaks, StoredOutcome, StoredEvaluation
<1> QED
  BY <1>1, <1>2, <1>4, <1>5, OneLogin

LEMMA ReportStep ==
  ASSUME IInv, NEW l \in Login, NEW new \in ReportState,
         report' = [report EXCEPT ![l] = new],
         UNCHANGED <<envVars, login, decide, stored, capture>>,
         sent' \subseteq Records,
         \A r \in sent' : r \in sent \/ RecordOK(r)',
         report[l].pc \in {"asked", "appending"},
         new.pc \in {"appending", "replied"},
         new.status = 202 => new.status = report[l].status \/ StoredOutcome(l)
  PROVE  IInv'
<1>1. TypeOK'
  BY DEF IInv, TypeOK, envVars
<1>2. /\ \A k \in Login \ {l} : report'[k] = report[k]
      /\ report'[l] = new
      /\ login' = login /\ decide' = decide /\ stored' = stored /\ capture' = capture
      /\ registry' = registry /\ moved' = moved
  BY DEF IInv, TypeOK, envVars
<1>3. HandlersOK(l)
  BY DEF IInv
<1>4. VerdictStands(l)
  BY <1>2, <1>3 DEF VerdictStands, HandlersOK
<1>5. HandlersOK(l)'
  BY <1>2, <1>3 DEF HandlersOK, SpeakerKept, Speaks, StoredOutcome, StoredEvaluation
<1> QED
  BY <1>1, <1>2, <1>4, <1>5, OneLogin

LEMMA DecideWords ==
  /\ "looking" \in DecidePlaces /\ "archiving" \in DecidePlaces /\ "replied" \in DecidePlaces
  /\ 200 \in DecideCodes /\ 401 \in DecideCodes /\ 500 \in DecideCodes
  /\ "none" \in Counts /\ "written" \in Counts /\ "dropped" \in Counts
BY DEF DecidePlaces, DecideCodes, Counts

(* What becomes of the decision handler's record. *)
Replied(d, status, counted) ==
  [d EXCEPT !.pc = "replied", !.status = status, !.counted = counted]
Looks(d, tenant) == [d EXCEPT !.pc = "looking", !.tenant = tenant]
Judges(d, place, out) == [d EXCEPT !.pc = place, !.status = 200, !.out = out]

LEMMA Replying ==
  ASSUME NEW d \in DecideState, NEW status \in DecideCodes, NEW counted \in Counts
  PROVE  /\ Replied(d, status, counted) \in DecideState
         /\ Replied(d, status, counted).pc = "replied"
         /\ Replied(d, status, counted).status = status
         /\ Replied(d, status, counted).counted = counted
         /\ Replied(d, status, counted).out = d.out
         /\ Replied(d, status, counted).tenant = d.tenant
BY DecideWords DEF DecideState, Replied

LEMMA Looking ==
  ASSUME NEW d \in DecideState, NEW tenant \in Tenants
  PROVE  /\ Looks(d, tenant) \in DecideState
         /\ Looks(d, tenant).pc = "looking"
         /\ Looks(d, tenant).tenant = tenant
         /\ Looks(d, tenant).status = d.status
         /\ Looks(d, tenant).counted = d.counted
BY DecideWords DEF DecideState, Looks

LEMMA Judging ==
  ASSUME NEW d \in DecideState, NEW place \in DecidePlaces, NEW out \in Answers
  PROVE  /\ Judges(d, place, out) \in DecideState
         /\ Judges(d, place, out).pc = place
         /\ Judges(d, place, out).status = 200
         /\ Judges(d, place, out).out = out
         /\ Judges(d, place, out).tenant = d.tenant
         /\ Judges(d, place, out).counted = d.counted
BY DecideWords DEF DecideState, Judges

LEMMA AuthenticateStep ==
  ASSUME IInv, NEW l \in Login, Authenticate(l)
  PROVE  IInv'
<1>0. /\ HandlersOK(l) /\ decide[l] \in DecideState /\ registry \in Files
      /\ sent \subseteq Records /\ sent' = sent /\ decide[l].pc = "asked"
      /\ UNCHANGED <<envVars, login, report, stored, capture>>
  BY DEF IInv, TypeOK, Authenticate
<1> DEFINE refused == Replied(decide[l], 401, "none")
           looking == Looks(decide[l], Speaks(l))
<1>1. CASE Speaks(l) = Nobody
  <2>1. refused \in DecideState /\ refused.pc = "replied" /\ refused.status = 401
        /\ refused.counted = "none" /\ refused.tenant = decide[l].tenant
    <3>1. decide[l] \in DecideState /\ 401 \in DecideCodes /\ "none" \in Counts
      BY <1>0, DecideWords
    <3> QED
      BY <3>1, Replying
  <2>2. decide' = [decide EXCEPT ![l] = refused]
    BY <1>1 DEF Authenticate, RepliesDecide, Replied
  <2> HIDE DEF refused
  <2>3. /\ refused.status # 200 /\ refused.counted # "written"
        /\ refused.pc # "looking" /\ refused.pc # "archiving"
    BY <2>1
  <2>4. sent' \subseteq Records /\ \A r \in sent' : r \in sent \/ RecordOK(r)'
    BY <1>0
  <2> QED
    BY <1>0, <2>1, <2>2, <2>3, <2>4, DecideStep
<1>2. CASE Speaks(l) # Nobody
  <2>0. Speaks(l) \in Tenants
    BY <1>0, <1>2, SpeakerKnown
  <2>1. looking \in DecideState /\ looking.pc = "looking" /\ looking.tenant = Speaks(l)
        /\ looking.status = decide[l].status /\ looking.counted = decide[l].counted
    BY <1>0, <2>0, Looking
  <2>2. decide' = [decide EXCEPT ![l] = looking]
    BY <1>2 DEF Authenticate, Looks
  <2>3. decide[l].status # 200
    BY <1>0 DEF Authenticate, HandlersOK
  <2> HIDE DEF looking
  <2>4. /\ looking.pc = "looking" /\ looking.status # 200 /\ looking.tenant = Speaks(l)
        /\ Speaks(l) # Nobody
        /\ looking.counted = "written" => looking.counted = decide[l].counted
    BY <1>2, <2>1, <2>3
  <2>5. sent' \subseteq Records /\ \A r \in sent' : r \in sent \/ RecordOK(r)'
    BY <1>0
  <2> QED
    BY <1>0, <2>1, <2>2, <2>4, <2>5, DecideStep
<1> QED
  BY <1>1, <1>2

LEMMA JudgeStep ==
  ASSUME IInv, NEW l \in Login, Judge(l)
  PROVE  IInv'
<1>0. /\ HandlersOK(l) /\ login[l] \in LoginState /\ decide[l] \in DecideState
      /\ sent \subseteq Records
  BY DEF IInv, TypeOK
<1>1. PICK d \in Judged(l) :
        /\ decide' = [decide EXCEPT ![l] =
             Judges(decide[l], IF configured THEN "archiving" ELSE "replied", Output(l, d))]
        /\ sent' = IF configured
                   THEN sent \cup {Evaluation(l, Subject(l), Output(l, d))}
                   ELSE sent
  BY DEF Judge, Judges
<1> DEFINE new == Judges(decide[l], IF configured THEN "archiving" ELSE "replied", Output(l, d))
<1>2. d \in Verdicts
  BY DEF Judged, Verdicts
<1>3. Output(l, d) \in Answers /\ Output(l, d).id = l /\ Output(l, d).decision = d
  BY <1>2, AnswerTypes DEF IInv
<1>4. /\ new \in DecideState /\ new.status = 200 /\ new.out = Output(l, d)
      /\ new.pc \in {"archiving", "replied"} /\ new.tenant = decide[l].tenant
      /\ new.counted = decide[l].counted
  BY <1>0, <1>3, Judging, DecideWords
<1>5. decide[l].tenant # Nobody
  BY <1>0 DEF Judge, HandlersOK
<1>6. decide[l].tenant \in Tenants
  BY <1>0, <1>5 DEF DecideState
<1>7. PICK record \in Records :
        /\ record = Evaluation(l, Subject(l), Output(l, d))
        /\ record.kind = "evaluation" /\ record.of = l /\ record.tenant = decide[l].tenant
        /\ record.says = d /\ record.subject = Subject(l)
  <2>1. Subject(l) \in {NoWord, "user"}
    BY DEF Subject
  <2>2. Evaluation(l, Subject(l), Output(l, d)) =
          [kind |-> "evaluation", of |-> l, tenant |-> decide[l].tenant,
           subject |-> Subject(l), says |-> d]
    BY <1>3 DEF Evaluation
  <2>3. Evaluation(l, Subject(l), Output(l, d)) \in Records
    BY <1>2, <1>6, <2>1, <2>2 DEF Records
  <2> QED
    BY <2>2, <2>3
<1>8. UNCHANGED <<envVars, login, report, stored, capture>> /\ decide[l].pc = "looking"
  BY DEF Judge
<1>9. decide'[l] = new /\ login'[l] = login[l]
  BY <1>1, <1>8 DEF IInv, TypeOK
<1>10. RecordOK(record)'
  <2> HIDE DEF new
  <2>1. record.tenant = decide'[l].tenant
    BY <1>4, <1>7, <1>9
  <2>2. decide'[l].status = 200 /\ decide'[l].out.decision = d
        /\ decide'[l].pc \in {"archiving", "replied"}
    BY <1>3, <1>4, <1>9
  <2>3. login'[l].participant => record.subject = NoWord
    BY <1>7, <1>9 DEF Subject
  <2> QED
    BY <1>7, <2>1, <2>2, <2>3 DEF RecordOK
<1>11. sent' \subseteq sent \cup {record}
  BY <1>1, <1>7
<1>12. decide' = [decide EXCEPT ![l] = new]
  BY <1>1
<1> HIDE DEF new
<1>13. sent' \subseteq Records /\ \A r \in sent' : r \in sent \/ RecordOK(r)'
  BY <1>0, <1>7, <1>10, <1>11
<1>14. new.out.id = l /\ new.counted = decide[l].counted /\ new \in DecideState
       /\ new.tenant = decide[l].tenant /\ new.tenant # Nobody
       /\ new.status = 200 /\ new.pc \in {"archiving", "replied"} /\ decide[l].pc = "looking"
  BY <1>3, <1>4, <1>5, <1>8
<1> QED
  BY <1>8, <1>12, <1>13, <1>14, DecideStep

LEMMA AnswersStep ==
  ASSUME IInv, NEW l \in Login, LookupFails(l) \/ Archived(l) \/ ArchiveFails(l)
  PROVE  IInv'
<1>0. /\ HandlersOK(l) /\ decide[l] \in DecideState
      /\ sent \subseteq Records /\ sent' = sent
      /\ UNCHANGED <<envVars, login, report, stored, capture>>
  BY DEF IInv, TypeOK, LookupFails, Archived, ArchiveFails
<1> DEFINE new(status, counted) == Replied(decide[l], status, counted)
<1>1. \A status \in DecideCodes : \A counted \in Counts :
        /\ new(status, counted) \in DecideState
        /\ new(status, counted).pc = "replied" /\ new(status, counted).status = status
        /\ new(status, counted).counted = counted /\ new(status, counted).out = decide[l].out
        /\ new(status, counted).tenant = decide[l].tenant
  BY <1>0, Replying
<1>2. CASE LookupFails(l)
  <2>1. decide' = [decide EXCEPT ![l] = new(500, "none")]
    BY <1>2 DEF LookupFails, RepliesDecide, Replied
  <2> HIDE DEF new
  <2> QED
    BY <1>0, <1>1, <1>2, <2>1, DecideWords, DecideStep DEF LookupFails
<1>3. CASE Archived(l)
  <2>1. decide' = [decide EXCEPT ![l] = new(200, "written")]
    BY <1>3 DEF Archived, RepliesDecide, Replied
  <2>2. decide[l].status = 200 /\ decide[l].out.id = l /\ decide[l].tenant # Nobody
    BY <1>0, <1>3 DEF Archived, HandlersOK
  <2> HIDE DEF new
  <2> QED
    BY <1>0, <1>1, <1>3, <2>1, <2>2, DecideWords, DecideStep DEF Archived
<1>4. CASE ArchiveFails(l)
  <2>1. decide' = [decide EXCEPT ![l] = new(200, "dropped")]
    BY <1>4 DEF ArchiveFails, RepliesDecide, Replied
  <2>2. decide[l].status = 200 /\ decide[l].out.id = l /\ decide[l].tenant # Nobody
    BY <1>0, <1>4 DEF ArchiveFails, HandlersOK
  <2> HIDE DEF new
  <2> QED
    BY <1>0, <1>1, <1>4, <2>1, <2>2, DecideWords, DecideStep DEF ArchiveFails
<1> QED
  BY <1>2, <1>3, <1>4

LEMMA ReportWords ==
  /\ "appending" \in ReportPlaces /\ "replied" \in ReportPlaces /\ "gone" \in ReportPlaces
  /\ 202 \in ReportCodes /\ 400 \in ReportCodes /\ 401 \in ReportCodes
  /\ 500 \in ReportCodes /\ 503 \in ReportCodes
BY DEF ReportPlaces, ReportCodes

Answered(d, status) == [d EXCEPT !.pc = "replied", !.status = status]
Appends(d) == [d EXCEPT !.pc = "appending"]

(* A handler's record replaced, and one that was cut. *)
Put(handler, l, new) == [handler EXCEPT ![l] = new]
Gone(d) == [d EXCEPT !.pc = "gone"]

LEMMA Filed ==
  ASSUME NEW d \in ReportState, NEW status \in ReportCodes
  PROVE  /\ Answered(d, status) \in ReportState
         /\ Answered(d, status).pc = "replied"
         /\ Answered(d, status).status = status
BY ReportWords DEF ReportState, Answered

LEMMA Appending ==
  ASSUME NEW d \in ReportState
  PROVE  /\ Appends(d) \in ReportState
         /\ Appends(d).pc = "appending"
         /\ Appends(d).status = d.status
BY ReportWords DEF ReportState, Appends

LEMMA ReportReplies ==
  ASSUME IInv, NEW l \in Login, NEW status \in ReportCodes,
         report' = Put(report, l, Answered(report[l], status)),
         UNCHANGED <<envVars, login, decide, sent, stored, capture>>,
         report[l].pc \in {"asked", "appending"},
         status = 202 => StoredOutcome(l)
  PROVE  IInv'
<1>1. /\ report[l] \in ReportState /\ sent \subseteq Records
      /\ report' = [report EXCEPT ![l] = Answered(report[l], status)]
  BY DEF IInv, TypeOK, Put
<1>2. /\ Answered(report[l], status) \in ReportState
      /\ Answered(report[l], status).pc = "replied"
      /\ Answered(report[l], status).status = status
  BY <1>1, Filed
<1>3. /\ sent' \subseteq Records /\ \A r \in sent' : r \in sent \/ RecordOK(r)'
      /\ UNCHANGED <<envVars, login, decide, stored, capture>>
  BY <1>1
<1> QED
  BY <1>1, <1>2, <1>3, ReportStep

LEMMA RecordOutcomeStep ==
  ASSUME IInv, NEW l \in Login, RecordOutcome(l)
  PROVE  IInv'
<1>0. /\ report[l] \in ReportState /\ registry \in Files /\ sent \subseteq Records
      /\ report[l].pc = "asked"
      /\ UNCHANGED <<envVars, login, decide, stored, capture>>
  BY DEF IInv, TypeOK, RecordOutcome
<1> DEFINE label == LabelFor(login[l].answer.decision)
           appends == Appends(report[l])
<1>1. CASE Speaks(l) # Nobody /\ label \in ValidOutcomes /\ configured
  <2>1. /\ report' = [report EXCEPT ![l] = appends]
        /\ sent' = sent \cup {Outcome(l, Speaks(l), label)}
    BY <1>1 DEF RecordOutcome, Appends
  <2>2. Speaks(l) \in Tenants
    BY <1>0, <1>1, SpeakerKnown
  <2>3. PICK record \in Records :
          /\ record = Outcome(l, Speaks(l), label)
          /\ record.kind = "outcome" /\ record.of = l /\ record.tenant = Speaks(l)
          /\ record.says = label
    <3>1. Outcome(l, Speaks(l), label) \in Records
      BY <1>1, <2>2 DEF Outcome, Records
    <3> QED
      BY <3>1 DEF Outcome
  <2>4. appends \in ReportState /\ appends.pc = "appending" /\ appends.status = report[l].status
    BY <1>0, Appending
  <2>5. report'[l].pc = "appending"
    BY <2>1, <2>4 DEF IInv, TypeOK
  <2>6. RecordOK(record)'
    <3>1. record.tenant = decide'[l].tenant \/ l \in moved'
      BY <1>0, <1>1, <2>3 DEF IInv, HandlersOK, SpeakerKept, envVars
    <3>2. record.says = LabelFor(login'[l].answer.decision) /\ record.says \in ValidOutcomes
      BY <1>0, <1>1, <2>3
    <3> QED
      BY <2>3, <2>5, <3>1, <3>2 DEF RecordOK
  <2> HIDE DEF appends
  <2>7. sent' \subseteq Records /\ \A r \in sent' : r \in sent \/ RecordOK(r)'
    BY <1>0, <2>1, <2>3, <2>6
  <2> QED
    BY <1>0, <2>1, <2>4, <2>7, ReportStep
<1>2. CASE ~ (Speaks(l) # Nobody /\ label \in ValidOutcomes /\ configured)
  <2>1. \E status \in {400, 401, 503} :
          report' = Put(report, l, Answered(report[l], status))
    <3> DEFINE code == CASE Speaks(l) = Nobody                             -> 401
                         [] label \notin ValidOutcomes /\ Speaks(l) # Nobody -> 400
                         [] OTHER                                          -> 503
    <3>1. report' = RepliesReport(l, code)
      BY <1>2 DEF RecordOutcome
    <3>2. code \in {400, 401, 503}
      OBVIOUS
    <3> HIDE DEF code
    <3>3. report' = Put(report, l, Answered(report[l], code))
      BY <3>1 DEF RepliesReport, Answered, Put
    <3> QED
      BY <3>2, <3>3
  <2>2. UNCHANGED <<envVars, login, decide, sent, stored, capture>>
    BY <1>2 DEF RecordOutcome
  <2>3. ASSUME NEW status \in {400, 401, 503},
               report' = Put(report, l, Answered(report[l], status))
        PROVE  IInv'
    <3>1. status \in ReportCodes /\ status # 202
      BY ReportWords
    <3> QED
      BY <1>0, <2>2, <2>3, <3>1, ReportReplies
  <2> QED
    BY <2>1, <2>3
<1> QED
  BY <1>1, <1>2

LEMMA RecordedStep ==
  ASSUME IInv, NEW l \in Login, Recorded(l) \/ RecordFails(l)
  PROVE  IInv'
<1>1. \E status \in {202, 500} :
        /\ report' = Put(report, l, Answered(report[l], status))
        /\ status = 202 => StoredOutcome(l)
  BY DEF Recorded, RecordFails, RepliesReport, Answered, Put
<1>2. report[l].pc = "appending" /\ UNCHANGED <<envVars, login, decide, sent, stored, capture>>
  BY DEF Recorded, RecordFails
<1>3. ASSUME NEW status \in {202, 500},
             report' = Put(report, l, Answered(report[l], status)),
             status = 202 => StoredOutcome(l)
      PROVE  IInv'
  <2>1. status \in ReportCodes
    BY ReportWords
  <2> QED
    BY <1>2, <1>3, <2>1, ReportReplies
<1> QED
  BY <1>1, <1>3

-----------------------------------------------------------------------------
(* The stream, and a restart. *)

LEMMA StreamStep ==
  ASSUME IInv, NEW r \in sent, Store(r) \/ Lose(r)
  PROVE  IInv'
<1>1. /\ login' = login /\ decide' = decide /\ report' = report /\ capture' = capture
      /\ mode' = mode /\ configured' = configured /\ registry' = registry
      /\ crashes' = crashes /\ moved' = moved
      /\ stored \subseteq stored' /\ (sent \cup stored)' \subseteq sent \cup stored
  BY DEF Store, Lose, envVars
<1>2. TypeOK'
  BY <1>1 DEF IInv, TypeOK
<1>3. \A k \in Login : HandlersOK(k)'
  BY <1>1, SameHandlers DEF IInv
<1>4. \A k \in Login : VerdictStands(k)
  BY <1>1 DEF VerdictStands
<1>5. \A x \in (sent \cup stored)' : RecordOK(x)'
  <2>1. \A x \in sent \cup stored : x.of \in Login
    BY DEF IInv, TypeOK, Records
  <2> QED
    BY <1>1, <1>4, <2>1, RecordStands DEF IInv
<1>6. \A row \in capture' : RowOK(row)'
  <2>1. \A row \in capture : row.of \in Login
    BY DEF IInv, TypeOK
  <2> QED
    BY <1>1, <1>4, <2>1, RowStands DEF IInv
<1> QED
  BY <1>2, <1>3, <1>5, <1>6 DEF IInv

LEMMA CrashStep ==
  ASSUME IInv, Crash
  PROVE  IInv'
<1>1. /\ login' = login /\ capture' = capture /\ stored' = stored /\ sent' = {}
      /\ mode' = mode /\ configured' = configured /\ registry' \in Files
      /\ moved' = moved \cup {l \in Login : Moves(l)}
  BY DEF Crash
<1>2. \A k \in Login :
        /\ decide[k].pc \in {"idle", "replied"} => decide'[k] = decide[k]
        /\ decide[k].pc \notin {"idle", "replied"} => decide'[k] = Gone(decide[k])
        /\ report[k].pc \in {"idle", "replied"} => report'[k] = report[k]
        /\ report[k].pc \notin {"idle", "replied"} => report'[k] = Gone(report[k])
  BY DEF Crash, Cut, Gone
<1>3. \A k \in Login :
        /\ decide'[k] \in DecideState /\ report'[k] \in ReportState
        /\ decide'[k].status = decide[k].status /\ decide'[k].out = decide[k].out
        /\ decide'[k].tenant = decide[k].tenant /\ decide'[k].counted = decide[k].counted
        /\ report'[k].status = report[k].status
        /\ decide'[k].pc = IF decide[k].pc \in {"idle", "replied"} THEN decide[k].pc ELSE "gone"
        /\ report'[k].pc = IF report[k].pc \in {"idle", "replied"} THEN report[k].pc ELSE "gone"
  <2> SUFFICES ASSUME NEW k \in Login
               PROVE  /\ decide'[k] \in DecideState /\ report'[k] \in ReportState
                      /\ decide'[k].status = decide[k].status
                      /\ decide'[k].out = decide[k].out
                      /\ decide'[k].tenant = decide[k].tenant
                      /\ decide'[k].counted = decide[k].counted
                      /\ report'[k].status = report[k].status
                      /\ decide'[k].pc = IF decide[k].pc \in {"idle", "replied"}
                                         THEN decide[k].pc ELSE "gone"
                      /\ report'[k].pc = IF report[k].pc \in {"idle", "replied"}
                                         THEN report[k].pc ELSE "gone"
    OBVIOUS
  <2>1. decide[k] \in DecideState /\ report[k] \in ReportState
    BY DEF IInv, TypeOK
  <2>2. Gone(decide[k]) \in DecideState
    BY <2>1 DEF DecideState, DecidePlaces, Gone
  <2>3. Gone(report[k]) \in ReportState
    BY <2>1, ReportWords DEF ReportState, Gone
  <2>4. /\ decide'[k] \in DecideState
        /\ decide'[k].status = decide[k].status /\ decide'[k].out = decide[k].out
        /\ decide'[k].tenant = decide[k].tenant /\ decide'[k].counted = decide[k].counted
        /\ decide'[k].pc = IF decide[k].pc \in {"idle", "replied"} THEN decide[k].pc ELSE "gone"
    <3>1. CASE decide[k].pc \in {"idle", "replied"}
      <4>1. decide'[k] = decide[k]
        BY <1>2, <3>1
      <4> QED
        BY <2>1, <3>1, <4>1
    <3>2. CASE decide[k].pc \notin {"idle", "replied"}
      <4>1. decide'[k] = Gone(decide[k])
        BY <1>2, <3>2
      <4> QED
        BY <2>1, <2>2, <3>2, <4>1 DEF DecideState, Gone
    <3> QED
      BY <3>1, <3>2
  <2>5. /\ report'[k] \in ReportState
        /\ report'[k].status = report[k].status
        /\ report'[k].pc = IF report[k].pc \in {"idle", "replied"} THEN report[k].pc ELSE "gone"
    <3>1. CASE report[k].pc \in {"idle", "replied"}
      <4>1. report'[k] = report[k]
        BY <1>2, <3>1
      <4> QED
        BY <2>1, <3>1, <4>1
    <3>2. CASE report[k].pc \notin {"idle", "replied"}
      <4>1. report'[k] = Gone(report[k])
        BY <1>2, <3>2
      <4> QED
        BY <2>1, <2>3, <3>2, <4>1 DEF ReportState, Gone
    <3> QED
      BY <3>1, <3>2
  <2> QED
    BY <2>4, <2>5
<1>4. TypeOK'
  <2>1. decide' \in [Login -> DecideState] /\ report' \in [Login -> ReportState]
    BY <1>3 DEF Crash, Cut
  <2>2. crashes' \in 0 .. MaxCrashes
    BY Values, Counting DEF Crash, IInv, TypeOK
  <2> QED
    BY <1>1, <2>1, <2>2 DEF IInv, TypeOK
<1>5. \A k \in Login : HandlersOK(k)'
  <2>1. \A k \in Login : SpeakerKept(k)'
    BY <1>1, <1>3 DEF SpeakerKept, Moves
  <2> QED
    BY <1>1, <1>3, <2>1 DEF IInv, HandlersOK, StoredOutcome, StoredEvaluation
<1>6. \A k \in Login : VerdictStands(k)
  BY <1>1, <1>3 DEF VerdictStands
<1>7. \A x \in (sent \cup stored)' : RecordOK(x)'
  <2>1. \A x \in stored : x.of \in Login
    BY DEF IInv, TypeOK, Records
  <2> QED
    BY <1>1, <1>6, <2>1, RecordStands DEF IInv
<1>8. \A row \in capture' : RowOK(row)'
  <2>1. \A row \in capture : row.of \in Login
    BY DEF IInv, TypeOK
  <2> QED
    BY <1>1, <1>6, <2>1, RowStands DEF IInv
<1> QED
  BY <1>4, <1>5, <1>7, <1>8 DEF IInv

LEMMA StutterStep ==
  ASSUME IInv, UNCHANGED vars
  PROVE  IInv'
BY DEF IInv, TypeOK, HandlersOK, RecordOK, RowOK, SpeakerKept, Speaks, StoredOutcome,
       StoredEvaluation, vars, envVars, serverVars

LEMMA IInvInvariant == Spec => []IInv
<1>1. ASSUME IInv, [Next]_vars  PROVE IInv'
  <2>1. ASSUME NEW l \in Login, Service(l)  PROVE IInv'
    BY <1>1, <2>1, AuthenticateStep, JudgeStep, AnswersStep, RecordOutcomeStep, RecordedStep
       DEF Service
  <2> QED
    BY <1>1, <2>1, SubmitStep, BackendStep, StreamStep, CrashStep, StutterStep
       DEF Next, Settled
<1> QED
  BY <1>1, InitIInv, PTL DEF Spec

-----------------------------------------------------------------------------
(* Every state of every run is of the shape the model declares. *)
THEOREM TypeCorrect == Spec => []TypeOK
BY IInvInvariant, PTL DEF IInv

(* reportOutcome and archiveBestEffort: the label a page shows and the     *)
(* evaluation the meter counts as written are on the stream, also after    *)
(* restarts and whatever the clients gave up on (web.go 292-299).          *)
THEOREM ShownIsStored == Spec => []ReportedIsStored
<1>1. IInv => ReportedIsStored
  BY DEF IInv, HandlersOK, ReportedIsStored
<1> QED
  BY <1>1, IInvInvariant, PTL

(* login and buildEvaluation: no evaluation of a study's participant names *)
(* a subject, on the stream or on its way there (web.go 187-196).          *)
THEOREM ParticipantsStayUnnamed == Spec => []ParticipantsCanBeForgotten
<1>1. IInv => ParticipantsCanBeForgotten
  BY DEF IInv, RecordOK, ParticipantsCanBeForgotten
<1> QED
  BY <1>1, IInvInvariant, PTL

(* RecordOutcome looks nothing up, and its labels join all the same: the   *)
(* evaluation they name was given to this login, says what the label takes *)
(* for granted, and is the same tenant's unless a restart moved the        *)
(* login's secret to another between the two calls (outcome.go 32-77).     *)
THEOREM LabelsJoin == Spec => []LabelsJoinTheirVerdict
<1>1. IInv => LabelsJoinTheirVerdict
  <2> SUFFICES ASSUME IInv  PROVE LabelsJoinTheirVerdict
    OBVIOUS
  <2> DEFINE stands == {r \in stored : r.kind = "evaluation"}
  <2>1. ASSUME NEW o \in stored \ stands
        PROVE  /\ o.of \in Login /\ RecordOK(o) /\ o.kind = "outcome"
               /\ login[o.of].answer.id = o.of
               /\ login[o.of].answer = decide[o.of].out
    <3>1. o \in Records /\ o.kind # "evaluation" /\ RecordOK(o)
      BY DEF IInv, TypeOK
    <3>2. o.of \in Login /\ o.kind = "outcome"
      BY <3>1 DEF Records
    <3>3. HandlersOK(o.of)
      BY <3>2 DEF IInv
    <3> QED
      BY <3>1, <3>2, <3>3 DEF RecordOK, HandlersOK
  <2>2. ASSUME NEW o \in stored \ stands, NEW e \in stands, e.of = o.of
        PROVE  /\ e.tenant = o.tenant \/ o.of \in moved
               /\ <<e.says, o.says>> \in {<<"allow", "login_success">>,
                                         <<"block", "login_failure">>}
    <3>1. RecordOK(e) /\ e.kind = "evaluation"
      BY DEF IInv
    <3>2. e.tenant = o.tenant \/ o.of \in moved
      BY <2>1, <2>2, <3>1 DEF RecordOK
    <3>3. o.says = LabelFor(e.says) /\ o.says \in ValidOutcomes
      BY <2>1, <2>2, <3>1 DEF RecordOK
    <3> QED
      BY <3>2, <3>3, Labels, Values
  <2>3. ASSUME NEW row \in capture, NEW e \in stands, e.of = row.id
        PROVE  e.says = row.decision
    <3>1. RecordOK(e) /\ e.kind = "evaluation" /\ e.of \in Login
      BY DEF IInv, TypeOK, Records
    <3>2. RowOK(row) /\ row.id # NoId
      BY <2>3, <3>1, Values DEF IInv
    <3> QED
      BY <2>3, <3>1, <3>2 DEF RecordOK, RowOK
  <2> QED
    BY <2>1, <2>2, <2>3 DEF LabelsJoinTheirVerdict
<1> QED
  BY <1>1, IInvInvariant, PTL
=============================================================================
