------------------------------ MODULE Decisions ------------------------------
(***************************************************************************)
(* A login from submit to page: the customer's backend (demo-web) asks for *)
(* a decision over HTTP, the decision service judges, archives the         *)
(* evaluation best effort and answers, the backend files what it did as an *)
(* outcome and shows the page.  Client and server are apart: a client that *)
(* gives up at its 250ms leaves a server that may still store; a server    *)
(* that gives up on the store leaves a publish that may still land.        *)
(*                                                                         *)
(* One login is one decision request, so a login's name is also the id of  *)
(* the evaluation minted for it.  The judgement itself is Policy: here it  *)
(* is any verdict, and allow for a session without evidence.  Requests are *)
(* well formed, since the backend marshals the type the service decodes.   *)
(***************************************************************************)
EXTENDS TenantRegistry, FiniteSets

CONSTANTS
  Login,        \* logins submitted to some customer's backend
  Token,        \* session tokens a page may carry
  Owner,        \* Owner[t]: the tenant whose session t is, or Nobody
  Files,        \* registries the service may be started with
  Secret,       \* Secret[l]: what the backend that serves l presents
  Modes,        \* monitor and enforce
  NoId,         \* an evaluation id that is not there
  NoWord,       \* a decision or a label that is not there
  MaxCrashes    \* bound: restarts of the service

Verdicts == {"allow", "challenge", "block"}

(* The labels of the contract; only two of them can be known at a login.   *)
ValidOutcomes == {"login_success", "login_failure", "challenge_passed",
                  "challenge_failed", "fraud_confirmed", "user_appealed",
                  "abandoned"}

(* The tenants of all of them. *)
Tenants == UNION {{f[i].id : i \in DOMAIN f} : f \in Files}

ASSUME DecisionsAssumption ==
  /\ \A f \in Files : Acceptable(f) /\ f \in Seq({f[i] : i \in DOMAIN f})
  /\ Modes = {"monitor", "enforce"}
  /\ NoId \notin Login /\ NoWord \notin Verdicts \cup ValidOutcomes
  /\ Nobody \notin Tenants
  /\ MaxCrashes \in Nat

VARIABLES
  mode,        \* of the service, fixed at start
  configured,  \* it has an archive (otherwise archive.Null)
  registry,    \* the tenants it serves, fixed at start
  crashes,
  moved,       \* history: logins whose secret became another tenant's
  login,       \* per login: the backend's handler
  decide,      \* per login: the service's handler of /v1/decisions
  report,      \* per login: the service's handler of /v1/outcomes
  sent,        \* records published and not yet known to the stream
  stored,      \* records on the stream
  capture      \* rows of the capture log

serverVars == <<decide, report, sent>>
envVars    == <<mode, configured, registry, crashes, moved>>
vars       == <<envVars, login, serverVars, stored, capture>>

-----------------------------------------------------------------------------
NoAnswer == [id |-> NoId, decision |-> NoWord, mode |-> NoWord]

Init ==
  /\ mode \in Modes /\ configured \in BOOLEAN /\ registry \in Files
  /\ crashes = 0 /\ moved = {}
  /\ login = [l \in Login |-> [pc |-> "page", token |-> NoId, participant |-> FALSE,
                               answer |-> NoAnswer, filed |-> NoWord]]
  /\ decide = [l \in Login |-> [pc |-> "idle", tenant |-> Nobody, status |-> 0,
                                out |-> NoAnswer, counted |-> "none"]]
  /\ report = [l \in Login |-> [pc |-> "idle", status |-> 0]]
  /\ sent = {} /\ stored = {} /\ capture = {}

-----------------------------------------------------------------------------
(* The backend: login (web.go) over HTTPDecisionClient (client.go).        *)

(* The form arrives: the body is built and POSTed.                         *)
Submit(l) ==
  /\ login[l].pc = "page"
  /\ \E t \in Token, p \in BOOLEAN :
       login' = [login EXCEPT ![l] = [@ EXCEPT !.pc = "deciding", !.token = t,
                                             !.participant = p]]
  /\ decide' = [decide EXCEPT ![l].pc = "asked"]
  /\ UNCHANGED <<envVars, report, sent, stored, capture>>

(* What the service's handler wrote, decoded into a map whatever the       *)
(* status: an error body is JSON too, with none of the keys looked for.    *)
Decoded(l) == IF decide[l].status = 200 THEN decide[l].out ELSE NoAnswer

(* What the application did; a challenge is not finished.                  *)
LabelFor(d) ==
  CASE d = "allow" -> "login_success" [] d = "block" -> "login_failure" [] OTHER -> NoWord

(* What there is to file about an answer: nothing without an evaluation.   *)
Filing(a) == IF a.id = NoId THEN NoWord ELSE LabelFor(a.decision)

(* appendCapture: what a study's participant was answered, by its id.      *)
CaptureRow(l, a) == [of |-> l, id |-> a.id, decision |-> a.decision]

(* login between its two calls: a row for the study only when the call     *)
(* came back, the fail-open answer when it did not, then the label.  The   *)
(* row may fail to be written, which is swallowed.                         *)
Proceed(l, answer, cameBack) ==
  /\ \/ cameBack /\ login[l].participant /\ capture' = capture \cup {CaptureRow(l, answer)}
     \/ UNCHANGED capture
  /\ IF Filing(answer) = NoWord
     THEN /\ login' = [login EXCEPT ![l] = [@ EXCEPT !.pc = "shown", !.answer = answer]]
          /\ UNCHANGED report
     ELSE /\ login' = [login EXCEPT ![l] = [@ EXCEPT !.pc = "reporting", !.answer = answer]]
          /\ report' = [report EXCEPT ![l].pc = "asked"]
  /\ UNCHANGED <<envVars, decide, sent, stored>>

Decided(l) ==
  /\ login[l].pc = "deciding" /\ decide[l].pc = "replied"
  /\ Proceed(l, Decoded(l), TRUE)

FailOpen == [id |-> NoId, decision |-> "allow", mode |-> "fail-open"]

(* The 250ms pass, the connection breaks, or the body is not JSON.         *)
DecideFails(l) ==
  /\ login[l].pc = "deciding"
  /\ Proceed(l, FailOpen, FALSE)

(* Mutant of ReportAnswered: the status is not looked at, as for Decide.   *)
AnyReplyIsAFiling(l) ==
  /\ login[l].pc = "reporting" /\ report[l].pc = "replied"
  /\ login' = [login EXCEPT ![l] = [@ EXCEPT !.pc = "shown",
                                             !.filed = LabelFor(login[l].answer.decision)]]
  /\ UNCHANGED <<envVars, serverVars, stored, capture>>

(* Report came back; the page shows the label only for a 2xx.              *)
ReportAnswered(l) ==
  /\ login[l].pc = "reporting" /\ report[l].pc = "replied"
  /\ login' = [login EXCEPT ![l] = [@ EXCEPT !.pc = "shown",
                                             !.filed = IF report[l].status = 202
                                                       THEN LabelFor(login[l].answer.decision)
                                                       ELSE NoWord]]
  /\ UNCHANGED <<envVars, serverVars, stored, capture>>

(* Mutant of ReportFails: only a broken connection ends the wait.          *)
ReportBreaks(l) ==
  /\ login[l].pc = "reporting" /\ report[l].pc = "gone"
  /\ login' = [login EXCEPT ![l].pc = "shown"]
  /\ UNCHANGED <<envVars, serverVars, stored, capture>>

(* The same 250ms for the report: the login stands, without a label.       *)
ReportFails(l) ==
  /\ login[l].pc = "reporting"
  /\ login' = [login EXCEPT ![l].pc = "shown"]
  /\ UNCHANGED <<envVars, serverVars, stored, capture>>

-----------------------------------------------------------------------------
(* The service: libs/decision over the stream.                             *)

(* What Decide returns and what buildEvaluation makes of it.               *)
Output(l, d) == [id |-> l, decision |-> d, mode |-> mode]

Evaluation(l, subject, out) ==
  [kind |-> "evaluation", of |-> out.id, tenant |-> decide[l].tenant,
   subject |-> subject, says |-> out.decision]

Outcome(l, tenant, label) ==
  [kind |-> "outcome", of |-> l, tenant |-> tenant, subject |-> NoWord, says |-> label]

RepliesDecide(l, status, counted) ==
  [decide EXCEPT ![l] = [@ EXCEPT !.pc = "replied", !.status = status, !.counted = counted]]
RepliesReport(l, status) ==
  [report EXCEPT ![l] = [@ EXCEPT !.pc = "replied", !.status = status]]

Speaks(l) == BySecretKey(registry, Secret[l])

(* handleDecisions until Lookup: the secret names the tenant.              *)
Authenticate(l) ==
  /\ decide[l].pc = "asked"
  /\ decide' = IF Speaks(l) = Nobody THEN RepliesDecide(l, 401, "none")
               ELSE [decide EXCEPT ![l] = [@ EXCEPT !.pc = "looking", !.tenant = Speaks(l)]]
  /\ UNCHANGED <<envVars, login, report, sent, stored, capture>>

(* The store did not answer: an error, never a miss.                       *)
LookupFails(l) ==
  /\ decide[l].pc = "looking"
  /\ decide' = RepliesDecide(l, 500, "none")
  /\ UNCHANGED <<envVars, login, report, sent, stored, capture>>

(* Mutant of Subject: what every other login asserts.                      *)
AlwaysNamed(l) == "user"

(* The subject the backend asserts: nothing for a study's participant.     *)
Subject(l) == IF login[l].participant THEN NoWord ELSE "user"

(* Apply: monitor always allows.  A session without evidence, and one of   *)
(* another tenant reads as that, is allowed in either mode.                *)
Judged(l) ==
  IF mode = "monitor" \/ Owner[login[l].token] # decide[l].tenant THEN {"allow"}
  ELSE Verdicts

(* Mutant of Judge: the record holds what enforce mode would have said.    *)
JudgeRecordsTheShadow(l) ==
  /\ decide[l].pc = "looking"
  /\ \E d \in Judged(l), shadow \in Verdicts :
       /\ mode = "enforce" => shadow = d
       /\ decide' = [decide EXCEPT ![l] =
                       [@ EXCEPT !.pc = IF configured THEN "archiving" ELSE "replied",
                                 !.status = 200, !.out = Output(l, d)]]
       /\ sent' = IF configured
                  THEN sent \cup {Evaluation(l, Subject(l), Output(l, shadow))}
                  ELSE sent
  /\ UNCHANGED <<envVars, login, report, stored, capture>>

(* Decide after Lookup: Judge, Apply, the id, the record built from what   *)
(* will be served, and the publish that archiveBestEffort waits for.  With *)
(* no archive there is nothing to wait for and nothing is counted.         *)
Judge(l) ==
  /\ decide[l].pc = "looking"
  /\ \E d \in Judged(l) :
       /\ decide' = [decide EXCEPT ![l] =
                       [@ EXCEPT !.pc = IF configured THEN "archiving" ELSE "replied",
                                 !.status = 200, !.out = Output(l, d)]]
       /\ sent' = IF configured
                  THEN sent \cup {Evaluation(l, Subject(l), Output(l, d))}
                  ELSE sent
  /\ UNCHANGED <<envVars, login, report, stored, capture>>

StoredEvaluation(l) == \E r \in stored : r.kind = "evaluation" /\ r.of = l

(* archiveBestEffort hears from the stream, or its 250ms pass, or it is    *)
(* told of an error; the answer goes out either way.                       *)
Archived(l) ==
  /\ decide[l].pc = "archiving" /\ StoredEvaluation(l)
  /\ decide' = RepliesDecide(l, 200, "written")
  /\ UNCHANGED <<envVars, login, report, sent, stored, capture>>

ArchiveFails(l) ==
  /\ decide[l].pc = "archiving"
  /\ decide' = RepliesDecide(l, 200, "dropped")
  /\ UNCHANGED <<envVars, login, report, sent, stored, capture>>

(* handleOutcomes and RecordOutcome until its Append: the tenant is the    *)
(* caller's, and that the evaluation exists is not looked up.              *)
RecordOutcome(l) ==
  LET label == LabelFor(login[l].answer.decision) IN
  /\ report[l].pc = "asked"
  /\ IF Speaks(l) # Nobody /\ label \in ValidOutcomes /\ configured
     THEN /\ report' = [report EXCEPT ![l].pc = "appending"]
          /\ sent' = sent \cup {Outcome(l, Speaks(l), label)}
     ELSE /\ report' = RepliesReport(l, CASE Speaks(l) = Nobody        -> 401
                                          [] label \notin ValidOutcomes
                                             /\ Speaks(l) # Nobody     -> 400
                                          [] OTHER                     -> 503)
          /\ UNCHANGED sent
  /\ UNCHANGED <<envVars, login, decide, stored, capture>>

StoredOutcome(l) == \E r \in stored : r.kind = "outcome" /\ r.of = l

Recorded(l) ==
  /\ report[l].pc = "appending" /\ StoredOutcome(l)
  /\ report' = RepliesReport(l, 202)
  /\ UNCHANGED <<envVars, login, decide, sent, stored, capture>>

RecordFails(l) ==
  /\ report[l].pc = "appending"
  /\ report' = RepliesReport(l, 500)
  /\ UNCHANGED <<envVars, login, decide, sent, stored, capture>>

-----------------------------------------------------------------------------
(* The stream takes in what was published, also after its publisher gave   *)
(* up; or it never does.                                                   *)
Store(r) ==
  /\ r \in sent
  /\ sent' = sent \ {r} /\ stored' = stored \cup {r}
  /\ UNCHANGED <<envVars, login, decide, report, capture>>

Lose(r) ==
  /\ r \in sent
  /\ sent' = sent \ {r}
  /\ UNCHANGED <<envVars, login, decide, report, stored, capture>>

(* The service stops: handlers are cut, the client's buffer is lost, and   *)
(* it starts again with the file there is by then.  Nothing compares that  *)
(* file with the last one: it may give a secret to another tenant.         *)
Cut(handler) == [l \in Login |-> IF handler[l].pc \in {"idle", "replied"} THEN handler[l]
                                 ELSE [handler[l] EXCEPT !.pc = "gone"]]

(* Under the new file, l's caller is not the tenant its decision was for.  *)
Moves(l) == decide[l].tenant # Nobody /\ Speaks(l)' \notin {decide[l].tenant, Nobody}

Crash ==
  /\ crashes < MaxCrashes
  /\ crashes' = crashes + 1
  /\ registry' \in Files
  /\ moved' = moved \cup {l \in Login : Moves(l)}
  /\ decide' = Cut(decide) /\ report' = Cut(report)
  /\ sent' = {}
  /\ UNCHANGED <<mode, configured, login, stored, capture>>

(* Every page has been shown and nothing is on its way. *)
Settled ==
  /\ \A l \in Login : login[l].pc = "shown"
  /\ UNCHANGED vars

Backend(l) == Decided(l) \/ DecideFails(l) \/ ReportAnswered(l) \/ ReportFails(l)

Service(l) ==
  \/ Authenticate(l) \/ LookupFails(l) \/ Judge(l) \/ Archived(l) \/ ArchiveFails(l)
  \/ RecordOutcome(l) \/ Recorded(l) \/ RecordFails(l)

Next ==
  \/ \E l \in Login : Submit(l) \/ Backend(l) \/ Service(l)
  \/ \E r \in sent : Store(r) \/ Lose(r)
  \/ Crash
  \/ Settled

Spec == Init /\ [][Next]_vars

(* The backend's two calls are bounded by its client's timeout.            *)
Fairness == \A l \in Login : WF_vars(Backend(l))

FairSpec == Spec /\ Fairness

-----------------------------------------------------------------------------
Records == [kind : {"evaluation", "outcome"}, of : Login,
            tenant : Tenants, subject : {NoWord, "user"}, says : Verdicts \cup ValidOutcomes]

Answers == [id : Login \cup {NoId}, decision : Verdicts \cup {NoWord},
            mode : Modes \cup {"fail-open", NoWord}]

LoginState == [pc : {"page", "deciding", "reporting", "shown"},
               token : Token \cup {NoId}, participant : BOOLEAN, answer : Answers,
               filed : ValidOutcomes \cup {NoWord}]

DecidePlaces == {"idle", "asked", "looking", "archiving", "replied", "gone"}
DecideCodes  == {0, 200, 401, 500}
Counts       == {"none", "written", "dropped"}

DecideState == [pc : DecidePlaces, tenant : Tenants \cup {Nobody}, status : DecideCodes,
                out : Answers, counted : Counts]

ReportPlaces == {"idle", "asked", "appending", "replied", "gone"}
ReportCodes  == {0, 202, 400, 401, 500, 503}

ReportState == [pc : ReportPlaces, status : ReportCodes]

TypeOK ==
  /\ mode \in Modes /\ configured \in BOOLEAN /\ registry \in Files
  /\ crashes \in 0 .. MaxCrashes /\ moved \subseteq Login
  /\ login \in [Login -> LoginState]
  /\ decide \in [Login -> DecideState]
  /\ report \in [Login -> ReportState]
  /\ sent \subseteq Records /\ stored \subseteq Records
  /\ capture \subseteq [of : Login, id : Login \cup {NoId}, decision : Verdicts \cup {NoWord}]

(* What anyone was told is stored is on the stream: the label a page shows *)
(* (web.go: the page cannot show a label that was never stored) and the    *)
(* evaluation the loss meter counted as written.                           *)
ReportedIsStored ==
  \A l \in Login :
     /\ login[l].filed # NoWord =>
          \E r \in stored : r.kind = "outcome" /\ r.of = l /\ r.says = login[l].filed
     /\ decide[l].counted = "written" => StoredEvaluation(l)

(* A label on the stream is about a verdict its application was really     *)
(* given, and joins no evaluation that says otherwise, although            *)
(* RecordOutcome does not look it up: success only where the user was let  *)
(* in, failure only where refused.  The evaluation is the same tenant's,   *)
(* except after a restart that gave the login's secret to another tenant   *)
(* between the two calls: a label is filed under whoever the secret names  *)
(* then.  A row of the capture log joins the evaluation that says what the *)
(* participant saw.                                                        *)
LabelsJoinTheirVerdict ==
  LET stands == {r \in stored : r.kind = "evaluation"} IN
  /\ \A o \in stored \ stands :
       /\ login[o.of].answer.id = o.of
       /\ \A e \in stands : e.of = o.of =>
            /\ e.tenant = o.tenant \/ o.of \in moved
            /\ <<e.says, o.says>> \in {<<"allow", "login_success">>, <<"block", "login_failure">>}
  /\ \A row \in capture, e \in stands : e.of = row.id => e.says = row.decision

(* A participant of the capture study can be forgotten by deleting the     *)
(* row: no evaluation the rest of the world keeps names anyone, whether or *)
(* not the row was written and whether or not the page got its answer.     *)
ParticipantsCanBeForgotten ==
  \A e \in stored \cup sent :
     e.kind = "evaluation" /\ login[e.of].participant => e.subject = NoWord

(* A login ends, whatever the service, the store or the link does.         *)
EveryLoginAnswered ==
  \A l \in Login : login[l].pc = "deciding" ~> login[l].pc = "shown"
=============================================================================
