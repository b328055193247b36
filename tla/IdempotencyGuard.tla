--------------------------- MODULE IdempotencyGuard ---------------------------
(***************************************************************************)
(* idempotency_guard of core/idempotency.py: several requests with the     *)
(* same (user, endpoint, key) - a double tap, a retry through a cold start *)
(* - run the same handler body through one row of idempotency_records.     *)
(*                                                                         *)
(* The row is looked up, then inserted and committed, in two steps; the    *)
(* unique constraint decides who wins between them.  The body may do its   *)
(* effect (an order at a broker, an XP award) and then still fail.         *)
(***************************************************************************)
EXTENDS Naturals, FiniteSets

CONSTANTS
  Attempts,   \* the requests made with the same key
  Nobody      \* no attempt: not one of them

VARIABLES
  record,     \* the row of the key
  at,         \* where each attempt is
  answer,     \* what each attempt answers, once it has something to answer
  effects,    \* how often the effect of the body was carried out
  spoiled     \* history: a body failed unexpectedly after its effect

keyVars == <<record, at, answer, effects, spoiled>>

-----------------------------------------------------------------------------
(* Details of an answer: the body of a success, the detail of an           *)
(* HTTPException, which is a text or an object.                            *)
Details == {"body", "text", "object", "wrapped text", "none"}

Kinds == {"ok", "http", "busy", "error", "lost", "none"}

(* by: the attempt whose run of the body the answer reports.               *)
Answers == [kind : Kinds, by : Attempts \cup {Nobody}, detail : Details]

Told(kind, by, detail) == [kind |-> kind, by |-> by, detail |-> detail]
Plain(kind) == Told(kind, Nobody, "none")

(* completed_at IS NULL is "reserved".                                     *)
Record == [state : {"absent", "reserved", "done"}, owner : Attempts \cup {Nobody},
           response : Answers]

Absent      == [state |-> "absent", owner |-> Nobody, response |-> Plain("none")]
Reserved(a) == [state |-> "reserved", owner |-> a, response |-> Plain("none")]
Completed(a, response) == [state |-> "done", owner |-> a, response |-> response]

(* Mutant: every answer is wrapped.                                        *)
StoredWrapped(response) ==
  [response EXCEPT !.detail = IF @ = "body" THEN "wrapped body" ELSE "wrapped text"]

(* response_body = e.detail if it is a dict or a list, else                *)
(* {"detail": e.detail}.                                                   *)
Stored(response) ==
  IF response.detail = "text" THEN [response EXCEPT !.detail = "wrapped text"]
  ELSE response

KeyInit ==
  /\ record = Absent
  /\ at = [a \in Attempts |-> "new"]
  /\ answer = [a \in Attempts |-> Plain("none")]
  /\ effects = 0
  /\ spoiled = FALSE

-----------------------------------------------------------------------------
Move(a, label) == at' = [at EXCEPT ![a] = label]

Say(a, what) ==
  /\ answer' = [answer EXCEPT ![a] = what]
  /\ Move(a, "answered")

LookupNothing(a) ==
  /\ at[a] = "new"
  /\ record.state = "absent"
  /\ Move(a, "inserting")
  /\ UNCHANGED <<record, answer, effects, spoiled>>

(* Mutants: a duplicate waits for the reservation; a duplicate takes it    *)
(* over.                                                                   *)
LookupReservedWaits(a) ==
  /\ at[a] = "new"
  /\ record.state = "reserved"
  /\ UNCHANGED keyVars

LookupReservedTakesOver(a) ==
  /\ at[a] = "new"
  /\ record.state = "reserved"
  /\ record' = Reserved(a)
  /\ Move(a, "working")
  /\ UNCHANGED <<answer, effects, spoiled>>

LookupReserved(a) ==
  /\ at[a] = "new"
  /\ record.state = "reserved"
  /\ Say(a, Plain("busy"))
  /\ UNCHANGED <<record, effects, spoiled>>

(* The recorded error is raised again, the recorded success returned.      *)
Replay(a) ==
  /\ at[a] = "new"
  /\ record.state = "done"
  /\ Say(a, record.response)
  /\ UNCHANGED <<record, effects, spoiled>>

(* Mutant: there is no unique constraint.                                  *)
InsertBlindly(a) ==
  /\ at[a] = "inserting"
  /\ record' = Reserved(a)
  /\ Move(a, "working")
  /\ UNCHANGED <<answer, effects, spoiled>>

Insert(a) ==
  /\ at[a] = "inserting"
  /\ record.state = "absent"
  /\ record' = Reserved(a)
  /\ Move(a, "working")
  /\ UNCHANGED <<answer, effects, spoiled>>

(* IntegrityError: somebody inserted since the lookup.                     *)
InsertConflict(a) ==
  /\ at[a] = "inserting"
  /\ record.state # "absent"
  /\ Say(a, Plain("busy"))
  /\ UNCHANGED <<record, effects, spoiled>>

-----------------------------------------------------------------------------
InBody(a) == at[a] \in {"working", "effected"}

DoEffect(a) ==
  /\ at[a] = "working"
  /\ effects' = effects + 1
  /\ Move(a, "effected")
  /\ UNCHANGED <<record, answer, spoiled>>

(* The response is recorded first and sent after that.                     *)
Complete(a, response) ==
  /\ record' = Completed(a, Stored(response))
  /\ answer' = [answer EXCEPT ![a] = response]
  /\ Move(a, "replying")

Succeed(a) ==
  /\ at[a] = "effected"
  /\ Complete(a, Told("ok", a, "body"))
  /\ UNCHANGED <<effects, spoiled>>

(* Mutant: an HTTPException frees the key.                                 *)
RaiseHttpAndForget(a) ==
  /\ InBody(a)
  /\ record' = Absent
  /\ answer' = [answer EXCEPT ![a] = Told("http", a, "text")]
  /\ Move(a, "replying")
  /\ UNCHANGED <<effects, spoiled>>

(* Before the effect (a check failed) or after it (the broker refused).    *)
RaiseHttp(a) ==
  /\ InBody(a)
  /\ \E detail \in {"text", "object"} : Complete(a, Told("http", a, detail))
  /\ UNCHANGED <<effects, spoiled>>

(* Any other exception: the reservation is deleted.                        *)
RaiseOther(a) ==
  /\ InBody(a)
  /\ record' = Absent
  /\ Say(a, Plain("error"))
  /\ spoiled' = (spoiled \/ at[a] = "effected")
  /\ UNCHANGED effects

(* An exception of the database leaves the session waiting for a rollback  *)
(* nobody issues: the delete fails too, and the reservation stays.         *)
RaiseDatabase(a) ==
  /\ InBody(a)
  /\ Say(a, Plain("error"))
  /\ UNCHANGED <<record, effects, spoiled>>

Reply(a) ==
  /\ at[a] = "replying"
  /\ Move(a, "answered")
  /\ UNCHANGED <<record, answer, effects, spoiled>>

(* The process dies under the request, or the connection is cut.           *)
Crash(a) ==
  /\ at[a] # "answered"
  /\ Say(a, Plain("lost"))
  /\ UNCHANGED <<record, effects, spoiled>>

Progress(a) ==
  \/ LookupNothing(a) \/ LookupReserved(a) \/ Replay(a)
  \/ Insert(a) \/ InsertConflict(a)
  \/ DoEffect(a) \/ Succeed(a) \/ RaiseHttp(a) \/ RaiseOther(a) \/ RaiseDatabase(a)
  \/ Reply(a)

KeyNext == \E a \in Attempts : Progress(a) \/ Crash(a)

(* A request that has begun is a task of the event loop: it gets its turn. *)
KeyFairness == \A a \in Attempts : WF_keyVars(Progress(a))

KeySpec == KeyInit /\ [][KeyNext]_keyVars /\ KeyFairness

-----------------------------------------------------------------------------
(* Every variable holds a value of its type.                               *)
KeyTypeOK ==
  /\ record \in Record
  /\ at \in [Attempts -> {"new", "inserting", "working", "effected", "replying",
                          "answered"}]
  /\ answer \in [Attempts -> Answers]
  /\ effects \in Nat
  /\ spoiled \in BOOLEAN

(* However lookups and inserts cross, one attempt at most is inside the    *)
(* body, and the row is its own reservation ("The UNIQUE constraint below  *)
(* is what actually closes the race").                                     *)
OneBodyAtATime ==
  \A a \in Attempts : InBody(a) =>
    /\ record = Reserved(a)
    /\ \A b \in Attempts : InBody(b) => b = a

(* The effect is carried out once, whatever dies or is retried, unless a   *)
(* body fails unexpectedly after it: then its reservation is deleted and   *)
(* the retry does it again.                                                *)
EffectOnce == ~spoiled => effects <= 1

(* Two attempts that are told a result are told the result of the same run *)
(* of the body: the order a retry reports is the order that was placed.    *)
SameResult ==
  \A a, b \in Attempts :
    {answer[a].kind, answer[b].kind} \subseteq {"ok", "http"} =>
      answer[a].by = answer[b].by /\ answer[a].kind = answer[b].kind

(* The guard keeps the promise of OneShot.                                 *)
Abstract == INSTANCE OneShot WITH
  phase  <- IF record.state = "absent" THEN "open"
            ELSE IF record.state = "reserved" THEN "taken" ELSE "settled",
  holder <- record.owner,
  got    <- [a \in Attempts |->
               IF at[a] # "answered" THEN "nothing"
               ELSE IF answer[a].kind \in {"ok", "http"} THEN "result"
               ELSE answer[a].kind]

KeepsPromise == Abstract!Spec

(* Every attempt gets an answer: a duplicate never waits for a reservation *)
(* whose request may be dead.                                              *)
EveryAttemptAnswered == \A a \in Attempts : <>(at[a] = "answered")
=============================================================================
