------------------------------ MODULE SymbolUpload ------------------------------
(***************************************************************************)
(* Handing the audited debug companions of a release to Sentry             *)
(* (tool/upload_sentry_symbols.py, tool/sentry_upload_confirmation.py):    *)
(* the CLI uploads them, again after a transient failure, and whatever it  *)
(* claims the server is then asked for every debug file until all of them  *)
(* are there.  The server accepts and processes files at its own pace, and *)
(* the queries of a round run on a small pool.                             *)
(***************************************************************************)
EXTENDS Naturals, FiniteSets

CONSTANTS
    Idents,           \* the debug ids, numbered in the order they are queried
    Forms,            \* the formats, cpus and features required of each
    Workers,          \* max_workers
    UploadBudget,     \* run_cli: the CLI's deadline
    CliTries,         \* run_cli: attempts
    CliDelay,         \* run_cli: delay
    ConfirmBudget,    \* WAIT_SECONDS
    RoundDelay,       \* the delay between two rounds
    RetryAfter,       \* a delay the server asks for
    MaxRounds,        \* the bound on rounds
    MaxTime           \* the bound on the time requests are seen to take

ASSUME UploadAssumption ==
    /\ Idents \subseteq Nat \ {0} /\ IsFiniteSet(Idents) /\ Forms # {}
    /\ {Workers, UploadBudget, CliTries, CliDelay, ConfirmBudget, RoundDelay, RetryAfter,
        MaxRounds, MaxTime} \subseteq Nat \ {0}

(* requirements: what the server must list. *)
Items == Idents \X Forms
IdentOf(i) == i[1]

Transient == {"transport_error", "server_error"}
(* authentication, permission, rate limit, invalid or unknown failures *)
CliCategories == Transient \cup {"cli_success", "unconfirmed_success",
                                 "processing_incomplete", "rejected"}
Tolerated == Transient \cup {"rate_limited", "confirmation_deadline"}
Answers == {"rows", "rejected"} \cup Tolerated

VARIABLES
    now,        \* time since the present phase began
    uploadPc,   \* the program's next step
    due,        \* the deadline of the present phase
    until,      \* when the present sleep ends
    try,        \* run_cli: attempt
    category,   \* evidence["upload"]["category"]
    accepted,   \* server: items it has received
    served,     \* server: items it has processed and lists
    pending,    \* confirm_symbol_inventory: pending
    rounds,     \* report["rounds"]
    query,      \* state of this round's query for each id
    rows,       \* what the server listed for it
    delay,      \* the delay after this round
    status      \* evidence["status"]

serverVars == <<accepted, served>>
cliVars == <<try, category>>
roundVars == <<pending, rounds, query, rows, delay>>
uploadVars == <<now, uploadPc, due, until, cliVars, serverVars, roundVars, status>>

Outstanding == {IdentOf(i) : i \in pending}
Busy == {d \in Idents : query[d] = "busy"}

UploadTypeOK ==
    /\ now \in Nat /\ due \in Nat /\ until \in Nat
    /\ uploadPc \in {"stage", "cli", "uploading", "cliFailed", "cliSleep", "round", "pool",
               "failing", "sleep", "done"}
    /\ try \in 0..(CliTries - 1)
    /\ category \in CliCategories \cup {"none", "cli_timeout"}
    /\ accepted \subseteq Items /\ served \subseteq accepted /\ pending \subseteq Items
    /\ rounds \in 0..MaxRounds
    /\ query \in [Idents -> {"none", "queued", "busy", "consumed"} \cup Answers]
    /\ rows \in [Idents -> SUBSET Items] /\ delay \in Nat
    /\ status \in {"audited", "failed", "uploaded_and_processed"}

(* The server may hold files of an earlier release or an earlier run. *)
UploadInit ==
    /\ now = 0 /\ due = 0 /\ until = 0 /\ uploadPc = "stage"
    /\ try = 0 /\ category = "none"
    /\ accepted \in SUBSET Items /\ served = accepted
    /\ pending = Items /\ rounds = 0
    /\ query = [d \in Idents |-> "none"] /\ rows = [d \in Idents |-> {}]
    /\ delay = RoundDelay
    /\ status = "audited"

-----------------------------------------------------------------------------
(* Time passes while the program waits, never past a deadline it keeps: a   *)
(* request has none, as its timeout is one of every single operation on the *)
(* socket and its deadline is only looked at between two reads.             *)
Tick ==
    /\ CASE uploadPc = "uploading" -> now < due
         [] uploadPc \in {"cliSleep", "sleep"} -> now < until
         [] uploadPc \in {"pool", "failing"} -> Busy # {} /\ now < MaxTime
         [] OTHER -> FALSE
    /\ now' = now + 1
    /\ UNCHANGED <<uploadPc, due, until, cliVars, serverVars, roundVars, status>>

(* The CLI's upload reaches the server item by item. *)
Receive(i) ==
    /\ uploadPc = "uploading" /\ i \notin accepted
    /\ accepted' = accepted \cup {i}
    /\ UNCHANGED <<now, uploadPc, due, until, cliVars, served, roundVars, status>>

Process(i) ==
    /\ uploadPc # "done" /\ i \in accepted \ served
    /\ served' = served \cup {i}
    /\ UNCHANGED <<now, uploadPc, due, until, cliVars, accepted, roundVars, status>>

-----------------------------------------------------------------------------
(* main and run_cli: the upload. *)

UploadFails == uploadPc' = "done" /\ status' = "failed"

(* Without a token, or when a companion cannot be copied, nothing is sent. *)
Stage ==
    /\ uploadPc = "stage"
    /\ \/ uploadPc' = "cli" /\ due' = now + UploadBudget /\ UNCHANGED status
       \/ UploadFails /\ UNCHANGED due
    /\ UNCHANGED <<now, until, cliVars, serverVars, roundVars>>

RunCli ==
    /\ uploadPc = "cli"
    /\ \/ now < due /\ uploadPc' = "uploading" /\ UNCHANGED <<category, status>>
       \/ now >= due /\ category' = "cli_timeout" /\ UploadFails
    /\ UNCHANGED <<now, due, until, try, serverVars, roundVars>>

CliNeverTimesOut == FALSE /\ UNCHANGED uploadVars

CliTimesOut ==
    /\ uploadPc = "uploading" /\ now >= due
    /\ category' = "cli_timeout" /\ UploadFails
    /\ UNCHANGED <<now, due, until, try, serverVars, roundVars>>

Confirms == uploadPc' = "round" /\ now' = 0 /\ due' = ConfirmBudget

(* cli_failure names what the CLI reports.  A success must say that         *)
(* processing completed; only an incomplete processing is left to the       *)
(* confirmation, everything else is fatal or tried again.                   *)
CliExits(c) ==
    /\ uploadPc = "uploading" /\ now < due
    /\ category' = c
    /\ CASE c \in Transient -> uploadPc' = "cliFailed" /\ UNCHANGED <<now, due, status>>
         [] c \in {"cli_success", "processing_incomplete"} -> Confirms /\ UNCHANGED status
         [] OTHER -> UploadFails /\ UNCHANGED <<now, due>>
    /\ UNCHANGED <<until, try, serverVars, roundVars>>

Retry ==
    /\ uploadPc = "cliFailed"
    /\ IF try = CliTries - 1 \/ due - now <= CliDelay THEN UploadFails /\ UNCHANGED <<until, try>>
       ELSE uploadPc' = "cliSleep" /\ until' = now + CliDelay /\ try' = try + 1 /\ UNCHANGED status
    /\ UNCHANGED <<now, due, category, serverVars, roundVars>>

CliSlept ==
    /\ uploadPc = "cliSleep" /\ now >= until
    /\ uploadPc' = "cli" /\ until' = 0
    /\ UNCHANGED <<now, due, cliVars, serverVars, roundVars, status>>

-----------------------------------------------------------------------------
(* confirm_symbol_inventory. *)

Round ==
    /\ uploadPc = "round"
    /\ IF pending # {} /\ now < due /\ rounds < MaxRounds
       THEN /\ uploadPc' = "pool" /\ rounds' = rounds + 1 /\ delay' = RoundDelay
            /\ query' = [d \in Idents |-> IF d \in Outstanding THEN "queued" ELSE "none"]
            /\ UNCHANGED status
       ELSE UploadFails /\ UNCHANGED <<rounds, delay, query>>
    /\ UNCHANGED <<now, due, until, cliVars, serverVars, pending, rows>>

Latest(a, b) == IF a < b THEN b ELSE a

(* A worker of the pool takes the next id. *)
Ask(d) ==
    /\ uploadPc = "pool" /\ query[d] = "queued"
    /\ \A e \in Idents : query[e] = "queued" => d <= e
    /\ Cardinality(Busy) < Workers
    /\ query' = [query EXCEPT ![d] = IF now >= due THEN "confirmation_deadline" ELSE "busy"]
    /\ UNCHANGED <<now, uploadPc, due, until, cliVars, serverVars, pending, rounds, rows, delay,
                   status>>

Answer(d, a) ==
    /\ query[d] = "busy"
    /\ query' = [query EXCEPT ![d] = a]
    /\ rows' = [rows EXCEPT ![d] = IF a = "rows" THEN {i \in served : IdentOf(i) = d} ELSE {}]
    /\ UNCHANGED <<now, uploadPc, due, until, cliVars, serverVars, pending, rounds, delay,
                   status>>

ConfirmedById(d) == {i \in pending : IdentOf(i) = d /\ rows[d] # {}}

(* matches: a row confirms the requirement whose id, format, cpu and        *)
(* features it has.                                                         *)
Confirmed(d) == pending \cap rows[d]

(* The results are taken in the order of the ids. *)
Consume(d) ==
    /\ uploadPc = "pool" /\ query[d] \in Answers
    /\ \A e \in Idents : e < d => query[e] \in {"none", "consumed"}
    /\ query' = [query EXCEPT ![d] = "consumed"] /\ rows' = [rows EXCEPT ![d] = {}]
    /\ CASE query[d] = "rows" ->
              pending' = pending \ Confirmed(d) /\ UNCHANGED <<delay, uploadPc>>
         [] query[d] \in Tolerated ->
              /\ \/ UNCHANGED delay
                 \/ /\ query[d] \in {"rate_limited", "server_error"}
                    /\ delay' = Latest(delay, RetryAfter)
              /\ UNCHANGED <<pending, uploadPc>>
         [] OTHER -> uploadPc' = "failing" /\ UNCHANGED <<pending, delay>>
    /\ UNCHANGED <<now, due, until, cliVars, serverVars, rounds, status>>

(* The pool is left once its running requests have ended. *)
PoolCloses ==
    /\ uploadPc = "failing" /\ Busy = {}
    /\ UploadFails
    /\ UNCHANGED <<now, due, until, cliVars, serverVars, roundVars>>

SleepUncapped ==
    IF now >= due THEN UploadFails /\ UNCHANGED until
    ELSE uploadPc' = "sleep" /\ until' = now + delay /\ UNCHANGED status

SleepOrGiveUp ==
    IF now >= due \/ delay >= due - now THEN UploadFails /\ UNCHANGED until
    ELSE uploadPc' = "sleep" /\ until' = now + delay /\ UNCHANGED status

RoundEnds ==
    /\ uploadPc = "pool"
    /\ \A d \in Idents : query[d] \in {"none", "consumed"}
    /\ IF pending = {} THEN uploadPc' = "done" /\ status' = "uploaded_and_processed" /\ UNCHANGED until
       ELSE SleepOrGiveUp
    /\ UNCHANGED <<now, due, cliVars, serverVars, roundVars>>

Slept ==
    /\ uploadPc = "sleep" /\ now >= until
    /\ uploadPc' = "round" /\ until' = 0
    /\ UNCHANGED <<now, due, cliVars, serverVars, roundVars, status>>

-----------------------------------------------------------------------------
Program ==
    \/ Stage \/ RunCli \/ CliTimesOut \/ Retry \/ CliSlept \/ Round \/ PoolCloses
    \/ RoundEnds \/ Slept
    \/ \E d \in Idents : Ask(d) \/ Consume(d)

World ==
    \/ \E i \in Items : Receive(i) \/ Process(i)
    \/ \E c \in CliCategories : CliExits(c)
    \/ \E d \in Idents, a \in {"rows", "rejected", "rate_limited"} \cup Transient : Answer(d, a)

UploadNext == Program \/ Tick \/ World

RequestsEnd == \A d \in Idents : WF_uploadVars(Answer(d, "transport_error"))

(* The program runs, time passes and a request ends some day: it reads a    *)
(* bounded answer and no single read of it takes for ever.  The CLI and the *)
(* server need not do anything.                                             *)
UploadSpec ==
    UploadInit /\ [][UploadNext]_uploadVars
    /\ WF_uploadVars(Program) /\ WF_uploadVars(Tick) /\ RequestsEnd

-----------------------------------------------------------------------------
(* A release is only called uploaded when the server has processed every    *)
(* debug file of it, whatever the CLI said and however often it was run     *)
(* (confirm_symbol_inventory).                                              *)
UploadedIsServed == status = "uploaded_and_processed" => Items \subseteq served

(* What is no longer reported missing has been listed by the server, also   *)
(* when the confirmation fails half way (report["missing"]).                *)
MissingIsHonest == Items \ pending \subseteq served

(* The report is true to the server: what it calls uploaded has been        *)
(* processed, and what it no longer calls missing has been listed, also     *)
(* after a failure half way (confirm_symbol_inventory).                     *)
ReportIsHonest == UploadedIsServed /\ MissingIsHonest

HandedOver == category \in {"cli_success", "processing_incomplete"}

(* Every attempt of the CLI and every pause between two of them fit into    *)
(* one budget, and no pause of the confirmation outlasts its own, however   *)
(* long the server asks it to stay away: only a request under way may       *)
(* (run_cli, and retry_after, which does not cap what it is told).          *)
PausesInTime ==
    /\ ~HandedOver => now <= UploadBudget
    /\ uploadPc = "sleep" => now <= ConfirmBudget

(* The program ends, although the CLI may hang, the server may never finish *)
(* processing and every request may be rate limited (the deadlines of       *)
(* upload and confirm_symbol_inventory).                                    *)
Ends == <>(uploadPc = "done")

=============================================================================
