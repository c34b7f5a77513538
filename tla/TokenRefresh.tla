------------------------------ MODULE TokenRefresh ------------------------------
(***************************************************************************)
(* Refresh of rotating OAuth tokens.                                       *)
(*                                                                         *)
(* A refresh token is spent by the refresh that presents it; presenting it  *)
(* again makes the provider revoke the whole family.  Requests answered     *)
(* 401/403 (chatCore.ts), the executor before it dispatches (base.ts), the  *)
(* health sweep (tokenHealthCheck.ts), the proactive check and the          *)
(* credential export all refresh through                                    *)
(* getAccessToken: callers for one connection share the refresh in flight,  *)
(* a map of recent rotations and the stored row redirect callers that hold  *)
(* an old token, and only the leader enters the lane of its rotation group. *)
(*                                                                         *)
(* The lane (RefreshLane) serves every refresh in the end; here it is part   *)
(* of the time a leader spends between Lead and the provider's answer.      *)
(* Tokens of a connection are numbered as the provider issues them.  From   *)
(* the end of a refresh to the last write of a caller it answered there are *)
(* only microtasks: no other step starts meanwhile (Quiet).                 *)
(***************************************************************************)
EXTENDS Naturals, FiniteSets

CONSTANTS Calls, Conns,
          NoCall,          \* no refresh in flight
          MaxTokens,       \* bound on the tokens issued per connection
          Faults,          \* what may go wrong
          MaxFaults,       \* bound on the kinds of it in one behaviour
          Attempts,        \* refreshWithRetry's maxRetries
          ExpiresWhileHeld,\* TRUE: a token may expire while a caller holds it
          QuickRotations   \* TRUE: two rotations may fall within the map's TTL

ASSUME TokenAssumption ==
    /\ NoCall \notin Calls /\ Conns # {}
    /\ {MaxTokens, Attempts} \subseteq Nat \ {0} /\ MaxFaults \in Nat
    /\ Faults \subseteq {"lost", "gaveUp", "overlap", "unsaved", "reauth"}
    /\ {ExpiresWhileHeld, QuickRotations} \subseteq BOOLEAN

VARIABLES
    row,     \* provider_connections: refresh token (0: null), expiry, status
    server,  \* the provider: last token issued, the valid one (0: none), family
    memo,    \* tokenRotationMap
    mutex,   \* connectionRefreshMutex: the leader of each connection
    call,    \* the callers
    faults   \* what has gone wrong: an answer of the provider was lost, a request
             \* stopped waiting for good or tried again beside its own refresh, a
             \* write of the row failed, the operator signed in again

tokenVars == <<row, server, memo, mutex, call, faults>>
vars == <<tokenVars>>

Token == 0..MaxTokens
Row == [token : Token, fresh : BOOLEAN, status : {"active", "expired"}]
Server == [issued : Token, valid : Token, family : Token]
Rotation == [conn : Conns, old : Token, new : Token]
Kinds == {"request", "executor", "sweep", "proactive", "export"}
Call == [pc : {"idle", "ready", "joined", "leading", "answered", "served", "told"},
         kind : Kinds,
         conn : Conns,
         attempted : Token,  \* the token the caller loaded
         creds : Token,      \* credentials.refreshToken, as getAccessToken left it
         reply : {"none", "ok", "null", "dead"},
         got : Token,        \* the token of an "ok" reply
         saved : BOOLEAN,    \* persistFnRan / persistedResult
         gone : BOOLEAN,     \* refreshWithRetry has stopped waiting for it
         left : Calls \cup {NoCall}, \* who goes on with its attempt that timed out
         tries : 1..Attempts]

TokenTypeOK ==
    /\ row \in [Conns -> Row]
    /\ server \in [Conns -> Server]
    /\ memo \subseteq Rotation
    /\ mutex \in [Conns -> Calls \cup {NoCall}]
    /\ call \in [Calls -> Call]
    /\ faults \subseteq Faults

IdleCall(c) ==
    [pc |-> "idle", kind |-> "request", conn |-> c, attempted |-> 0, creds |-> 0,
     reply |-> "none", got |-> 0, saved |-> FALSE, gone |-> FALSE, left |-> NoCall,
     tries |-> 1]

Idle(k) == [call EXCEPT ![k] = IdleCall(call[k].conn)]

Init ==
    /\ row = [c \in Conns |-> [token |-> 1, fresh |-> TRUE, status |-> "active"]]
    /\ server = [c \in Conns |-> [issued |-> 1, valid |-> 1, family |-> 1]]
    /\ memo = {} /\ mutex = [c \in Conns |-> NoCall]
    /\ call = [k \in Calls |-> IdleCall(CHOOSE c \in Conns : TRUE)]
    /\ faults = {}

\* Nobody has an answer it has not dealt with yet: the leader (served) and those
\* who shared its refresh (told).
HasReply(k) == call[k].pc \in {"served", "told"}
Quiet == \A k \in Calls : ~HasReply(k)
Recent(c) == \E m \in memo : m.conn = c

\* At most MaxFaults kinds of thing go wrong, each once; giving up, though, any
\* number of times.
Happens(fault) ==
    /\ fault \in Faults /\ (fault = "gaveUp" \/ fault \notin faults)
    /\ faults' = faults \cup {fault} /\ Cardinality(faults') <= MaxFaults

-----------------------------------------------------------------------------
(* Callers.                                                                *)

\* A caller reads the row and finds a refresh due: a request on 401 or 403, the
\* others by their lead times, which are longer than the minute a token must be
\* good for to be used as it is.
Load(k, c, kind) ==
    /\ Quiet /\ call[k].pc = "idle" /\ row[c].token # 0
    /\ row[c].status = "active" \/ kind = "sweep"
    /\ row[c].fresh => QuickRotations \/ ~Recent(c)
    /\ call' = [call EXCEPT ![k] =
                  [IdleCall(c) EXCEPT !.pc = "ready", !.kind = kind,
                                      !.attempted = row[c].token, !.creds = row[c].token]]
    /\ UNCHANGED <<row, server, memo, mutex, faults>>

\* The row after a persist of token t: updateProviderCredentials.
WithToken(t) == [token |-> t, fresh |-> TRUE, status |-> "active"]

\* casGuardShouldSkipPersist: the row holds another token than the caller loaded.
SkipsPersist(k, c) ==
    /\ call[k].kind = "request"
    /\ row[c].token \notin {0, call[k].attempted}

\* mutant: the proactive check, too, passes no onPersist
PersistsForOthers(k, c) == call[k].kind \notin {"export", "proactive"} /\ ~SkipsPersist(k, c)

\* onPersist, inside the mutex; the export passes none.
PersistsInMutex(k, c) == call[k].kind # "export" /\ ~SkipsPersist(k, c)

\* The row of c becomes r, or the write fails, which is logged and forgotten.
Write(c, r, done) ==
    IF done THEN row' = [row EXCEPT ![c] = r] /\ UNCHANGED faults
            ELSE UNCHANGED row /\ Happens("unsaved")

Persist(k, t, done) ==
    LET c == call[k].conn IN
    IF PersistsInMutex(k, c) THEN Write(c, WithToken(t), done)
    ELSE done /\ UNCHANGED <<row, faults>>

\* Only the sweep notices that its write has failed.
Ran(k, done) == PersistsInMutex(k, call[k].conn) /\ (done \/ call[k].kind # "sweep")

AtOnce(k, t, done) ==
    [call[k] EXCEPT !.pc = "served", !.reply = "ok", !.got = t, !.saved = @ \/ Ran(k, done)]

\* The leader is answered at once with token t, without a refresh.
AnswerAtOnce(k, t) ==
    /\ \E done \in BOOLEAN :
          Persist(k, t, done) /\ call' = [call EXCEPT ![k] = AtOnce(k, t, done)]
    /\ UNCHANGED <<server, memo, mutex>>

\* existing.promise: share the refresh in flight.
Join(k) ==
    /\ Quiet /\ call[k].pc = "ready" /\ mutex[call[k].conn] # NoCall
    /\ call' = [call EXCEPT ![k].pc = "joined"]
    /\ UNCHANGED <<row, server, memo, mutex, faults>>

Alone(k) == Quiet /\ call[k].pc = "ready" /\ mutex[call[k].conn] = NoCall

Rotated(k) == {m \in memo : m.conn = call[k].conn /\ m.old = call[k].creds}

\* lookupRotation: the token was rotated less than ROTATION_MAP_TTL_MS ago.
ReuseRotation(k) ==
    /\ Alone(k)
    /\ \E m \in Rotated(k) : AnswerAtOnce(k, m.new)

RowDiffers(k) == row[call[k].conn].token \notin {0, call[k].creds}

\* The row holds another token, good for more than a minute.
UseStoredToken(k) ==
    /\ Alone(k) /\ Rotated(k) = {} /\ RowDiffers(k) /\ row[call[k].conn].fresh
    /\ AnswerAtOnce(k, row[call[k].conn].token)

\* mutant: a stale caller refreshes with the token it loaded
PresentedAsLoaded(k) == call[k].creds

\* The newest token known is presented, if expired the one of the row.
Presented(k) == IF RowDiffers(k) THEN row[call[k].conn].token ELSE call[k].creds

Lead(k) ==
    LET c == call[k].conn IN
    /\ Alone(k) /\ Rotated(k) = {}
    /\ ~(RowDiffers(k) /\ row[c].fresh)
    /\ mutex' = [mutex EXCEPT ![c] = k]
    /\ call' = [call EXCEPT ![k].pc = "leading", ![k].creds = Presented(k)]
    /\ UNCHANGED <<row, server, memo, faults>>

\* mutant: one attempt too many
MayRetryOnceMore(k) == call[k].kind = "request" /\ call[k].tries <= Attempts

MayRetry(k) == call[k].kind = "request" /\ call[k].tries < Attempts

RetriedCall(q) == [q EXCEPT !.pc = "ready", !.reply = "none", !.tries = @ + 1]

RetryOrLeave(k) == IF MayRetry(k) THEN [call EXCEPT ![k] = RetriedCall(@)] ELSE Idle(k)

\* An attempt of a request runs into its 30 s timer.  What a leader has started
\* goes on: nothing cancels it.  After the last attempt nobody waits for it;
\* after an earlier one the next attempt runs beside it (Overlap).
GiveUp(k) ==
    /\ Happens("gaveUp") /\ Quiet /\ call[k].kind = "request" /\ ~call[k].gone
    /\ \/ call[k].pc = "joined" /\ call' = RetryOrLeave(k)
       \/ /\ call[k].pc \in {"leading", "answered"} /\ ~MayRetry(k)
          /\ call' = [call EXCEPT ![k].gone = TRUE]
    /\ UNCHANGED <<row, server, memo, mutex>>

\* The refresh goes on in a free slot j.
Overlap(k) ==
    /\ Happens("overlap") /\ Quiet /\ MayRetry(k) /\ ~call[k].gone
    /\ call[k].pc \in {"leading", "answered"}
    /\ \E j \in Calls :
          /\ call[j].pc = "idle"
          /\ call' = [call EXCEPT ![j] = [call[k] EXCEPT !.gone = TRUE],
                                  ![k] = [RetriedCall(@) EXCEPT !.left = j]]
          /\ mutex' = [mutex EXCEPT ![call[k].conn] = j]
    /\ UNCHANGED <<row, server, memo>>

-----------------------------------------------------------------------------
(* The provider.                                                            *)

Waits(k) == Quiet /\ call[k].pc = "leading"

Answer(k, reply, t) ==
    call' = [call EXCEPT ![k].pc = "answered", ![k].reply = reply, ![k].got = t]

\* The token is the valid one: it is spent and a new one issued.
Grants(k) ==
    LET c == call[k].conn  new == server[c].issued + 1 IN
    /\ Waits(k) /\ call[k].creds = server[c].valid /\ new <= MaxTokens
    /\ server' = [server EXCEPT ![c].issued = new, ![c].valid = new]
    /\ \/ Answer(k, "ok", new) /\ UNCHANGED faults
       \/ Happens("lost") /\ Answer(k, "null", 0)
    /\ UNCHANGED <<row, memo, mutex>>

\* Reuse of a spent token revokes its family; older families are dead already.
Refuses(k) ==
    LET c == call[k].conn IN
    /\ Waits(k) /\ call[k].creds # server[c].valid
    /\ server' = IF call[k].creds >= server[c].family
                   THEN [server EXCEPT ![c].valid = 0] ELSE server
    /\ Answer(k, "dead", 0)
    /\ UNCHANGED <<row, memo, mutex, faults>>

Unreachable(k) ==
    /\ Waits(k) /\ Answer(k, "null", 0)
    /\ UNCHANGED <<row, server, memo, mutex, faults>>

\* recordRotation
Recorded(k) ==
    IF call[k].reply = "ok"
    THEN {m \in memo : ~(m.conn = call[k].conn /\ m.old = call[k].creds)}
           \cup {[conn |-> call[k].conn, old |-> call[k].creds, new |-> call[k].got]}
    ELSE memo

\* The promise of the refresh resolves for who has joined it.
Told(j, k) ==
    IF call[j].pc = "joined" /\ call[j].conn = call[k].conn
    THEN [call[j] EXCEPT !.pc = "told", !.reply = call[k].reply, !.got = call[k].got]
    ELSE call[j]

\* mutant: the promise is not shared with those who joined
ServedLeaderOnly(k, done) == [call EXCEPT ![k].pc = "served", ![k].saved = Ran(k, done)]

\* mutant: those who joined are answered with the token that was presented
ServedSpentToken(k, done) ==
    [j \in Calls |->
        IF j = k THEN [call[k] EXCEPT !.pc = "served", !.saved = Ran(k, done)]
        ELSE IF call[j].pc = "joined" /\ call[j].conn = call[k].conn
        THEN [Told(j, k) EXCEPT !.got = call[k].creds]
        ELSE call[j]]

\* persistFn sets the flag of the request and the token it holds, in whichever
\* attempt it runs.
Served(k, done) ==
    LET ran == call[k].reply = "ok" /\ Ran(k, done) IN
    [j \in Calls |->
        IF j = k
        THEN IF call[k].gone THEN IdleCall(call[k].conn)
             ELSE [call[k] EXCEPT !.pc = "served", !.saved = @ \/ ran]
        ELSE IF call[j].left = k
        THEN [Told(j, k) EXCEPT !.left = NoCall, !.saved = @ \/ ran,
                                !.creds = IF ran THEN call[k].got ELSE @]
        ELSE Told(j, k)]

\* The lane is left after its settle gap, the rotation recorded, the row written
\* and the mutex deleted, without an await in between.
Conclude(k) ==
    /\ Quiet /\ call[k].pc = "answered"
    /\ memo' = Recorded(k)
    /\ mutex' = [mutex EXCEPT ![call[k].conn] = NoCall]
    /\ \E done \in BOOLEAN :
          /\ IF call[k].reply = "ok" THEN Persist(k, call[k].got, done)
             ELSE done /\ UNCHANGED <<row, faults>>
          /\ call' = Served(k, done)
    /\ UNCHANGED server

-----------------------------------------------------------------------------
(* What an answered caller does.                                           *)

\* What getAccessToken did not persist for it, the caller persists itself; the
\* proactive check relies on the leader.
AcceptReply(k) ==
    /\ HasReply(k) /\ call[k].reply = "ok"
    /\ IF call[k].saved \/ call[k].kind = "proactive" THEN UNCHANGED <<row, faults>>
       ELSE \E done \in BOOLEAN : Write(call[k].conn, WithToken(call[k].got), done)
    /\ call' = Idle(k)
    /\ UNCHANGED <<server, memo, mutex>>

\* No answer, or a refusal that the executor of the provider reports as none: a
\* request tries again, the others leave it at that.
MissReply(k) ==
    /\ HasReply(k)
    /\ \/ call[k].reply = "null"
       \/ call[k].reply = "dead" /\ call[k].kind = "request"
    /\ call' = RetryOrLeave(k)
    /\ UNCHANGED <<row, server, memo, mutex, faults>>

\* mutant: the row is not read again before the account is given up
StillHeldUnread(k) == TRUE

\* wasRefreshTokenRotated / credentialsChangedSinceSweep: the row still holds
\* what the caller loaded, so the refusal is about that token.
StillHeld(k) ==
    \/ row[call[k].conn].token = call[k].attempted
    \/ row[call[k].conn].token = 0 /\ call[k].kind = "request"

\* A request deactivates the account, keeping the token; the sweep clears the
\* token, unless the access token is good for a while longer.
GiveUpAccount(k, r) ==
    CASE call[k].kind = "request" -> [r EXCEPT !.status = "expired"]
      [] call[k].kind = "sweep" /\ r.fresh -> [r EXCEPT !.status = "active"]
      [] call[k].kind = "sweep" /\ ~r.fresh -> [r EXCEPT !.status = "expired", !.token = 0]
      [] OTHER -> r

SufferRefusal(k) ==
    LET c == call[k].conn IN
    /\ HasReply(k) /\ call[k].reply = "dead"
    /\ row' = IF StillHeld(k) THEN [row EXCEPT ![c] = GiveUpAccount(k, @)] ELSE row
    /\ call' = Idle(k)
    /\ UNCHANGED <<server, memo, mutex, faults>>

-----------------------------------------------------------------------------
(* Time and the operator.                                                  *)

\* The access token comes within a minute of its expiry.
Expire(c) ==
    /\ Quiet /\ row[c].fresh
    /\ ExpiresWhileHeld \/ \A k \in Calls : call[k].pc # "idle" => call[k].conn # c
    /\ QuickRotations \/ ~Recent(c)
    /\ row' = [row EXCEPT ![c].fresh = FALSE]
    /\ UNCHANGED <<server, memo, mutex, call, faults>>

ForgetRotation(m) ==
    /\ Quiet /\ memo' = memo \ {m}
    /\ UNCHANGED <<row, server, mutex, call, faults>>

\* The operator signs in again: a new family, written to the row.
Reauthenticate(c) ==
    LET new == server[c].issued + 1 IN
    /\ Happens("reauth") /\ Quiet /\ new <= MaxTokens
    /\ server' = [server EXCEPT ![c] = [issued |-> new, valid |-> new, family |-> new]]
    /\ row' = [row EXCEPT ![c] = WithToken(new)]
    /\ UNCHANGED <<memo, mutex, call>>

-----------------------------------------------------------------------------
Refreshes(k) ==
    \/ Join(k) \/ ReuseRotation(k) \/ UseStoredToken(k) \/ Lead(k)
    \/ Conclude(k) \/ Grants(k) \/ Refuses(k) \/ Unreachable(k)
    \/ AcceptReply(k) \/ MissReply(k) \/ SufferRefusal(k)

Next ==
    \/ \E k \in Calls :
          \/ \E c \in Conns, kind \in Kinds : Load(k, c, kind)
          \/ Refreshes(k)
          \/ GiveUp(k) \/ Overlap(k)
    \/ \E c \in Conns : Expire(c) \/ Reauthenticate(c)
    \/ \E m \in memo : ForgetRotation(m)

Spec == Init /\ [][Next]_vars
\* Callbacks that fall due run, however often others run first; every fetch ends
\* (it has a timeout of its own).
FairSpec == Spec /\ \A k \in Calls : SF_vars(Refreshes(k))

-----------------------------------------------------------------------------
(* Properties.                                                             *)

\* No refresh token is presented twice, so no family is ever revoked, whatever
\* the callers hold, as long as no answer of the provider is lost, no write fails
\* and nobody stops waiting (rotationMap.ts:7-11).
NoReuse == faults \subseteq {"reauth"} => \A c \in Conns : server[c].valid # 0

\* Without faults the row of a connection that nobody refreshes holds the valid
\* token: every rotation reaches the database, whoever led and whoever joined.
RowIsCurrent ==
    faults = {} /\ Quiet =>
        \A c \in Conns : mutex[c] = NoCall => row[c].token = server[c].valid

\* A persist never puts a superseded token back (casGuard.ts:7-15, 21-22), unless
\* the operator signs in while a refresh is under way.
RowNeverReverts ==
    [][\A c \in Conns : "reauth" \notin faults /\ row'[c].token # 0
          => row'[c].token >= row[c].token]_vars

GivesUpHealthyAccount(c) ==
    /\ row[c].status = "active" /\ row'[c].status = "expired"
    /\ row[c].token = server[c].valid

\* An account is given up only when the token stored for it is not the valid
\* one: the refusal of another token is never held against it
\* (refreshSerializer.ts:104-112, chatCore.ts:4099-4103).
SparesHealthyAccount == [][\A c \in Conns : ~GivesUpHealthyAccount(c)]_vars

\* The caller that presented the refused token never gives up an account whose
\* row was renewed while the refusal was on its way.
LeaderSparesAccount ==
    [][\A c \in Conns : GivesUpHealthyAccount(c)
          => \E k \in Calls : call[k].pc = "told" /\ call'[k].pc = "idle"]_vars

\* Every caller gets an answer: nobody joins a promise that is never settled, and
\* no retry goes on for ever.
RefreshSettles == \A k \in Calls : call[k].pc # "idle" ~> call[k].pc = "idle"
=============================================================================
