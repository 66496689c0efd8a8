-------------------------------- MODULE Gateway --------------------------------
(***************************************************************************)
(* The gateway: orchestrator/src/core/gateway/proxy-handler.ts and its     *)
(* proxies, between the workers' tokens, the vault and the audit log.      *)
(*                                                                         *)
(* A request is handled in one step up to the call of the upstream service *)
(* (the promises awaited before are resolved ones), and goes on when the   *)
(* headers of the answer arrive or the timer aborts the call, and again    *)
(* when the body has arrived.  All the while tokens and credentials are    *)
(* revoked and rotated, entries are flushed, and the orchestrator is shut  *)
(* down or dies.  Left out: what the request and the answer contain.       *)
(***************************************************************************)
EXTENDS ConsumerTokens, CredentialVault, AuditLog

CONSTANTS
    Reqs,           \* connections to the gateway
    Services,       \* <<service, provider>> as a request names them
    May,            \* <<worker, service>>: what the roles of the workers allow
    EnvKeys,        \* the services with a key in the environment to fall back on
    Configured      \* the services with an address

ASSUME ServicesAssumption == \A s \in Services : s[1] \in {"llm", "plane", "bookstack", "matrix", "github"}
ASSUME MayAssumption == May \subseteq Workers \X {s[1] : s \in Services}

VARIABLES
    req,            \* the requests in progress: where they are, and their call
    made,           \* history: calls so far
    ended,          \* history: those that were answered
    stopping        \* has the server been closed?

reqVars == <<req, made, ended, stopping>>
vars == <<now, tokenVars, vaultVars, auditVars, reqVars>>

Idle == [pc |-> "idle", call |-> 0]

Init ==
    /\ now = 0
    /\ TokensInit /\ VaultInit /\ AuditInit
    /\ req = [r \in Reqs |-> Idle]
    /\ made = 0 /\ ended = {} /\ stopping = FALSE

-----------------------------------------------------------------------------
(* createWorker() generates the worker's token and fills an empty vault.        *)
Spawn(t) ==
    /\ GenerateToken(t)
    /\ EnsureVaultCredentials
    /\ UNCHANGED <<now, auditVars, reqVars>>

(* The credential a proxy takes, or a key of the environment, or none.          *)
FromEnv == 0

EnvOr(service) ==
    LET id == Found(service, None)
    IN  IF id # None THEN id ELSE IF service \in EnvKeys THEN FromEnv ELSE None

LLMCredential(provider) ==
    LET id == Found("llm", provider) IN IF id # None THEN id ELSE Found("llm", None)

PlaneCredential == IF "plane" \in Configured THEN EnvOr("plane") ELSE None
BookstackCredential == EnvOr("bookstack")
MatrixCredential == EnvOr("matrix")
GithubCredential == EnvOr("github")

Credential(s) ==
    CASE s[1] = "llm"       -> LLMCredential(s[2])
      [] s[1] = "plane"     -> PlaneCredential
      [] s[1] = "bookstack" -> BookstackCredential
      [] s[1] = "matrix"    -> MatrixCredential
      [] s[1] = "github"    -> GithubCredential

(* A request comes in with a token that is good, and is counted.                *)
Admitted(r, t) ==
    /\ req[r] = Idle /\ ~ stopping
    /\ LetIn(t)
    /\ UNCHANGED <<now, stopping>>

(* 403: the role may not use the service, or not so.                            *)
Forbidden(r, t, s) ==
    /\ Admitted(r, t)
    /\ <<Owner[t], s[1]>> \notin May
    /\ UNCHANGED <<vaultVars, auditVars, req, made, ended>>

NextCall == made + 1

(* 503: there is no credential.                                                 *)
NoCredential(r, t, s) ==
    /\ Admitted(r, t)
    /\ <<Owner[t], s[1]>> \in May /\ Credential(s) = None /\ NextCall \in Calls
    /\ Log(NextCall)
    /\ made' = NextCall /\ ended' = ended \cup {NextCall}
    /\ UNCHANGED <<vaultVars, req>>

(* The next call takes a credential.                                            *)
Supplied(r, t, s) ==
    LET id == Credential(s)
    IN  /\ Admitted(r, t)
        /\ <<Owner[t], s[1]>> \in May /\ id # None /\ NextCall \in Calls
        /\ IF id = FromEnv THEN UNCHANGED vaultVars ELSE GetCredential(id)
        /\ made' = NextCall

(* 400: the endpoint might lead out of GitHub.                                  *)
BadEndpoint(r, t, s) ==
    /\ Supplied(r, t, s)
    /\ s[1] = "github"
    /\ Log(NextCall)
    /\ ended' = ended \cup {NextCall}
    /\ UNCHANGED req

(* The call is logged and sent.                                                 *)
Proxy(r, t, s) ==
    /\ Supplied(r, t, s)
    /\ LogServiceRequest(NextCall)
    /\ req' = [req EXCEPT ![r] = [pc |-> "sent", call |-> NextCall]]
    /\ UNCHANGED ended

(* makeRequest(): the headers arrive, and the timer is cleared.                 *)
Headers(r) ==
    /\ req[r].pc = "sent"
    /\ req' = [req EXCEPT ![r].pc = "body"]
    /\ UNCHANGED <<now, tokenVars, vaultVars, auditVars, made, ended, stopping>>

(* The request is answered, with a result or an error, and logged.              *)
Answered(r) ==
    /\ req' = [req EXCEPT ![r] = Idle]
    /\ ended' = ended \cup {req[r].call}
    /\ Log(req[r].call)
    /\ UNCHANGED <<now, tokenVars, vaultVars, made, stopping>>

(* The timer aborts the call, or the connection breaks: 504 or 500.  (Variant:  *)
(* no call has a timer.)                                                        *)
AbortNever(r) == FALSE

Abort(r) == req[r].pc = "sent" /\ Answered(r)

(* The body has arrived, or breaks off; no timer runs any more.                 *)
Body(r) == req[r].pc = "body" /\ Answered(r)

-----------------------------------------------------------------------------
TokenStep ==
    /\ TokenRedis \/ TokenAdmin
    /\ UNCHANGED <<now, vaultVars, auditVars, reqVars>>

(* POST /gateway/credentials/import.  (Nothing in the orchestrator calls the     *)
(* vault's other operations, or the rotator.)                                   *)
VaultStep ==
    /\ ImportFromEnvironment
    /\ UNCHANGED <<now, tokenVars, auditVars, reqVars>>

FlushStep == FlushTimer /\ UNCHANGED <<now, tokenVars, vaultVars, reqVars>>

TickStep == Tick /\ UNCHANGED <<tokenVars, vaultVars, auditVars, reqVars>>

(* shutdown(): the gateway stops its timers, then the server takes no more      *)
(* requests; those in progress go on.                                           *)
Shutdown ==
    /\ ~ stopping /\ stopping' = TRUE
    /\ AuditShutdown
    /\ UNCHANGED <<now, tokenVars, vaultVars, req, made, ended>>

Restarted ==
    /\ TokensRestart /\ VaultRestart /\ AuditRestart
    /\ req' = [r \in Reqs |-> Idle]
    /\ stopping' = FALSE
    /\ UNCHANGED <<now, made, ended>>

(* The process exits when the last request has been answered ...                *)
Exit == stopping /\ (\A r \in Reqs : req[r] = Idle) /\ Restarted

(* ... or after ten seconds, whatever is still in progress ...  (Variant: only  *)
(* when nothing is.)                                                            *)
ForcedExitIdle == Exit
ForcedExit == stopping /\ Restarted

(* ... or dies at any time.                                                     *)
Die == Restarted

Requests ==
    \E r \in Reqs :
        \/ \E t \in Tokens : \E s \in Services :
              \/ Forbidden(r, t, s) \/ NoCredential(r, t, s)
              \/ BadEndpoint(r, t, s) \/ Proxy(r, t, s)
        \/ Headers(r) \/ Abort(r) \/ Body(r)

Next ==
    \/ \E t \in Tokens : Spawn(t)
    \/ Requests
    \/ TokenStep \/ VaultStep \/ FlushStep \/ TickStep
    \/ Shutdown \/ Exit \/ ForcedExit \/ Die

(* The timer of a call fires, and that of a shutdown.  Nothing is assumed of an *)
(* upstream that has sent its headers: it may never send the rest.              *)
Timers == \A r \in Reqs : WF_vars(Abort(r))
ShutdownTimer == WF_vars(ForcedExit)

Spec == Init /\ [][Next]_vars /\ Timers /\ ShutdownTimer

-----------------------------------------------------------------------------
TypeOK ==
    /\ TokensTypeOK /\ VaultTypeOK /\ AuditTypeOK
    /\ req \in [Reqs -> [pc : {"idle", "sent", "body"}, call : Calls \cup {0}]]
    /\ made \in Calls \cup {0} /\ ended \in SUBSET Calls
    /\ stopping \in BOOLEAN

(* Whatever appends fail: a call that was sent is in the log or was in the      *)
(* buffer of a process that ended, its end too once it is answered, or it is on *)
(* a line spoilt by an append that broke off.  Unless one did, no entry is      *)
(* spoilt or written twice, and no end comes before its call.                   *)
AuditAccounted ==
    LET trail == file \o buffer
        Logged(entry) == In(entry, trail) \/ entry \in lost \cup spoilt
    IN  /\ \A r \in Reqs : req[r] # Idle => Logged(Sent(req[r].call))
        /\ \A n \in ended : Logged(Ended(n))
        /\ ~ broke =>
               /\ spoilt = {}
               /\ \A i, j \in DOMAIN trail :
                      /\ trail[i] = trail[j] => i = j
                      /\ trail[i].call = trail[j].call /\ trail[i].what = "sent" => i <= j

(* A silent upstream does not hold a request for ever: the wait for the headers *)
(* ends.  The wait for the body has no timer, but no request outlives a         *)
(* shutdown, which does not wait for it.                                        *)
RequestsEnd ==
    \A r \in Reqs :
        /\ req[r].pc = "sent" ~> req[r].pc # "sent"
        /\ stopping /\ req[r] # Idle ~> req[r] = Idle

(* "no data is lost on redeploy" (index.ts:730): when the process exits after   *)
(* it has answered the last request, nothing is left in the buffer.             *)
ExitLosesNothing == [][Exit => lost' = lost]_vars

(* A failed append is made good by the next one, with the buffer that was kept  *)
(* (audit-logger.ts:294-300).                                                   *)
NoneSpoilt == spoilt = {}
=============================================================================
