------------------------------ MODULE LegacyServer ------------------------------
(***************************************************************************)
(* The earlier server, POST /capabilities/execute                          *)
(* (apps/grl-server/src/index.ts): each call binds its compartment's       *)
(* identity (packages/identity-compartment), builds a client for the       *)
(* transport its policy resolves (packages/transport-router) and searches  *)
(* through it.  Over tor and proxy a SOCKS5 tunnel is negotiated first.    *)
(* Calls overlap, and the identities are rotated, destroyed and pruned     *)
(* while they wait.                                                        *)
(*                                                                         *)
(* The identities have both timeouts and every operation of their class;   *)
(* the server as shipped sets no timeout and rotates nothing.  The network *)
(* is external: it answers anything, late or never.  Queries, results and  *)
(* cookies are left out.                                                   *)
(***************************************************************************)
EXTENDS Integers, Sequences, FiniteSetsExt

CONSTANTS
  Calls,         \* the requests under way
  Compartments,
  Decisions,     \* what the policy can allow: [compartment, transport]
  Endpoints,     \* the transports that have a SOCKS endpoint
  UserAgents,    \* the pool, in order of preference
  Ttl,           \* ttlMs
  IdleTimeout,   \* idleTimeoutMs
  MaxSessions,   \* bound on the session ids handed out
  MaxTime        \* bound on the clock

VARIABLES
  records,  \* the identities, by compartment
  calls,    \* what each call holds
  minted,   \* number of session ids handed out
  clock

legacyVars == <<records, calls, minted, clock>>

Transports == {"direct", "tor", "proxy"}

LegacyAssumption ==
  /\ Decisions \subseteq [compartment : Compartments, transport : Transports]
  /\ Endpoints \subseteq Transports \ {"direct"}
  /\ UserAgents \in Seq(STRING) \ {<< >>}
  /\ Ttl > 0 /\ IdleTimeout > 0

NoIdentity == [session |-> 0]
Live == {c \in Compartments : records[c] # NoIdentity}

\* A call that has not arrived.  `session` and `agent` are what its client was
\* built with, `credential` what it has told the proxy.
NoCall == [phase |-> "idle", compartment |-> "none", transport |-> "none",
           session |-> 0, agent |-> <<"none", 0>>, credential |-> 0]

Init ==
  /\ records = [c \in Compartments |-> NoIdentity]
  /\ calls = [k \in Calls |-> NoCall]
  /\ minted = 0
  /\ clock = 0

-----------------------------------------------------------------------------
\* pickUserAgent: the first of the pool that no other compartment uses; once the
\* pool is exhausted a variant of its first that nobody else has.  A user agent is
\* <<its name, 0, or the number that makes a variant unique>>.
PickUserAgent(used, avoid, fresh) ==
  LET free == {i \in DOMAIN UserAgents : <<UserAgents[i], 0>> \notin used \cup avoid}
  IN  IF free # {} THEN <<UserAgents[Min(free)], 0>> ELSE <<UserAgents[1], fresh>>

UsedByOthers(c) == {records[d].agent : d \in Live \ {c}}

IsExpired(record) ==
  \/ clock - record.created >= Ttl
  \/ clock - record.access >= IdleTimeout

NewIdentity(c, transport) ==
  [session |-> minted + 1, transport |-> transport,
   agent |-> PickUserAgent(UsedByOthers(c), {}, minted + 1),
   dns |-> IF transport = "direct" THEN "system" ELSE "remote",
   created |-> clock, access |-> clock]

\* get: an expired identity is destroyed, a live one accessed.
Current(c) == IF c \in Live /\ ~IsExpired(records[c]) THEN {records[c]} ELSE {}

\* createClient throws unless the transport can keep what its identity asks for.
ClientCanBeBuilt(transport, dns) ==
  IF transport = "direct" THEN dns = "system"
  ELSE (transport = "tor" => dns = "remote") /\ transport \in Endpoints

\* Hands the identity to call k and sends its first bytes, or fails closed.
Begin(k, d, identity) ==
  calls' = [calls EXCEPT ![k] =
    [phase |-> IF ~ClientCanBeBuilt(d.transport, identity.dns) THEN "failed"
               ELSE IF d.transport = "direct" THEN "http" ELSE "greeting",
     compartment |-> d.compartment, transport |-> d.transport,
     session |-> identity.session, agent |-> identity.agent, credential |-> 0]]

\* Faulty variant of Bind: an identity is reused over any transport.
BindAnyTransport(k, d) ==
  \E identity \in Current(d.compartment) :
    /\ records' = [records EXCEPT ![d.compartment].access = clock]
    /\ Begin(k, d, [identity EXCEPT !.dns = "remote"])
    /\ UNCHANGED minted

\* getOrCreate finds an identity of this transport.
Bind(k, d) ==
  \E identity \in Current(d.compartment) :
    /\ identity.transport = d.transport
    /\ records' = [records EXCEPT ![d.compartment].access = clock]
    /\ Begin(k, d, identity)
    /\ UNCHANGED minted

\* getOrCreate throws on another transport, but has accessed the identity.
RefuseMixing(k, d) ==
  \E identity \in Current(d.compartment) :
    /\ identity.transport # d.transport
    /\ records' = [records EXCEPT ![d.compartment].access = clock]
    /\ calls' = [calls EXCEPT ![k] = [NoCall EXCEPT !.phase = "refused"]]
    /\ UNCHANGED minted

\* getOrCreate finds none and creates one.
BindNew(k, d) ==
  /\ Current(d.compartment) = {}
  /\ minted < MaxSessions
  /\ LET identity == NewIdentity(d.compartment, d.transport) IN
       /\ records' = [records EXCEPT ![d.compartment] = identity]
       /\ Begin(k, d, identity)
  /\ minted' = minted + 1

\* POST /capabilities/execute with an allowed search.
Execute(k, d) ==
  /\ calls[k].phase = "idle"
  /\ Bind(k, d) \/ RefuseMixing(k, d) \/ BindNew(k, d)
  /\ UNCHANGED clock

\* An invalid request, a denied one, another tool, no query: answered at once.
Refuse(k) ==
  /\ calls[k].phase = "idle"
  /\ calls' = [calls EXCEPT ![k].phase = "refused"]
  /\ UNCHANGED <<records, minted, clock>>

-----------------------------------------------------------------------------
Move(k, phase) == calls' = [calls EXCEPT ![k].phase = phase]

\* The proxy chooses a method; the greeting offered the password one, yet "no
\* authentication" is accepted, too.
Greet(k, method) ==
  /\ calls[k].phase = "greeting"
  /\ CASE method = "password" ->
            calls' = [calls EXCEPT ![k].phase = "auth", ![k].credential = calls[k].session]
       [] method = "none" -> Move(k, "reply")
       [] OTHER -> Move(k, "failed")
  /\ UNCHANGED <<records, minted, clock>>

\* The proxy accepts or rejects the credential, or the CONNECT request.
Authenticate(k, ok) ==
  /\ calls[k].phase = "auth"
  /\ Move(k, IF ok THEN "reply" ELSE "failed")
  /\ UNCHANGED <<records, minted, clock>>

Connect(k, ok) ==
  /\ calls[k].phase = "reply"
  /\ Move(k, IF ok THEN "http" ELSE "failed")
  /\ UNCHANGED <<records, minted, clock>>

\* recordHistory: whatever identity the compartment has by now is accessed.
Answer(k) ==
  /\ calls[k].phase = "http"
  /\ Move(k, "answered")
  /\ records' = IF calls[k].compartment \in Live
                  THEN [records EXCEPT ![calls[k].compartment].access = clock]
                  ELSE records
  /\ UNCHANGED <<minted, clock>>

\* A timeout, a closed connection, a status that is not 2xx, a body that does not
\* parse: the socket is destroyed and nothing else is tried.
Fail(k) ==
  /\ calls[k].phase \in {"greeting", "auth", "reply", "http"}
  /\ Move(k, "failed")
  /\ UNCHANGED <<records, minted, clock>>

-----------------------------------------------------------------------------
\* rotate: a new session and another user agent; the transport stays.  An
\* identity that has expired unnoticed is rotated like any other.
Rotate(c) ==
  /\ c \in Live /\ minted < MaxSessions
  /\ records' = [records EXCEPT
       ![c].session = minted + 1, ![c].access = clock,
       ![c].agent = PickUserAgent(UsedByOthers(c), {records[c].agent}, minted + 1)]
  /\ minted' = minted + 1
  /\ UNCHANGED <<calls, clock>>

Destroy(c) ==
  /\ c \in Live
  /\ records' = [records EXCEPT ![c] = NoIdentity]
  /\ UNCHANGED <<calls, minted, clock>>

PruneExpired ==
  /\ \E c \in Live : IsExpired(records[c])
  /\ records' = [c \in Compartments |->
       IF c \in Live /\ IsExpired(records[c]) THEN NoIdentity ELSE records[c]]
  /\ UNCHANGED <<calls, minted, clock>>

Tick ==
  /\ clock < MaxTime
  /\ clock' = clock + 1
  /\ UNCHANGED <<records, calls, minted>>

Next ==
  \/ \E k \in Calls :
       \/ \E d \in Decisions : Execute(k, d)
       \/ Refuse(k)
       \/ \E method \in {"password", "none", "other"} : Greet(k, method)
       \/ \E ok \in BOOLEAN : Authenticate(k, ok) \/ Connect(k, ok)
       \/ Answer(k)
       \/ Fail(k)
  \/ \E c \in Compartments : Rotate(c) \/ Destroy(c)
  \/ PruneExpired
  \/ Tick

Spec == Init /\ [][Next]_legacyVars

-----------------------------------------------------------------------------
\* Through creation, rotation, expiry and an exhausted pool, no two live
\* identities present the same user agent.
UserAgentsAreNotShared ==
  \A c, d \in Live : c # d => records[c].agent # records[d].agent

\* The calls that have put a session on the network.
Sent == {k \in Calls : calls[k].phase \in {"greeting", "auth", "reply", "http", "answered"}}

\* A session is never seen on two transports nor from two compartments, whatever
\* was rotated, destroyed or re-created while its calls were under way; and no
\* call tells the proxy a session that is not its own compartment's.
SessionsKeepTheirTransport ==
  /\ \A j, k \in Sent :
       calls[j].session = calls[k].session =>
         /\ calls[j].transport = calls[k].transport
         /\ calls[j].compartment = calls[k].compartment
  /\ \A k \in Sent, c \in Live :
       calls[k].session = records[c].session =>
         c = calls[k].compartment /\ records[c].transport = calls[k].transport
  /\ \A j, k \in Sent :
       calls[j].credential = calls[k].credential /\ calls[j].credential # 0 =>
         calls[j].compartment = calls[k].compartment

\* identity-compartment: "Strict rule: NO cross-compartment state sharing".
NothingIsShared == UserAgentsAreNotShared /\ SessionsKeepTheirTransport
=============================================================================
