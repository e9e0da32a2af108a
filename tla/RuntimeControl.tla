----------------------------- MODULE RuntimeControl -----------------------------
(***************************************************************************)
(* Which policies are in force: the runtime config file and its loader     *)
(* (packages/core/src/runtime-config), the policy profiles layered on it   *)
(* (packages/core/src/runtime-profiles) and the server's two ways to       *)
(* rebuild its engines, a reload and a profile switch                      *)
(* (apps/grl-server/src/local-api.ts).  The file is reloaded on request or *)
(* by the watcher, so at any moment.                                       *)
(*                                                                         *)
(* An engine is known by the config fields it was built from.              *)
(***************************************************************************)
EXTENDS RuntimePolicies

CONSTANTS
  BootProfile,  \* GRL_PROFILE
  BootConfig,   \* the config loaded at startup
  Contents      \* bound: the configs the operator writes to the file

VARIABLES
  file,      \* what the config file holds now
  snapshot,  \* the loader's snapshot and activeSnapshot: its config
  engines,   \* the fields the policy engines were built from
  searxng,   \* the real SearXNG engine exists
  profile,   \* activeProfileName
  resolved   \* activeResolvedProfile's config

controlVars == <<file, snapshot, engines, searxng, profile, resolved>>

\* The server refuses to start on a config it cannot validate or build from.
ControlAssumption ==
  /\ ValidRuntimeConfig(BootConfig) /\ Buildable(BootConfig)
  /\ BootProfile \in DOMAIN Profiles

Built(config) == [s \in Surfaces |-> config[s]]

-----------------------------------------------------------------------------
\* The profile n steps up the extends chain.
Ancestor(name) ==
  LET up[n \in 0 .. Cardinality(DOMAIN Profiles)] ==
        IF n = 0 THEN name
        ELSE IF up[n - 1] \in DOMAIN Profiles THEN Profiles[up[n - 1]].parent
        ELSE None
  IN  up

\* The chain ends before it repeats a profile, and every profile of it exists.
Depth(name) ==
  LET up == Ancestor(name)
  IN  {n \in DOMAIN up : up[n] = None /\ \A m \in 0 .. n - 1 : up[m] \in DOMAIN Profiles}

\* resolveInheritanceChain: parents first.
Chain(name) ==
  LET depth == CHOOSE n \in Depth(name) : TRUE
  IN  [k \in 1 .. depth |-> Ancestor(name)[depth - k]]

PackList(name) == FlattenSeq([k \in DOMAIN Chain(name) |-> Profiles[Chain(name)[k]].packs])

\* resolveProfile throws otherwise: unknown profile, cycle or unknown pack.
Resolvable(name) ==
  /\ name \in DOMAIN Profiles
  /\ Depth(name) # {}
  /\ ToSet(PackList(name)) \subseteq DOMAIN Packs

\* applyPack.
Overlay(config, pack) ==
  [f \in Fields |-> IF f \in DOMAIN pack THEN pack[f] ELSE config[f]]

\* resolveProfile: every pack of the chain replaces the fields it defines.  The
\* merged config is not validated.
ResolveProfile(name, base) ==
  FoldLeft(LAMBDA config, id : Overlay(config, Packs[id]), base, PackList(name))

-----------------------------------------------------------------------------
\* Startup: engines from the config; the boot profile is resolved and announced.
Init ==
  /\ file = BootConfig
  /\ snapshot = BootConfig
  /\ engines = Built(BootConfig)
  /\ searxng = SearxngBuilt(BootConfig.searxng)
  /\ profile = BootProfile
  /\ resolved = ResolveProfile(BootProfile, BootConfig)

\* The operator edits the file.
EditFile(content) ==
  /\ file' = content
  /\ UNCHANGED <<snapshot, engines, searxng, profile, resolved>>

\* Faulty variant of Reload: every engine is replaced as soon as it is built, so
\* the graph stays when an isolation policy is refused.
ReloadInPlace ==
  /\ ValidRuntimeConfig(file)
  /\ snapshot' = file
  /\ IF Buildable(file)
       THEN /\ engines' = Built(file)
            /\ searxng' = IF file.searxng = "refused" THEN searxng ELSE SearxngBuilt(file.searxng)
       ELSE /\ engines' = [engines EXCEPT !["firewallPolicies"] = file.firewallPolicies]
            /\ UNCHANGED searxng
  /\ UNCHANGED <<file, profile, resolved>>

\* reload and the server's listener.  The snapshot is replaced first; the engines
\* are replaced together, unless building one throws, which emit swallows.  A
\* refused SearXNG section keeps the previous SearXNG engine.
Reload ==
  /\ ValidRuntimeConfig(file)
  /\ snapshot' = file
  /\ IF Buildable(file)
       THEN /\ engines' = Built(file)
            /\ searxng' = IF file.searxng = "refused" THEN searxng ELSE SearxngBuilt(file.searxng)
       ELSE UNCHANGED <<engines, searxng>>
  /\ UNCHANGED <<file, profile, resolved>>

\* A failed reload keeps the snapshot and the engines.
ReloadFailed ==
  /\ ~ValidRuntimeConfig(file)
  /\ UNCHANGED controlVars

\* POST /v1/runtime/profile/:name; the SearXNG engine is not touched.  Were the
\* resolved config not buildable, the handler would throw with some engines
\* replaced; EveryProfileCanBeSwitchedTo says that this cannot happen.
SwitchProfile(name) ==
  /\ Resolvable(name)
  /\ LET config == ResolveProfile(name, snapshot) IN
       /\ Buildable(config)
       /\ resolved' = config
       /\ engines' = Built(config)
  /\ profile' = name
  /\ UNCHANGED <<file, snapshot, searxng>>

\* An unknown name preserves the active profile.
SwitchRefused(name) ==
  /\ ~Resolvable(name)
  /\ UNCHANGED controlVars

Next ==
  \/ \E content \in Contents : EditFile(content)
  \/ Reload
  \/ ReloadFailed
  \/ \E name \in DOMAIN Profiles \cup {"unknown"} : SwitchProfile(name) \/ SwitchRefused(name)

Spec == Init /\ [][Next]_controlVars

-----------------------------------------------------------------------------
\* A field's governing writer in a profile: the last of the profile's packs to
\* define it, else its parent's, and so on up; else the config.
Governing(name, f, base) ==
  LET Writers(n) ==
        IF n \notin DOMAIN Profiles THEN << >>
        ELSE SelectSeq(Profiles[n].packs, LAMBDA id : f \in DOMAIN Packs[id])
      levels == {n \in DOMAIN Ancestor(name) : Writers(Ancestor(name)[n]) # << >>}
  IN  IF levels = {} THEN base[f]
      ELSE Packs[Last(Writers(Ancestor(name)[Min(levels)]))][f]

\* All engines are built from one config that was accepted, or from one profile.
BuiltTogether ==
  \/ engines = Built(resolved)
  \/ \E c \in Contents \cup {BootConfig} :
       ValidRuntimeConfig(c) /\ Buildable(c) /\ engines = Built(c)

\* Engines are never a mixture: whatever was edited, reloaded, switched or
\* failed in between, they are all built from one config that was accepted, or
\* all from the active profile, whose fields are those its governing packs give.
EnginesAreOneGeneration ==
  /\ BuiltTogether
  /\ \A s \in Surfaces : resolved[s] = Governing(profile, s, snapshot)

\* Whatever config the file has brought in, a shipped profile resolves over it to
\* one the validator accepts and every engine can be built from: an operator can
\* always leave a config that was accepted but could not be built.
EveryProfileCanBeSwitchedTo ==
  \A name \in DOMAIN Profiles :
    LET config == ResolveProfile(name, snapshot)
    IN  Resolvable(name) /\ ValidRuntimeConfig(config) /\ Buildable(config)

\* The server builds rules of its own instead of using core's policy engine.  For
\* any policies that core's store would hold, both firewalls allow the same
\* requests, and the server asks for confirmation wherever core would.
ServerIsNoLaxerThanCore == NoLaxerThanCore(engines["firewallPolicies"])

\* docs/runtime-config.md: "a successful (re)load rebuilds the config-derived
\* policy engines", and local-api.ts: "A failed reload keeps the previous
\* snapshot/engines active."
ReloadIsAllOrNothing ==
  [][snapshot' # snapshot => engines' = Built(snapshot')]_controlVars
=============================================================================
