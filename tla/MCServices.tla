------------------------------ MODULE MCServices ------------------------------
(***************************************************************************)
(* The components that keep what they were given: the append-only log, the *)
(* alert router, the review queue, the consent records, the registries and *)
(* the credentials and the directory of the identity service.  They share  *)
(* no state in the code either, so a behaviour chooses one of them and     *)
(* exercises it; the others stay as they began.                            *)
(***************************************************************************)
EXTENDS AppendOnlyLog, AlertRouter, HitlQueue, ConsentBoundary, Registries,
        IdentityCredentials, IdentityDirectory, TLC

VARIABLE component  \* the component this behaviour exercises

services == <<logVars, routerVars, hitlVars, consentVars, registryVars, credentialVars, dirVars>>

vars == <<component, services>>

Init == /\ component \in {"log", "router", "hitl", "consent", "registries", "credentials",
                          "directory"}
        /\ LogInit /\ RouterInit /\ HitlInit /\ ConsentInit /\ RegistriesInit
        /\ CredentialsInit /\ DirectoryInit

LogStep ==
    /\ component = "log" /\ LogNext
    /\ UNCHANGED <<component, routerVars, hitlVars, consentVars, registryVars, credentialVars, dirVars>>

RouterStep ==
    /\ component = "router" /\ RouterNext
    /\ UNCHANGED <<component, logVars, hitlVars, consentVars, registryVars, credentialVars, dirVars>>

HitlStep ==
    /\ component = "hitl" /\ HitlNext
    /\ UNCHANGED <<component, logVars, routerVars, consentVars, registryVars, credentialVars, dirVars>>

ConsentStep ==
    /\ component = "consent" /\ ConsentNext
    /\ UNCHANGED <<component, logVars, routerVars, hitlVars, registryVars, credentialVars, dirVars>>

RegistriesStep ==
    /\ component = "registries" /\ RegistriesNext
    /\ UNCHANGED <<component, logVars, routerVars, hitlVars, consentVars, credentialVars, dirVars>>

CredentialsStep ==
    /\ component = "credentials" /\ CredentialsNext
    /\ UNCHANGED <<component, logVars, routerVars, hitlVars, consentVars, registryVars, dirVars>>

DirectoryStep ==
    /\ component = "directory" /\ DirectoryNext
    /\ UNCHANGED <<component, logVars, routerVars, hitlVars, consentVars, registryVars, credentialVars>>

Next == \/ LogStep
        \/ RouterStep
        \/ HitlStep
        \/ ConsentStep
        \/ RegistriesStep
        \/ CredentialsStep
        \/ DirectoryStep

Spec == Init /\ [][Next]_vars

(* Runners are interchangeable, and so are the callers, who are the same set *)
(* for the review queue, the consents and the credentials.                   *)
ServiceSymmetry == Permutations(Runners) \cup Permutations(HitlThreads)

\* Three versions of two majors.
SchemaVersions == {<<1, 0>>, <<1, 1>>, <<2, 0>>}

(* Every component's variables stay in their types.                         *)
ServicesTypeOK ==
    /\ LogTypeOK /\ RouterTypeOK /\ HitlTypeOK /\ ConsentTypeOK /\ RegistriesTypeOK
    /\ CredentialsTypeOK /\ DirectoryTypeOK

(* What the process reports of people's decisions (hitl.py, consent.py): a  *)
(* review event shows its call's decision exactly unless another call       *)
(* changed the same item first, and the consent trail accounts for the      *)
(* records up to the events that were lost.                                 *)
PeopleAreHeard == HitlEventsCarryTheDecision /\ ConsentTrailBalances

(* The registries (model_registry.py, prompt_registry.py, consumer.py)      *)
(* agree with themselves: retired models and only they are dated, the       *)
(* latest prompt version exists, and consumers that pass the startup check  *)
(* agree on the schema's major.                                             *)
RegistriesResolve == RetiredModelsAreDated /\ LatestVersionResolves /\ OneMajorServesAll

(* Whatever overlaps in sdk/identity.py: a link or a rotation yields an     *)
(* extra key only to a thread that overlapped, and never leaves the old key *)
(* alive; guesses and quotas are rationed; names, users, groups and         *)
(* provider sessions agree.                                                 *)
IdentitiesAreKept == ExtraKeysNeedAnOverlap /\ GuessesAreRationed /\ DirectoryIsConsistent
=============================================================================
