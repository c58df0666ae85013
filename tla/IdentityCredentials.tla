-------------------------- MODULE IdentityCredentials -------------------------
(***************************************************************************)
(* Credentials of the local identity client (sdk/identity.py): API keys,     *)
(* magic links and sessions, second factors, and quotas.  The client takes   *)
(* its lock several times in exchange_magic_link, rotate_key and verify_totp,*)
(* so threads interleave between their sections.  Keys with links, TOTP      *)
(* enrolments and quotas share no data, so a behaviour exercises one of the  *)
(* three: ifPart says which.                                                 *)
(***************************************************************************)
EXTENDS Naturals, Sequences, FiniteSets

CONSTANTS IkThreads,    \* callers
          IkKeyCap,     \* bound: keys ever issued
          IfCodes,      \* backup codes of an enrolment
          MAX_FAILURES, \* _TOTP_MAX_FAILURES
          IfEnrolCap,   \* bound: enrolments
          IfExpiryCap   \* bound: locks of one enrolment that run out

(* A process has finitely many threads, and no failure is no reason to lock.*)
ASSUME CredentialsAssumption ==
    /\ IsFiniteSet(IkThreads) /\ IkKeyCap \in Nat \ {0}
    /\ MAX_FAILURES \in Nat \ {0} /\ IfExpiryCap \in Nat

VARIABLES ikKeys,   \* records of _keys_by_id, by issue
          ikLink,   \* the one record of _magic_links
          ikMfa,    \* _mfa_policies of the project
          ikCalls,  \* thread -> where its call stands
          ifPart,   \* "keys", "codes" or "quota", once one is used
          ifTotp,   \* the records that _totp_data held, the last one current
          ifCalls,  \* thread -> the record its OTP is being compared with, or 0
          ifTier,   \* _key_tiers
          ifCount,  \* _daily_counts since midnight
          ifHigh    \* history: the highest tier since midnight

ikVars == <<ikKeys, ikLink, ikMfa, ikCalls>>
totpVars == <<ifTotp, ifCalls>>
quotaVars == <<ifTier, ifCount, ifHigh>>
credentialVars == <<ikVars, ifPart, totpVars, quotaVars>>

Ids == 1..Len(ikKeys)
KeyRecord == [revoked : BOOLEAN, rotated_to : 0..IkKeyCap,
              scope : {"caller", "magic_link"}, parent : 0..IkKeyCap]
NoStep == <<"idle", 0, 0>>

InitKeys == /\ ikKeys = <<>>
            /\ ikLink = [issued |-> FALSE, used |-> FALSE, expired |-> FALSE]
            /\ ikMfa = FALSE
            /\ ikCalls = [t \in IkThreads |-> NoStep]

MoveTo(t, step) == ikCalls' = [ikCalls EXCEPT ![t] = step]
IsAt(t, pc) == ikCalls[t][1] = pc

(* _local_issue_api_key: a record under a new id and value. *)
NewKey(scope, parent) ==
    /\ Len(ikKeys) < IkKeyCap
    /\ ikKeys' = Append(ikKeys, [revoked |-> FALSE, rotated_to |-> 0, scope |-> scope,
                                 parent |-> parent])

issue_api_key(t) == /\ IsAt(t, "idle")
                    /\ NewKey("caller", 0)
                    /\ UNCHANGED <<ikLink, ikMfa, ikCalls>>

issue_magic_link == /\ ~ikLink.issued
                    /\ ikLink' = [ikLink EXCEPT !.issued = TRUE]
                    /\ UNCHANGED <<ikKeys, ikMfa, ikCalls>>

(* exchange_magic_link: the record is tested outside the lock ... *)
exchange_check(t, otp) ==
    /\ IsAt(t, "idle") /\ ikLink.issued /\ ~ikLink.used /\ ~ikLink.expired
    /\ MoveTo(t, <<"link", 0, IF otp THEN 1 ELSE 0>>)
    /\ UNCHANGED <<ikKeys, ikLink, ikMfa>>

(* ... marked in a second section ... *)
exchange_mark(t) ==
    /\ IsAt(t, "link")
    /\ ikLink' = [ikLink EXCEPT !.used = TRUE]
    /\ MoveTo(t, <<"marked", 0, ikCalls[t][3]>>)
    /\ UNCHANGED <<ikKeys, ikMfa>>

(* ... and the second factor is asked for when the link is already spent. *)
exchange_mfa(t) ==
    /\ IsAt(t, "marked")
    /\ MoveTo(t, IF ikMfa /\ ikCalls[t][3] = 0 THEN NoStep ELSE <<"issue", 0, 0>>)
    /\ UNCHANGED <<ikKeys, ikLink, ikMfa>>

exchange_issue(t) ==
    /\ IsAt(t, "issue")
    /\ NewKey("magic_link", 0)
    /\ MoveTo(t, NoStep)
    /\ UNCHANGED <<ikLink, ikMfa>>

(* rotate_key: fetch the old record (revoked or not), issue, revoke. *)
rotate_fetch(t, k) == /\ IsAt(t, "idle")
                      /\ MoveTo(t, <<"rotate", k, 0>>)
                      /\ UNCHANGED <<ikKeys, ikLink, ikMfa>>

(* A mutant of rotate_key: the successor named is the one after the new one. *)
RotateToNext(t) == /\ IsAt(t, "rotate")
                   /\ NewKey(ikKeys[ikCalls[t][2]].scope, ikCalls[t][2])
                   /\ MoveTo(t, <<"replace", ikCalls[t][2], Len(ikKeys) + 2>>)
                   /\ UNCHANGED <<ikLink, ikMfa>>

rotate_issue(t) == /\ IsAt(t, "rotate")
                   /\ NewKey(ikKeys[ikCalls[t][2]].scope, ikCalls[t][2])
                   /\ MoveTo(t, <<"replace", ikCalls[t][2], Len(ikKeys) + 1>>)
                   /\ UNCHANGED <<ikLink, ikMfa>>

(* A mutant of rotate_revoke: a key that was rotated before is left alone. *)
RotateRevokesOnce(t) ==
    /\ IsAt(t, "replace")
    /\ ikKeys' = IF ikKeys[ikCalls[t][2]].parent # 0 THEN ikKeys
                 ELSE [ikKeys EXCEPT ![ikCalls[t][2]].revoked = TRUE,
                                     ![ikCalls[t][2]].rotated_to = ikCalls[t][3]]
    /\ MoveTo(t, NoStep)
    /\ UNCHANGED <<ikLink, ikMfa>>

rotate_revoke(t) ==
    /\ IsAt(t, "replace")
    /\ ikKeys' = [ikKeys EXCEPT ![ikCalls[t][2]].revoked = TRUE,
                                ![ikCalls[t][2]].rotated_to = ikCalls[t][3]]
    /\ MoveTo(t, NoStep)
    /\ UNCHANGED <<ikLink, ikMfa>>

revoke_key(t, k) == /\ IsAt(t, "idle")
                    /\ ikKeys' = [ikKeys EXCEPT ![k].revoked = TRUE]
                    /\ UNCHANGED <<ikLink, ikMfa, ikCalls>>

(* create_session keeps nothing: its answer is a signed token.               *)
create_session(k, expired) == IF ikKeys[k].revoked THEN "revoked"
                              ELSE IF expired THEN "expired" ELSE "jwt"

set_mfa_policy(required) == /\ ikMfa # required
                            /\ ikMfa' = required
                            /\ UNCHANGED <<ikKeys, ikLink, ikCalls>>

ExpireLink == /\ ikLink.issued /\ ~ikLink.expired
              /\ ikLink' = [ikLink EXCEPT !.expired = TRUE]
              /\ UNCHANGED <<ikKeys, ikMfa, ikCalls>>

KeyCall(t) == \/ issue_api_key(t)
              \/ \E otp \in BOOLEAN : exchange_check(t, otp)
              \/ exchange_mark(t) \/ exchange_mfa(t) \/ exchange_issue(t)
              \/ \E k \in Ids : rotate_fetch(t, k) \/ revoke_key(t, k)
              \/ rotate_issue(t) \/ rotate_revoke(t)

UseKeys == \/ issue_magic_link \/ ExpireLink
           \/ \E required \in BOOLEAN : set_mfa_policy(required)
           \/ \E t \in IkThreads : KeyCall(t)

(***************************************************************************)
(* Second factors, one TOTP enrolment after another for one key, with codes *)
(* tried by several threads; and the calls a key may make in a day          *)
(***************************************************************************)
QuotaTier == <<0, 1, 2, 3>>   \* daily limits (scaled), the last tier without one
Limited(tier) == tier < Len(QuotaTier)
TotpRecord == [fails : Nat, locked : BOOLEAN, expiries : 0..IfExpiryCap,
               used : SUBSET IfCodes, accepted : [IfCodes -> 0..2]]

InitFactors == /\ ifTotp = <<>> /\ ifCalls = [t \in IkThreads |-> 0]
               /\ ifTier = 1 /\ ifCount = 0 /\ ifHigh = 1

(* enroll_totp: a fresh record, which forgets failures and the lock. *)
enroll_totp ==
    /\ Len(ifTotp) < IfEnrolCap
    /\ ifTotp' = Append(ifTotp, [fails |-> 0, locked |-> FALSE, expiries |-> 0, used |-> {},
                                 accepted |-> [c \in IfCodes |-> 0]])
    /\ UNCHANGED ifCalls

(* verify_totp: the lock is tested, the code compared outside the client's  *)
(* lock ...                                                                  *)
totp_check(t) ==
    /\ ifCalls[t] = 0 /\ ifTotp # <<>>
    /\ ~ifTotp[Len(ifTotp)].locked
    /\ ifCalls' = [ifCalls EXCEPT ![t] = Len(ifTotp)]
    /\ UNCHANGED ifTotp

(* ... and the outcome is written to the record that was fetched then. *)
totp_match(t) ==
    /\ ifCalls[t] # 0
    /\ ifTotp' = [ifTotp EXCEPT ![ifCalls[t]].fails = 0, ![ifCalls[t]].expiries = 0]
    /\ ifCalls' = [ifCalls EXCEPT ![t] = 0]

(* A mutant of totp_miss: only the failure that reaches the limit locks. *)
MissLocksOnce(t) ==
    /\ ifCalls[t] # 0
    /\ ifTotp' = [ifTotp EXCEPT ![ifCalls[t]].fails = @ + 1,
                                ![ifCalls[t]].locked = @ \/ ifTotp[ifCalls[t]].fails + 1 = MAX_FAILURES]
    /\ ifCalls' = [ifCalls EXCEPT ![t] = 0]

totp_miss(t) ==
    /\ ifCalls[t] # 0
    /\ ifTotp' = [ifTotp EXCEPT ![ifCalls[t]].fails = @ + 1,
                                ![ifCalls[t]].locked = @ \/ ifTotp[ifCalls[t]].fails + 1 >= MAX_FAILURES]
    /\ ifCalls' = [ifCalls EXCEPT ![t] = 0]

(* The lockout time passes; the failures are not forgotten. *)
LockExpires(r) ==
    /\ ifTotp[r].locked /\ ifTotp[r].expiries < IfExpiryCap
    /\ ifTotp' = [ifTotp EXCEPT ![r].locked = FALSE, ![r].expiries = @ + 1]
    /\ UNCHANGED ifCalls

(* verify_backup_code: test and use in one section; no lock, no counter. *)
verify_backup_code(c) ==
    /\ ifTotp # <<>>
    /\ LET r == Len(ifTotp) IN
         /\ c \notin ifTotp[r].used
         /\ ifTotp' = [ifTotp EXCEPT ![r].used = @ \cup {c}, ![r].accepted[c] = @ + 1]
    /\ UNCHANGED ifCalls

set_key_tier(tier) == /\ ifTier # tier
                      /\ ifTier' = tier
                      /\ ifHigh' = IF tier > ifHigh THEN tier ELSE ifHigh
                      /\ UNCHANGED ifCount

(* consume_quota: count and record in one section (unlimited calls are      *)
(* counted up to the bound QuotaTier[4]).                                    *)
consume_quota == /\ (Limited(ifTier) => ifCount < QuotaTier[ifTier])
                 /\ ifCount < QuotaTier[4]
                 /\ ifCount' = ifCount + 1
                 /\ UNCHANGED <<ifTier, ifHigh>>

(* get_quota_usage: never negative, also after a change to a lower tier. *)
get_quota_usage == [consumed |-> ifCount,
                    remaining |-> IF ~Limited(ifTier) \/ ifCount >= QuotaTier[ifTier] THEN 0
                                  ELSE QuotaTier[ifTier] - ifCount]

Midnight == /\ ifCount > 0
            /\ ifCount' = 0 /\ ifHigh' = ifTier
            /\ UNCHANGED ifTier

UseCodes == \/ enroll_totp
            \/ \E t \in IkThreads : totp_check(t) \/ totp_match(t) \/ totp_miss(t)
            \/ \E r \in 1..Len(ifTotp) : LockExpires(r)
            \/ \E c \in IfCodes : verify_backup_code(c)
UseQuota == \/ consume_quota \/ Midnight
            \/ \E tier \in 1..Len(QuotaTier) : set_key_tier(tier)

(***************************************************************************)
(* The specification                                                        *)
(***************************************************************************)
CredentialsInit == ifPart = "none" /\ InitKeys /\ InitFactors

Exercised(part) == ifPart \in {"none", part} /\ ifPart' = part

CredentialsNext == \/ Exercised("keys") /\ UseKeys /\ UNCHANGED <<totpVars, quotaVars>>
                   \/ Exercised("codes") /\ UseCodes /\ UNCHANGED <<ikVars, quotaVars>>
                   \/ Exercised("quota") /\ UseQuota /\ UNCHANGED <<ikVars, totpVars>>

CredentialsSpec == CredentialsInit /\ [][CredentialsNext]_credentialVars

CredentialsTypeOK ==
    /\ ikKeys \in Seq(KeyRecord) /\ Len(ikKeys) <= IkKeyCap
    /\ ikLink \in [issued : BOOLEAN, used : BOOLEAN, expired : BOOLEAN]
    /\ ikMfa \in BOOLEAN
    /\ \A t \in IkThreads : ikCalls[t] \in {"idle", "link", "marked", "issue", "rotate", "replace"}
                                \X (0..IkKeyCap) \X (0..IkKeyCap)
    /\ ifPart \in {"none", "keys", "codes", "quota"}
    /\ ifTotp \in Seq(TotpRecord)
    /\ ifCalls \in [IkThreads -> 0..Len(ifTotp)]
    /\ ifTier \in 1..4 /\ ifHigh \in 1..4 /\ ifCount \in 0..QuotaTier[4]

LinkKeys == {k \in Ids : ikKeys[k].scope = "magic_link" /\ ikKeys[k].parent = 0}
Exchanging == {t \in IkThreads : ikCalls[t][1] \in {"link", "marked", "issue"}}

(* identity.py:475: a link "can be exchanged exactly once".  Two calls that  *)
(* both test the record before either marks it get a key each.               *)
LinksAreExchangedOnce == Cardinality(LinkKeys) <= 1

(* A thread gets at most one key out of a link, however often it tries and   *)
(* whichever calls overlap its own: every key beyond the first was issued to *)
(* a call that tested the link before it was marked.  And whoever rotates a  *)
(* key, alone or at the same time as others, leaves it revoked and names one *)
(* of its successors when the call is over: it opens no session any more.    *)
ExtraKeysNeedAnOverlap ==
    /\ Cardinality(LinkKeys) + Cardinality(Exchanging) <= Cardinality(IkThreads)
    /\ \A k \in Ids : LET p == ikKeys[k].parent IN
         p # 0 /\ (\A t \in IkThreads : ikCalls[t] # <<"replace", p, k>>) =>
            /\ ikKeys[p].revoked
            /\ ikKeys[ikKeys[p].rotated_to].parent = p
            /\ create_session(p, FALSE) # "jwt"

(* Codes cannot be guessed faster than the lock allows: since the last       *)
(* correct code at most MAX_FAILURES - 1 wrong ones, and one more for each   *)
(* thread and each lock that ran out.  A backup code works once.  The calls  *)
(* of a day stay within the highest tier of that day.                        *)
GuessesAreRationed ==
    /\ \A r \in 1..Len(ifTotp) :
         /\ ifTotp[r].fails <
              MAX_FAILURES + Cardinality(IkThreads) * (ifTotp[r].expiries + 1)
         /\ \A c \in IfCodes : ifTotp[r].accepted[c] <= 1
    /\ Limited(ifHigh) => ifCount <= QuotaTier[ifHigh]
    /\ get_quota_usage.remaining > 0 => ifCount < QuotaTier[ifHigh]
=============================================================================
