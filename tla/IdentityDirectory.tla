-------------------------- MODULE IdentityDirectory --------------------------
(***************************************************************************)
(* Users, groups and single sign-on of the local identity client            *)
(* (sdk/identity.py).  Every call is one section under the client's lock;   *)
(* what can go wrong is between the tables that the sections keep in step.  *)
(***************************************************************************)
EXTENDS Naturals, Sequences, FiniteSets

CONSTANTS DirNames,     \* user names
          DirUserCap,   \* bound: users ever created
          DirGroupCap,  \* bound: groups ever created
          SsoIdps,      \* sessions of the identity provider
          SsoCap,       \* bound: sessions ever delegated
          OidcStates    \* state tokens, used in any order

(* Users are counted.                                                       *)
ASSUME DirectoryAssumption == DirUserCap \in Nat

VARIABLES dirUsers,    \* every user ever created, by creation
          dirByName,   \* _scim_users_by_name: name -> user, 0 if none
          dirGroups,   \* every group ever created, by creation
          ssoSessions, \* _sso_sessions, by creation
          ssoByIdp,    \* _sso_by_idp: provider session -> session, 0 if none
          oidcPending, \* _oidc_states
          oidcLate,    \* the states older than their lifetime
          oidcJwts     \* state -> sessions obtained with it

directoryVars == <<dirUsers, dirByName, dirGroups>>
ssoVars == <<ssoSessions, ssoByIdp>>
oidcVars == <<oidcPending, oidcLate, oidcJwts>>
dirVars == <<directoryVars, ssoVars, oidcVars>>

UserIds == 1..Len(dirUsers)
GroupIds == 1..Len(dirGroups)
Live(u) == u \in UserIds /\ dirUsers[u].live
Member(g) == dirGroups[g].members

DirectoryInit == /\ dirUsers = <<>> /\ dirByName = [n \in DirNames |-> 0] /\ dirGroups = <<>>
                 /\ ssoSessions = <<>> /\ ssoByIdp = [i \in SsoIdps |-> 0]
                 /\ oidcPending = {} /\ oidcLate = {} /\ oidcJwts = [s \in OidcStates |-> 0]

(* scim_create_user: names are unique; a new user is in no group. *)
scim_create_user(n) ==
    /\ dirByName[n] = 0 /\ Len(dirUsers) < DirUserCap
    /\ dirUsers' = Append(dirUsers, [name |-> n, live |-> TRUE, active |-> TRUE, groups |-> {}])
    /\ dirByName' = [dirByName EXCEPT ![n] = Len(dirUsers) + 1]
    /\ UNCHANGED <<dirGroups, ssoVars, oidcVars>>

(* scim_patch_user changes neither name nor groups. *)
scim_patch_user(u, active) ==
    /\ Live(u)
    /\ dirUsers' = [dirUsers EXCEPT ![u].active = active]
    /\ UNCHANGED <<dirByName, dirGroups, ssoVars, oidcVars>>

(* A mutant of scim_delete_user: the name stays taken. *)
DeleteKeepsName(u) ==
    /\ Live(u)
    /\ dirUsers' = [dirUsers EXCEPT ![u].live = FALSE]
    /\ UNCHANGED <<dirByName, dirGroups, ssoVars, oidcVars>>

(* scim_delete_user: the name is free again, groups keep the member. *)
scim_delete_user(u) ==
    /\ Live(u)
    /\ dirUsers' = [dirUsers EXCEPT ![u].live = FALSE]
    /\ dirByName' = [dirByName EXCEPT ![dirUsers[u].name] = 0]
    /\ UNCHANGED <<dirGroups, ssoVars, oidcVars>>

(* scim_create_group: the members that exist learn of it (a deleted user    *)
(* stands for any id that is not in the table).                              *)
scim_create_group(members) ==
    /\ Len(dirGroups) < DirGroupCap
    /\ dirGroups' = Append(dirGroups, [live |-> TRUE, members |-> members])
    /\ dirUsers' = [u \in UserIds |->
           IF u \in members /\ Live(u)
           THEN [dirUsers[u] EXCEPT !.groups = @ \cup {Len(dirGroups) + 1}] ELSE dirUsers[u]]
    /\ UNCHANGED <<dirByName, ssoVars, oidcVars>>

scim_delete_group(g) ==
    /\ dirGroups[g].live
    /\ dirGroups' = [dirGroups EXCEPT ![g].live = FALSE]
    /\ dirUsers' = [u \in UserIds |->
           IF u \in Member(g) /\ Live(u)
           THEN [dirUsers[u] EXCEPT !.groups = @ \ {g}] ELSE dirUsers[u]]
    /\ UNCHANGED <<dirByName, ssoVars, oidcVars>>

(* scim_list_users and scim_list_groups: users[start - 1 : start - 1 + n]    *)
(* for a start of at least 1.                                                *)
Page(s, start, n) ==
    SubSeq(s, start, IF start - 1 + n < Len(s) THEN start - 1 + n ELSE Len(s))
Listed == LET upto[u \in 0..Len(dirUsers)] ==
                 IF u = 0 THEN <<>> ELSE IF Live(u) THEN Append(upto[u - 1], u) ELSE upto[u - 1]
          IN upto[Len(dirUsers)]
scim_list_users(start, n) == Page(Listed, start, n)

(* sso_delegate_session: refused while the provider's session has an active *)
(* one here.                                                                 *)
sso_delegate_session(i) ==
    /\ ssoByIdp[i] # 0 => ~ssoSessions[ssoByIdp[i]].active
    /\ Len(ssoSessions) < SsoCap
    /\ ssoSessions' = Append(ssoSessions, [idp |-> i, active |-> TRUE])
    /\ ssoByIdp' = [ssoByIdp EXCEPT ![i] = Len(ssoSessions) + 1]
    /\ UNCHANGED <<directoryVars, oidcVars>>

(* sso_revoke_idp_session: True only for an active session. *)
sso_revoke_idp_session(i) ==
    /\ ssoByIdp[i] # 0 /\ ssoSessions[ssoByIdp[i]].active
    /\ ssoSessions' = [ssoSessions EXCEPT ![ssoByIdp[i]].active = FALSE]
    /\ UNCHANGED <<ssoByIdp, directoryVars, oidcVars>>

oidc_authorize(s) ==
    /\ s \notin oidcPending \cup oidcLate /\ oidcJwts[s] = 0
    /\ oidcPending' = oidcPending \cup {s}
    /\ UNCHANGED <<oidcLate, oidcJwts, directoryVars, ssoVars>>

StateExpires(s) == /\ s \in oidcPending /\ s \notin oidcLate
                   /\ oidcLate' = oidcLate \cup {s}
                   /\ UNCHANGED <<oidcPending, oidcJwts, directoryVars, ssoVars>>

(* oidc_callback: the state is taken out of the table, then its age tested. *)
oidc_callback(s) ==
    /\ s \in oidcPending
    /\ oidcPending' = oidcPending \ {s}
    /\ oidcJwts' = IF s \in oidcLate THEN oidcJwts ELSE [oidcJwts EXCEPT ![s] = @ + 1]
    /\ UNCHANGED <<oidcLate, directoryVars, ssoVars>>

DirectoryNext == \/ \E n \in DirNames : scim_create_user(n)
                 \/ \E u \in UserIds : scim_delete_user(u) \/ \E a \in BOOLEAN : scim_patch_user(u, a)
                 \/ \E m \in SUBSET UserIds : scim_create_group(m)
                 \/ \E g \in GroupIds : scim_delete_group(g)
                 \/ \E i \in SsoIdps : sso_delegate_session(i) \/ sso_revoke_idp_session(i)
                 \/ \E s \in OidcStates : oidc_authorize(s) \/ StateExpires(s) \/ oidc_callback(s)

DirectorySpec == DirectoryInit /\ [][DirectoryNext]_dirVars

DirectoryTypeOK ==
    /\ \A u \in UserIds : dirUsers[u] \in [name : DirNames, live : BOOLEAN, active : BOOLEAN,
                                           groups : SUBSET GroupIds]
    /\ dirByName \in [DirNames -> 0..Len(dirUsers)]
    /\ \A g \in GroupIds : dirGroups[g] \in [live : BOOLEAN, members : SUBSET UserIds]
    /\ ssoSessions \in Seq([idp : SsoIdps, active : BOOLEAN])
    /\ ssoByIdp \in [SsoIdps -> 0..Len(ssoSessions)]
    /\ oidcPending \subseteq OidcStates /\ oidcLate \subseteq OidcStates
    /\ oidcJwts \in [OidcStates -> 0..2]

(* The tables agree: a name leads to the one live user that has it, a live   *)
(* user lists the live groups it is a member of, pages of users add up to    *)
(* the list, and a provider's session has at most one active session here,   *)
(* the one it is indexed under.  A late state opens no session.              *)
DirectoryIsConsistent ==
    /\ \A n \in DirNames : {u \in UserIds : Live(u) /\ dirUsers[u].name = n}
                               = IF dirByName[n] = 0 THEN {} ELSE {dirByName[n]}
    /\ \A u \in UserIds : Live(u) =>
         dirUsers[u].groups = {g \in GroupIds : dirGroups[g].live /\ u \in Member(g)}
    /\ \A k, n \in 0..DirUserCap :
         scim_list_users(1, k) \o scim_list_users(k + 1, n) = scim_list_users(1, k + n)
    /\ \A s \in 1..Len(ssoSessions) :
         ssoSessions[s].active => ssoByIdp[ssoSessions[s].idp] = s
    /\ \A s \in OidcStates : oidcJwts[s] <= 1 /\ (s \in oidcPending => oidcJwts[s] = 0)
=============================================================================
