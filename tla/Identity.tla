------------------------------ MODULE Identity ------------------------------
(***************************************************************************)
(* The users of an account (numbering/identity/service.py) and the copies  *)
(* of their rows that get_current_user (core/deps.py) keeps in Redis for   *)
(* thirty seconds: a request works on the copy it was served, which may be *)
(* behind the row, and a change of the profile merges it back.             *)
(***************************************************************************)
EXTENDS Naturals

CONSTANTS
    Users,        \* user ids, each used once
    Visits,       \* requests with a token being served at once
    Links,        \* and requests by a link that was mailed
    Phones,       \* values of phone_number
    NoPhone,
    Secrets,      \* values of mfa_secret
    NoSecret,
    MaxPassword   \* how often a password is reset, a bound

ASSUME IdentityAssumption ==
    /\ NoPhone \notin Phones /\ NoSecret \notin Secrets /\ Visits \cap Links = {}
    /\ MaxPassword \in Nat

VARIABLES
    user,    \* the rows
    cached,  \* auth:user:<id> in Redis
    visit    \* how far each request has got

identityVars == <<user, cached, visit>>

UserRow ==
    [life           : {"absent", "present", "removed"},
     role           : {"owner", "member"},
     password       : 0..MaxPassword,
     email_verified : BOOLEAN,
     mfa_secret     : Secrets \cup {NoSecret},
     mfa_enabled    : BOOLEAN,
     phone_number   : Phones \cup {NoPhone}]

NoRow(life) ==
    [life |-> life, role |-> "member", password |-> 0, email_verified |-> FALSE,
     mfa_secret |-> NoSecret, mfa_enabled |-> FALSE, phone_number |-> NoPhone]

\* Mutant: a key that is set without a time to live.
NeverExpires == 0

AUTH_CACHE_TTL_SECONDS == 30

NoCopy == [ttl |-> 0]
Away == [at |-> "away"]

IdentityTypeOK ==
    /\ user \in [Users -> UserRow]
    /\ cached \in [Users -> {NoCopy} \cup [ttl : {AUTH_CACHE_TTL_SECONDS}, copy : UserRow]]
    /\ visit \in
          [Visits \cup Links -> {Away}
             \cup [at : {"loaded", "serving"}, user : Users, copy : UserRow,
                   from : {"cache", "db"}]
             \cup [at : {"committed"}, user : Users]]

IdentityInit ==
    /\ user = [u \in Users |-> NoRow("absent")]
    /\ cached = [u \in Users |-> NoCopy]
    /\ visit = [q \in Visits \cup Links |-> Away]

Present(u) == user[u].life = "present"
Go(q, state) == visit' = [visit EXCEPT ![q] = state]
Committed(u) == [at |-> "committed", user |-> u]

-----------------------------------------------------------------------------
(* Rows that come and go.                                                  *)

Create(u, role, verified) ==
    /\ user[u].life = "absent"
    /\ user' = [user EXCEPT ![u] = [NoRow("present") EXCEPT
                    !.role = role, !.email_verified = verified]]
    /\ UNCHANGED <<cached, visit>>

create_account_with_owner(u) == Create(u, "owner", FALSE)

find_or_create_user_from_google(u) == Create(u, "owner", TRUE)

add_team_member(u) == Create(u, "member", FALSE)

\* The copy in Redis is left to expire.
remove_team_member(u) ==
    /\ Present(u)
    /\ user[u].role # "owner"
    /\ user' = [user EXCEPT ![u] = NoRow("removed")]
    /\ UNCHANGED <<cached, visit>>

-----------------------------------------------------------------------------
(* get_current_user. A token outlives the row and the copy of its user.    *)

\* Redis answers from its copy.
cache_get_hits(q, u) ==
    /\ visit[q] = Away
    /\ cached[u] # NoCopy
    /\ Go(q, [at |-> "serving", user |-> u, copy |-> cached[u].copy, from |-> "cache"])
    /\ UNCHANGED <<user, cached>>

\* It has none, or is down, or the breaker is open.
cache_get_misses(q, u) ==
    /\ visit[q] = Away
    /\ Present(u)
    /\ Go(q, [at |-> "loaded", user |-> u, copy |-> user[u], from |-> "db"])
    /\ UNCHANGED <<user, cached>>

\* The row as it was read is stored, unless Redis is down.
cache_set(q) ==
    /\ visit[q].at = "loaded"
    /\ Go(q, [visit[q] EXCEPT !.at = "serving"])
    /\ \/ cached' = [cached EXCEPT ![visit[q].user] =
                        [ttl |-> AUTH_CACHE_TTL_SECONDS, copy |-> visit[q].copy]]
       \/ UNCHANGED cached
    /\ UNCHANGED user

\* However long a request takes, Redis drops a key when its time is up.
copy_expires(u) ==
    /\ cached[u] # NoCopy
    /\ cached[u].ttl > 0
    /\ cached' = [cached EXCEPT ![u] = NoCopy]
    /\ UNCHANGED <<user, visit>>

\* Most routes read the user and end; a worker may die at any point.
visit_ends(q) ==
    /\ visit[q] # Away
    /\ Go(q, Away)
    /\ UNCHANGED <<user, cached>>

-----------------------------------------------------------------------------
(* Changes of the profile by its user.                                     *)

\* db.merge and the commit. A row this session has loaded is written where it
\* is changed, and only if it is still there. A copy from Redis is another
\* object: merge lays all of it over the row, or inserts it.
Merge(q, changed) ==
    LET u == visit[q].user
        copy == visit[q].copy IN
    /\ visit[q].from = "db" => Present(u)
    /\ user' = [user EXCEPT ![u] =
          IF visit[q].from = "cache" THEN changed
          ELSE [column \in DOMAIN copy |->
                   IF changed[column] # copy[column] THEN changed[column] ELSE @[column]]]
    /\ Go(q, Committed(u))
    /\ UNCHANGED cached

start_mfa_setup(q) ==
    /\ visit[q].at = "serving"
    /\ \E s \in Secrets \ {visit[q].copy.mfa_secret} :
          Merge(q, [visit[q].copy EXCEPT !.mfa_secret = s, !.mfa_enabled = FALSE])

enable_mfa(q) ==
    /\ visit[q].at = "serving"
    /\ visit[q].copy.mfa_secret # NoSecret
    /\ Merge(q, [visit[q].copy EXCEPT !.mfa_enabled = TRUE])

disable_mfa(q) ==
    /\ visit[q].at = "serving"
    /\ visit[q].copy.mfa_enabled
    /\ visit[q].copy.mfa_secret # NoSecret
    /\ Merge(q, [visit[q].copy EXCEPT !.mfa_secret = NoSecret, !.mfa_enabled = FALSE])

set_phone_number(q, p) ==
    /\ visit[q].at = "serving"
    /\ Merge(q, [visit[q].copy EXCEPT !.phone_number = p])

-----------------------------------------------------------------------------
(* Changes by a link that was mailed: no token, no copy.                   *)

verify_email(q, u) ==
    /\ visit[q] = Away
    /\ Present(u)
    /\ ~user[u].email_verified
    /\ user' = [user EXCEPT ![u].email_verified = TRUE]
    /\ Go(q, Committed(u))
    /\ UNCHANGED cached

\* The link carries the fingerprint of the password it was mailed for.
reset_password(q, u) ==
    /\ visit[q] = Away
    /\ Present(u)
    /\ user[u].password < MaxPassword
    /\ user' = [user EXCEPT ![u].password = @ + 1]
    /\ Go(q, Committed(u))
    /\ UNCHANGED cached

\* After the commit; Redis may be down.
invalidate_cached_user(q) ==
    /\ visit[q].at = "committed"
    /\ Go(q, Away)
    /\ \/ cached' = [cached EXCEPT ![visit[q].user] = NoCopy]
       \/ UNCHANGED cached
    /\ UNCHANGED user

-----------------------------------------------------------------------------
ChangeProfile(q) ==
    \/ start_mfa_setup(q)
    \/ enable_mfa(q)
    \/ disable_mfa(q)
    \/ \E p \in Phones \cup {NoPhone} : set_phone_number(q, p)

Proceed(q) == cache_set(q) \/ visit_ends(q) \/ invalidate_cached_user(q)

IdentityNext ==
    \/ \E u \in Users :
          \/ create_account_with_owner(u)
          \/ find_or_create_user_from_google(u)
          \/ add_team_member(u)
          \/ remove_team_member(u)
          \/ copy_expires(u)
    \/ \E q \in Visits, u \in Users :
          \/ cache_get_hits(q, u)
          \/ cache_get_misses(q, u)
    \/ \E q \in Links, u \in Users :
          \/ verify_email(q, u)
          \/ reset_password(q, u)
    \/ \E q \in Visits : ChangeProfile(q) \/ cache_set(q)
    \/ \E q \in Visits \cup Links : visit_ends(q) \/ invalidate_cached_user(q)

\* A request ends, somehow; and time passes.
IdentityFair ==
    /\ \A q \in Visits \cup Links : WF_identityVars(Proceed(q))
    /\ \A u \in Users : WF_identityVars(copy_expires(u))

IdentitySpec == IdentityInit /\ [][IdentityNext]_identityVars /\ IdentityFair

-----------------------------------------------------------------------------
\* What one request has committed is not taken back by another that changes
\* something else ("nothing anywhere in this codebase [...] mutates-then-commits
\* current_user", deps.py): a removed user stays removed, a verified address
\* verified, and a password is only ever replaced by a newer one.
UpdatesStay ==
    [][\A u \in Users :
          /\ user[u].life = "removed" => user'[u].life = "removed"
          /\ Present(u) /\ user'[u].life = "present" =>
                /\ user[u].email_verified => user'[u].email_verified
                /\ user'[u].password >= user[u].password]_user

\* "A role/email/MFA change takes up to this long to reach an already-issued
\* session's cached copy" (deps.py): whatever overlaps, is lost or fails, once a
\* row no longer changes requests are in the end served what it says.
CopiesCatchUp ==
    <>[][FALSE]_user =>
        <>[](\A u \in Users : cached[u] # NoCopy => cached[u].copy = user[u])
=============================================================================
