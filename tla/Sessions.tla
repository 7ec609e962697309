------------------------------ MODULE Sessions ------------------------------
(***************************************************************************)
(* One account's sessions: login, refresh with rotation, logout, bans and  *)
(* deactivation.  The account is a database row; which refresh tokens are  *)
(* dead and whether the user is banned is kept in Redis, written after the *)
(* database and without its locks.  Refresh tokens are numbered as they    *)
(* are issued; an access token stands and falls with its refresh token     *)
(* here, since it lives for minutes.                                       *)
(***************************************************************************)
EXTENDS Integers, FiniteSets

CONSTANTS
    Calls,      \* handlers in progress at once
    MaxTokens,  \* bound: refresh tokens issued
    MaxBans,    \* bound: bans
    RedisFails  \* whether a write to Redis after a commit may fail

SessionAssumption ==
    /\ MaxTokens \in Nat /\ MaxBans \in Nat /\ RedisFails \in BOOLEAN

Tokens == 1..MaxTokens

VARIABLES
    account,   \* User: is_active, and the ban as the handlers tell it apart
    banned,    \* Redis: banned_client is set
    blacklist, \* Redis: refresh tokens rotated or logged out
    issued,    \* tokens issued so far
    ending,    \* tokens whose exp has come
    expired,   \* tokens that are no longer accepted, a second later
    exchanged, \* history: exchanged[t]: tokens issued in exchange for t
    bans,      \* bans so far
    parted,    \* history: a write to Redis was lost, or a ban and the
               \* lifting of one came between each other's two writes
    call       \* what a handler has read or done

redis  == <<banned, blacklist>>
issue  == <<issued, exchanged>>
life   == <<ending, expired>>
marks  == <<bans, parted>>
vars   == <<account, redis, issue, life, marks, call>>

\* "over": a timed ban whose period has passed, which a login lifts.
Bans == {"none", "timed", "over", "indefinite"}
Account == [active : BOOLEAN, ban : Bans]
Idle == [step |-> "idle", token |-> 0,
         saw |-> [active |-> TRUE, ban |-> "none"]]

TypeOK ==
    /\ account \in Account
    /\ banned \in BOOLEAN /\ blacklist \subseteq Tokens
    /\ issued \in 0..MaxTokens
    /\ expired \subseteq ending /\ ending \subseteq 1..issued
    /\ blacklist \subseteq (1..issued) \ expired
    /\ exchanged \in [Tokens -> 0..MaxTokens]
    /\ bans \in 0..MaxBans /\ parted \in BOOLEAN
    /\ call \in [Calls -> [step : {"idle", "read", "unban", "mint",
                                   "checked", "banning"},
                           token : Tokens \union {0}, saw : Account]]

Init == /\ account = [active |-> TRUE, ban |-> "none"]
        /\ banned = FALSE /\ blacklist = {} /\ issued = 0
        /\ ending = {} /\ expired = {}
        /\ exchanged = [t \in Tokens |-> 0]
        /\ bans = 0 /\ parted = FALSE /\ call = [c \in Calls |-> Idle]

Goto(c, step, token) ==
    call' = [call EXCEPT ![c] = [step |-> step, token |-> token,
                                 saw |-> account]]
Done(c) == call' = [call EXCEPT ![c] = Idle]

\* A token that the middleware and the refresh endpoint accept.
Live(t) == t \in 1..issued /\ t \notin blacklist \union expired

-----------------------------------------------------------------------------
(* logins.                                                                 *)

\* Mutant: the account is made active without a look at its ban.
LoginRefusesNobody(c) ==
    /\ call[c].step = "idle"
    /\ Goto(c, "read", 0)
    /\ UNCHANGED <<account, redis, issue, life, marks>>

\* The account is read without a lock.  A ban that is not over refuses, and
\* so does a deactivation older than three months.
LoginRead(c) ==
    /\ call[c].step = "idle" /\ account.ban \in {"none", "over"}
    /\ Goto(c, "read", 0)
    /\ UNCHANGED <<account, redis, issue, life, marks>>

Lifts(c) == call[c].step = "read" /\ call[c].saw.ban = "over"

\* The columns that differ from what was read are written: a login that lifts
\* a ban also lifts one that was committed since, unless that is indefinite;
\* the schema's check of the ban columns then refuses the mixture.
LoginLift(c) ==
    /\ Lifts(c) /\ account.ban # "indefinite"
    /\ account' = [active |-> account.active \/ ~call[c].saw.active,
                   ban |-> "none"]
    /\ parted' = (parted \/ \E b \in Calls : call[b].step = "banning")
    /\ call' = [call EXCEPT ![c].step = "unban"]
    /\ UNCHANGED <<redis, issue, life, bans>>

LoginRefused(c) ==
    /\ Lifts(c) /\ account.ban = "indefinite"
    /\ Done(c)
    /\ UNCHANGED <<account, redis, issue, life, marks>>

LoginCommit(c) ==
    /\ call[c].step = "read" /\ ~Lifts(c)
    /\ account' = [account EXCEPT !.active = @ \/ ~call[c].saw.active]
    /\ call' = [call EXCEPT ![c].step = "mint"]
    /\ UNCHANGED <<redis, issue, life, marks>>

\* A failure of Redis is logged and the login goes on.
LoginUnban(c) ==
    /\ call[c].step = "unban"
    /\ \/ banned' = FALSE /\ UNCHANGED parted
       \/ RedisFails /\ parted' = TRUE /\ UNCHANGED banned
    /\ call' = [call EXCEPT ![c].step = "mint"]
    /\ UNCHANGED <<account, blacklist, issue, life, bans>>

LoginMint(c) ==
    /\ call[c].step = "mint" /\ issued < MaxTokens
    /\ issued' = issued + 1
    /\ Done(c)
    /\ UNCHANGED <<account, redis, exchanged, life, marks>>

-----------------------------------------------------------------------------
(* refresh_token and logout.                                               *)

RefreshCheck(c, t) ==
    /\ call[c].step = "idle" /\ Live(t) /\ ~banned
    /\ Goto(c, "checked", t)
    /\ UNCHANGED <<account, redis, issue, life, marks>>

\* The old token is revoked for the seconds left until its exp, and not at all
\* when there is none; the write does not say whether it was revoked already.
Revoked(t) == IF t \in ending THEN blacklist ELSE blacklist \union {t}

RefreshRotate(c) ==
    /\ call[c].step = "checked" /\ issued < MaxTokens
    /\ blacklist' = Revoked(call[c].token)
    /\ issued' = issued + 1
    /\ exchanged' = [exchanged EXCEPT ![call[c].token] = @ + 1]
    /\ Done(c)
    /\ UNCHANGED <<account, banned, life, marks>>

\* Redis does not answer, before the entry is written or after: no token is
\* given out.
RefreshFails(c) ==
    /\ RedisFails /\ call[c].step = "checked"
    /\ blacklist' \in {blacklist, Revoked(call[c].token)}
    /\ Done(c)
    /\ UNCHANGED <<account, banned, issue, life, marks>>

\* The middleware lets through a user who is neither banned nor logged out.
Logout(c, t) ==
    /\ call[c].step = "idle" /\ Live(t) /\ ~banned
    /\ blacklist' = Revoked(t)
    /\ UNCHANGED <<account, banned, issue, life, marks, call>>

-----------------------------------------------------------------------------
(* Time.  A token is accepted while the whole second is not past its exp,  *)
(* that is up to a second longer; the entry on the blacklist was given the *)
(* whole seconds that were left to its exp, so that it ends within that    *)
(* second.                                                                 *)

LastSecond(t) ==
    /\ t \in (1..issued) \ ending
    /\ ending' = ending \union {t}
    /\ UNCHANGED <<account, redis, issue, expired, marks, call>>

\* Mutant: the entry may end before the token's exp.
EntryEndsEarly(t) ==
    /\ t \in blacklist
    /\ blacklist' = blacklist \ {t}
    /\ UNCHANGED <<account, banned, issue, life, marks, call>>

EntryEnds(t) ==
    /\ t \in ending \intersect blacklist
    /\ blacklist' = blacklist \ {t}
    /\ UNCHANGED <<account, banned, issue, life, marks, call>>

\* An entry that is still there no longer matters.
Expire(t) ==
    /\ t \in ending \ expired
    /\ expired' = expired \union {t} /\ blacklist' = blacklist \ {t}
    /\ UNCHANGED <<account, banned, issue, ending, marks, call>>

-----------------------------------------------------------------------------
(* profile_service.                                                        *)

\* The refresh token is only deleted from the browser that asked.
DeactivateProfile(c, t) ==
    /\ call[c].step = "idle" /\ Live(t) /\ ~banned /\ account.active
    /\ account' = [account EXCEPT !.active = FALSE]
    /\ UNCHANGED <<redis, issue, life, marks, call>>

\* The schema's check refuses a period on top of an indefinite ban.
BanProfile(c, kind) ==
    /\ call[c].step = "idle" /\ bans < MaxBans
    /\ account.ban = "indefinite" => kind = "indefinite"
    /\ account' = [active |-> FALSE, ban |-> kind]
    /\ bans' = bans + 1
    /\ parted' = (parted \/ \E d \in Calls : call[d].step = "unban")
    /\ Goto(c, "banning", 0)
    /\ UNCHANGED <<redis, issue, life>>

\* A failure of Redis is logged and the ban stays.
BanInRedis(c) ==
    /\ call[c].step = "banning"
    /\ \/ banned' = TRUE /\ UNCHANGED parted
       \/ RedisFails /\ parted' = TRUE /\ UNCHANGED banned
    /\ Done(c)
    /\ UNCHANGED <<account, blacklist, issue, life, bans>>

\* The period of a ban passes.
BanLapses ==
    /\ account.ban = "timed"
    /\ account' = [account EXCEPT !.ban = "over"]
    /\ UNCHANGED <<redis, issue, life, marks, call>>

-----------------------------------------------------------------------------
Next == \/ \E c \in Calls :
              \/ LoginRead(c) \/ LoginLift(c) \/ LoginRefused(c)
              \/ LoginCommit(c) \/ LoginUnban(c) \/ LoginMint(c)
              \/ RefreshRotate(c) \/ RefreshFails(c) \/ BanInRedis(c)
              \/ \E t \in Tokens : RefreshCheck(c, t) \/ Logout(c, t)
                                      \/ DeactivateProfile(c, t)
              \/ \E kind \in {"timed", "indefinite"} : BanProfile(c, kind)
        \/ \E t \in Tokens : LastSecond(t) \/ EntryEnds(t) \/ Expire(t)
        \/ BanLapses

Spec == Init /\ [][Next]_vars

-----------------------------------------------------------------------------
\* A refresh token is exchanged for at most one other, however often and
\* whenever it is presented (README.md, Refresh Token Rotation; auth_service.py,
\* refresh_token).  The code does not keep this in the token's last second.
ExchangedOnce == \A t \in Tokens : exchanged[t] <= 1

\* Until its last second a refresh token is exchanged for at most one other by
\* requests that do not overlap (auth_service.py, refresh_token).
ExchangedOnceInTime == \A t \in Tokens \ ending : exchanged[t] <= 1

\* Redis bans exactly those whom the database bans, over any overlap of bans,
\* logins and lapses, as soon as both writes of each ban and of each lifting
\* are done, unless a write to Redis was lost or one of them came between the
\* two writes of the other (profile_service.py, ban_profile; auth_service.py,
\* logins).
BanAgrees ==
    (~parted /\ \A c \in Calls : call[c].step \notin {"banning", "unban"})
        => (banned <=> account.ban # "none")

\* A request that begins while a ban is in force, in the database and in Redis,
\* is given no token, whichever of the two handlers it asks; with the same
\* exceptions (auth_service.py, logins and refresh_token).
NoTokenUnderBan ==
    [][\A c \in Calls :
          (/\ call[c].step = "idle" /\ call'[c].step \in {"read", "checked"}
           /\ ~parted /\ \A b \in Calls : call[b].step # "banning")
          => account.ban \in {"none", "over"}]_vars

\* A token that was rotated or logged out is not accepted again before its last
\* second, and never once that is over (auth_service.py, refresh_token and
\* logout; the last second is a gap in the code).
DeadStaysDead ==
    [][\A t \in 1..issued :
          (~Live(t) /\ t \notin ending) \/ t \in expired => ~Live(t)']_vars
=============================================================================
