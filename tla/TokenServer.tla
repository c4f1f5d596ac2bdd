---------------------------- MODULE TokenServer ----------------------------
(***************************************************************************)
(* The memory-cloud OAuth endpoints as src/src/auth/ relies on them, and   *)
(* the clock its expiry tests read.  Not part of the repository: refresh   *)
(* tokens work once (credentials.ts:1072), and a server may also keep the  *)
(* one it was sent by omitting it from its answer (credentials.ts:1229).   *)
(*                                                                         *)
(* Grant number g stands for the access token and the refresh token issued *)
(* together; 0 is the empty string.                                        *)
(***************************************************************************)
EXTENDS Naturals

CONSTANTS
    MaxGrants,      \* bound: grants the server issues in a behaviour
    MaxAgeings,     \* bound: times an access token is seen to age
    FirstGrants,    \* grants issued before the behaviour starts
    MayKeepRefresh, \* the server may not rotate a refresh token
    MayOmitRefresh  \* the server may grant a login no refresh token

ASSUME TokenServerAssumption ==
    /\ MaxGrants \in Nat /\ MaxAgeings \in Nat /\ FirstGrants \in 0..MaxGrants
    /\ MayKeepRefresh \in BOOLEAN /\ MayOmitRefresh \in BOOLEAN

VARIABLES
    granted,    \* grants issued so far
    live,       \* refresh tokens the server honours
    age,        \* of each access token, against REFRESH_SKEW_SEC and expires_at
    ageings

serverVars == <<granted, live, age, ageings>>

Token == 0..MaxGrants
Creds == [acc : Token, ref : Token]
NoCreds == [acc |-> 0, ref |-> 0]   \* null
Ages == {"fresh", "skewed", "expired"}

ServerTypeOK ==
    /\ granted \in Token
    /\ live \subseteq Token \ {0}
    /\ age \in [Token -> Ages]
    /\ ageings \in Nat

ServerInit ==
    /\ granted = FirstGrants
    /\ live = 1..FirstGrants
    /\ age = [g \in Token |-> "fresh"]
    /\ ageings = 0

(* isExpired, with the skew and without. *)
Skewed(acc) == age[acc] # "fresh"
Expired(acc) == age[acc] = "expired"

CanGrant == granted < MaxGrants

New == [acc |-> granted + 1, ref |-> granted + 1]

(* What the device flow may end in. *)
LoginAnswers == {New} \cup (IF MayOmitRefresh THEN {[New EXCEPT !.ref = 0]} ELSE {})

Grant(creds) ==
    /\ CanGrant
    /\ granted' = granted + 1
    /\ live' = live \cup ({creds.ref} \ {0})
    /\ UNCHANGED <<age, ageings>>

(* What a refresh may answer: a new pair, or a new access token alone.      *)
RefreshAnswers ==
    {New} \cup (IF MayKeepRefresh THEN {[New EXCEPT !.ref = 0]} ELSE {})

(* A refresh token is used up unless the server keeps it.                  *)
Rotate(ref, creds) ==
    /\ CanGrant
    /\ ref \in live
    /\ granted' = granted + 1
    /\ live' = IF creds.ref = 0 THEN live ELSE (live \ {ref}) \cup {creds.ref}
    /\ UNCHANGED <<age, ageings>>

Revoke(refs) ==
    /\ live' = live \ refs
    /\ UNCHANGED <<granted, age, ageings>>

(* Wall-clock time passes an access token's skew window, then its expiry. *)
Age(acc) ==
    /\ acc \in 1..granted
    /\ age[acc] # "expired"
    /\ ageings < MaxAgeings
    /\ ageings' = ageings + 1
    /\ age' = [age EXCEPT ![acc] = IF @ = "fresh" THEN "skewed" ELSE "expired"]
    /\ UNCHANGED <<granted, live>>
=============================================================================
