------------------------- MODULE BkashClientProofs -------------------------
(***************************************************************************)
(* Any number of calls and of tokens, any life of a token: bKash acts on a *)
(* call once at most, the answer tells whether it did, and the cache hands *)
(* out no expired token whose answer came within the margin.               *)
(***************************************************************************)
EXTENDS BkashClient, FiniteSetTheorems, TLAPS

Before == {"new", "grant", "granted", "send", "rejected", "refused"}
After == {"acted", "answered"}

\* What bKash has done of a call, by the step the call is at.
Account(step, n) ==
    /\ step \in Before \cup After \cup {"failed"}
    /\ step \in Before => n = 0
    /\ step \in After => n = 1
    /\ step = "failed" => n \in {0, 1}

IInv ==
    /\ DOMAIN call = Calls
    /\ done \in [Calls -> Nat]
    /\ \A c \in Calls : Account(call[c].step, done[c])

\* A call that moves on without bKash: the others are where they were.
LEMMA MovesOn ==
    ASSUME IInv, NEW c \in Calls, NEW to, Go(c, to), UNCHANGED done,
           Account(to.step, done[c])
    PROVE  IInv'
<1>1. DOMAIN call' = Calls
  BY DEF IInv, Go
<1>2. done' \in [Calls -> Nat]
  BY DEF IInv
<1>3. \A d \in Calls : Account(call'[d].step, done'[d])
  <2> TAKE d \in Calls
  <2>1. CASE d = c
    BY <2>1 DEF IInv, Go
  <2>2. CASE d # c
    BY <2>2 DEF IInv, Go
  <2> QED BY <2>1, <2>2
<1> QED BY <1>1, <1>2, <1>3 DEF IInv

LEMMA InitIInv == Init => IInv
<1> SUFFICES ASSUME Init PROVE IInv
  OBVIOUS
<1>1. DOMAIN call = Calls /\ done \in [Calls -> Nat]
  BY DEF Init
<1>2. \A c \in Calls : call[c].step = "new" /\ done[c] = 0
  BY DEF Init
<1>3. \A c \in Calls : Account(call[c].step, done[c])
  BY <1>2 DEF Account, Before, After
<1> QED BY <1>1, <1>3 DEF IInv

\* Every action moves one call on, and only Acts touches what bKash has done.
LEMMA NextIInv == IInv /\ [Next]_vars => IInv'
<1> SUFFICES ASSUME IInv, [Next]_vars PROVE IInv'
  OBVIOUS
<1>0. \A c \in Calls : Account(call[c].step, done[c])
  BY DEF IInv
<1>1. ASSUME NEW c \in Calls, post(c) PROVE IInv'
  <2> DEFINE to == IF Cached THEN Holding(c, "send", token.id) ELSE At(c, "grant")
  <2>1. Go(c, to) /\ UNCHANGED done
    BY <1>1 DEF post
  <2>2. Account(to.step, done[c])
    BY <1>0, <1>1 DEF post, Account, Before, After, Holding, At
  <2> HIDE DEF to
  <2> QED BY <2>1, <2>2, MovesOn
<1>2. ASSUME NEW c \in Calls, Grants(c) PROVE IInv'
  <2> DEFINE to == Holding(c, "granted", Cardinality(Tokens) + 1)
  <2>1. Go(c, to) /\ UNCHANGED done
    BY <1>2 DEF Grants
  <2>2. Account(to.step, done[c])
    BY <1>0, <1>2 DEF Grants, Account, Before, After, Holding
  <2> HIDE DEF to
  <2> QED BY <2>1, <2>2, MovesOn
<1>3. ASSUME NEW c \in Calls, getToken(c) PROVE IInv'
  <2> DEFINE to == Holding(c, "send", call[c].with)
  <2>1. Go(c, to) /\ UNCHANGED done
    BY <1>3 DEF getToken
  <2>2. Account(to.step, done[c])
    BY <1>0, <1>3 DEF getToken, Account, Before, After, Holding
  <2> HIDE DEF to
  <2> QED BY <2>1, <2>2, MovesOn
<1>4. ASSUME NEW c \in Calls, GrantFails(c) \/ IsLost(c) PROVE IInv'
  <2> DEFINE to == At(c, "failed")
  <2>1. Go(c, to) /\ UNCHANGED done
    BY <1>4 DEF GrantFails, IsLost
  <2>2. Account(to.step, done[c])
    BY <1>0, <1>4 DEF GrantFails, IsLost, Account, Before, After, At
  <2> HIDE DEF to
  <2> QED BY <2>1, <2>2, MovesOn
<1>5. ASSUME NEW c \in Calls, Acts(c) PROVE IInv'
  <2>1. CASE Accepted(call[c].with)
    <3>1. done' = [done EXCEPT ![c] = @ + 1] /\ Go(c, Holding(c, "acted", call[c].with))
      BY <1>5, <2>1 DEF Acts
    <3>2. done[c] = 0
      BY <1>0, <1>5 DEF Acts, Account, Before
    <3>3. DOMAIN call' = Calls /\ done' \in [Calls -> Nat]
      BY <3>1 DEF IInv, Go
    <3>4. call'[c].step = "acted" /\ done'[c] = 1
      BY <3>1, <3>2 DEF IInv, Go, Holding
    <3>5. Account(call'[c].step, done'[c])
      BY <3>4 DEF Account, Before, After
    <3>6. \A d \in Calls : d # c => call'[d] = call[d] /\ done'[d] = done[d]
      BY <3>1 DEF IInv, Go
    <3> QED BY <1>0, <3>3, <3>5, <3>6 DEF IInv
  <2>2. CASE ~Accepted(call[c].with)
    <3> DEFINE to == Holding(c, "rejected", call[c].with)
    <3>1. Go(c, to) /\ UNCHANGED done
      BY <1>5, <2>2 DEF Acts
    <3>2. Account(to.step, done[c])
      BY <1>0, <1>5 DEF Acts, Account, Before, After, Holding
    <3> HIDE DEF to
    <3> QED BY <3>1, <3>2, MovesOn
  <2> QED BY <2>1, <2>2
<1>6. ASSUME NEW c \in Calls, Returns(c) PROVE IInv'
  <2> DEFINE to == At(c, "answered")
  <2>1. Go(c, to) /\ UNCHANGED done
    BY <1>6 DEF Returns
  <2>2. Account(to.step, done[c])
    BY <1>0, <1>6 DEF Returns, Account, Before, After, At
  <2> HIDE DEF to
  <2> QED BY <2>1, <2>2, MovesOn
<1>7. ASSUME NEW c \in Calls, Retry(c) PROVE IInv'
  <2> DEFINE to == [step |-> "grant", retried |-> TRUE, with |-> NULL]
  <2>1. Go(c, to) /\ UNCHANGED done
    BY <1>7 DEF Retry
  <2>2. Account(to.step, done[c])
    BY <1>0, <1>7 DEF Retry, Retries, Account, Before, After
  <2> HIDE DEF to
  <2> QED BY <2>1, <2>2, MovesOn
<1>8. ASSUME NEW c \in Calls, Refused(c) PROVE IInv'
  <2> DEFINE to == At(c, "refused")
  <2>1. Go(c, to) /\ UNCHANGED done
    BY <1>8 DEF Refused
  <2>2. Account(to.step, done[c])
    BY <1>0, <1>8 DEF Refused, Account, Before, After, At
  <2> HIDE DEF to
  <2> QED BY <2>1, <2>2, MovesOn
<1>9. ASSUME UNCHANGED <<call, done>> PROVE IInv'
  BY <1>9 DEF IInv
<1>10. CASE Tick \/ (\E t \in 1..MaxGrants : Withdraw(t)) \/ UNCHANGED vars
  BY <1>9, <1>10 DEF Tick, Withdraw, vars
<1> QED BY <1>1, <1>2, <1>3, <1>4, <1>5, <1>6, <1>7, <1>8, <1>10 DEF Next

\* What is known of every call at every step says both properties.
LEMMA IInvImplies == IInv => ActedOnce /\ AnswersAreTrue
<1> SUFFICES ASSUME IInv, NEW c \in Calls
             PROVE  /\ done[c] <= 1
                    /\ call[c].step = "answered" => done[c] = 1
                    /\ call[c].step = "refused" => done[c] = 0
  BY DEF ActedOnce, AnswersAreTrue
<1>1. Account(call[c].step, done[c])
  BY DEF IInv
<1> QED BY <1>1 DEF Account, Before, After

\* However many calls share the token, bKash acts on none of them twice.
THEOREM NeverTwice == Spec => []ActedOnce
<1>1. Init => IInv
  BY InitIInv
<1>2. IInv /\ [Next]_vars => IInv'
  BY NextIInv
<1>3. IInv => ActedOnce
  BY IInvImplies
<1> QED BY <1>1, <1>2, <1>3, PTL DEF Spec

\* What a call returns is what bKash did.
THEOREM TrueAnswers == Spec => []AnswersAreTrue
<1>1. Init => IInv
  BY InitIInv
<1>2. IInv /\ [Next]_vars => IInv'
  BY NextIInv
<1>3. IInv => AnswersAreTrue
  BY IInvImplies
<1> QED BY <1>1, <1>2, <1>3, PTL DEF Spec

----------------------------------------------------------------------------
(* The cache *)

\* Token t has more to live than left, unless bKash has withdrawn it.
Lasts(t, left) == t \in Tokens /\ (life[t] = -1 \/ life[t] >= left)

\* What a call was granted is a token, and the cached one lasts as long as the cache
\* says, if its answer was no later than the margin.
TokenInv ==
    /\ DOMAIN call = Calls
    /\ \E n \in Nat : life \in [1..n -> Int]
    /\ token = NULL \/ token \in [id : Nat, left : Int, late : Int]
    /\ \A c \in Calls : call[c].step = "granted" => call[c].with \in Tokens
    /\ token # NULL =>
          /\ token.id \in Tokens
          /\ token.late <= Margin => Lasts(token.id, token.left)

\* A call that goes on with the tokens as they are.
LEMMA TokensStay ==
    ASSUME TokenInv, NEW c \in Calls, NEW to, Go(c, to), to.step # "granted",
           UNCHANGED <<life, token>>
    PROVE  TokenInv'
<1> USE DEF Tokens
<1>1. DOMAIN call' = Calls /\ \A d \in Calls : call'[d] = IF d = c THEN to ELSE call[d]
  BY DEF TokenInv, Go
<1>2. \A d \in Calls : call'[d].step = "granted" => d # c
  BY <1>1
<1> QED BY <1>1, <1>2 DEF TokenInv, Lasts

\* A new token has the next number, and the others what they had.
LEMMA GrantKeeps ==
    ASSUME TokenInv, NEW c \in Calls, Grants(c)
    PROVE  TokenInv'
<1> USE BkashClientAssumption DEF Tokens
<1> DEFINE t == Cardinality(Tokens) + 1
           to == Holding(c, "granted", t)
<1>1. PICK n \in Nat : life \in [1..n -> Int]
  BY DEF TokenInv
<1>2. Tokens = 1..n
  BY <1>1
<1>3. t = n + 1
  BY <1>2, FS_Interval
<1>4. life' = [u \in Tokens \cup {t} |-> IF u = t THEN ExpiresIn ELSE life[u]]
  BY DEF Grants
<1>5. Tokens \cup {t} = 1..(n + 1)
  BY <1>2, <1>3
<1>6. /\ life' \in [1..(n + 1) -> Int]
      /\ Tokens' = 1..(n + 1)
      /\ \A u \in Tokens : life'[u] = life[u]
  BY <1>1, <1>2, <1>3, <1>4, <1>5
<1>7. /\ DOMAIN call' = Calls
      /\ \A d \in Calls : call'[d] = IF d = c THEN to ELSE call[d]
  BY DEF TokenInv, Grants, Go
<1>8. \A d \in Calls : call'[d].step = "granted" => call'[d].with \in Tokens'
  BY <1>2, <1>3, <1>6, <1>7 DEF TokenInv, Holding
<1>9. UNCHANGED token
  BY DEF Grants
<1>10. token # NULL =>
          /\ token.id \in Tokens'
          /\ token.late <= Margin => Lasts(token.id, token.left)'
  BY <1>2, <1>6, <1>9 DEF TokenInv, Lasts
<1> QED BY <1>6, <1>7, <1>8, <1>9, <1>10 DEF TokenInv

\* The answer to a grant is cached: whichever of two comes last, it has what was left.
LEMMA GetTokenKeeps ==
    ASSUME TokenInv, NEW c \in Calls, getToken(c)
    PROVE  TokenInv'
<1> USE BkashClientAssumption DEF Tokens
<1> DEFINE to == Holding(c, "send", call[c].with)
           late == ExpiresIn - life[call[c].with]
<1>1. PICK n \in Nat : life \in [1..n -> Int]
  BY DEF TokenInv
<1>2. call[c].with \in 1..n
  BY <1>1 DEF getToken, TokenInv
<1>3. /\ UNCHANGED life
      /\ token' = [id |-> call[c].with, left |-> ttlMs, late |-> late]
      /\ Go(c, to)
  BY DEF getToken
<1>4. life[call[c].with] \in Int /\ late \in Int /\ ttlMs \in Int
  BY <1>1, <1>2 DEF ttlMs
<1>5. late <= Margin => life[call[c].with] >= ttlMs
  BY <1>4 DEF ttlMs
<1>6. token' \in [id : Nat, left : Int, late : Int]
  BY <1>2, <1>3, <1>4
<1>7. token'.id \in Tokens' /\ (token'.late <= Margin => Lasts(token.id, token.left)')
  BY <1>1, <1>2, <1>3, <1>5 DEF Lasts
<1>8. to.step # "granted"
  BY DEF Holding
<1>9. /\ DOMAIN call' = Calls
      /\ \A d \in Calls : call'[d] = IF d = c THEN to ELSE call[d]
  BY <1>3 DEF TokenInv, Go
<1> HIDE DEF to
<1>10. \A d \in Calls : call'[d].step = "granted" => call'[d].with \in Tokens'
  BY <1>3, <1>8, <1>9 DEF TokenInv
<1> QED BY <1>1, <1>3, <1>6, <1>7, <1>9, <1>10 DEF TokenInv

\* Time takes as much from the cache as from the token.
LEMMA TickKeeps ==
    ASSUME TokenInv, Tick
    PROVE  TokenInv'
<1> USE BkashClientAssumption DEF Tokens
<1>1. PICK n \in Nat : life \in [1..n -> Int]
  BY DEF TokenInv
<1>2. /\ life' \in [1..n -> Int] /\ Tokens = 1..n
      /\ \A t \in Tokens : life'[t] = IF life[t] > 0 THEN life[t] - 1 ELSE life[t]
  BY <1>1 DEF Tick
<1>3. UNCHANGED call
  BY DEF Tick
<1>4. ASSUME token # NULL
      PROVE  /\ token' \in [id : Nat, left : Int, late : Int]
             /\ token'.id \in Tokens'
             /\ token'.late <= Margin => Lasts(token.id, token.left)'
  <2>1. token \in [id : Nat, left : Int, late : Int] /\ token.id \in 1..n
    BY <1>2, <1>4 DEF TokenInv
  <2>2. token' = IF token.left > 0 THEN [token EXCEPT !.left = @ - 1] ELSE token
    BY <1>4 DEF Tick, Cached
  <2>3. /\ token' \in [id : Nat, left : Int, late : Int]
        /\ token'.id = token.id /\ token'.late = token.late
        /\ token'.left = IF token.left > 0 THEN token.left - 1 ELSE token.left
    BY <2>1, <2>2
  <2>4. ASSUME token.late <= Margin PROVE Lasts(token.id, token.left)'
    <3>1. life[token.id] = -1 \/ life[token.id] >= token.left
      BY <1>4, <2>4 DEF TokenInv, Lasts
    <3>2. life[token.id] \in Int /\ token.left \in Int
      BY <1>1, <2>1
    <3>3. life'[token.id] = -1 \/ life'[token.id] >= token'.left
      BY <1>2, <2>1, <2>3, <3>1, <3>2
    <3> QED BY <1>2, <2>1, <2>3, <3>3 DEF Lasts
  <2> QED BY <1>2, <2>1, <2>3, <2>4
<1>5. token = NULL => token' = NULL
  BY DEF Tick, Cached
<1> QED BY <1>1, <1>2, <1>3, <1>4, <1>5 DEF TokenInv

LEMMA WithdrawKeeps ==
    ASSUME TokenInv, NEW t \in 1..MaxGrants, Withdraw(t)
    PROVE  TokenInv'
<1> USE BkashClientAssumption DEF Tokens
<1>1. PICK n \in Nat : life \in [1..n -> Int]
  BY DEF TokenInv
<1>2. /\ life' \in [1..n -> Int] /\ Tokens = 1..n
      /\ \A u \in Tokens : life'[u] = life[u] \/ life'[u] = -1
  BY <1>1 DEF Withdraw
<1> QED BY <1>1, <1>2 DEF Withdraw, TokenInv, Lasts

\* Every other action leaves the tokens alone.
LEMMA NextTokenInv == TokenInv /\ [Next]_vars => TokenInv'
<1> SUFFICES ASSUME TokenInv, [Next]_vars PROVE TokenInv'
  OBVIOUS
<1>1. ASSUME NEW c \in Calls, post(c) PROVE TokenInv'
  <2> DEFINE to == IF Cached THEN Holding(c, "send", token.id) ELSE At(c, "grant")
  <2>1. to.step # "granted" /\ Go(c, to) /\ UNCHANGED <<life, token>>
    BY <1>1 DEF post, Holding, At
  <2> HIDE DEF to
  <2> QED BY <2>1, TokensStay
<1>2. ASSUME NEW c \in Calls,
             GrantFails(c) \/ Acts(c) \/ Returns(c) \/ IsLost(c) \/ Retry(c) \/ Refused(c)
      PROVE  TokenInv'
  <2>1. UNCHANGED <<life, token>>
    BY <1>2 DEF GrantFails, Acts, Returns, IsLost, Retry, Refused
  <2>2. \/ \E step \in {"failed", "answered", "refused"} : Go(c, At(c, step))
        \/ \E step \in {"acted", "rejected"} : Go(c, Holding(c, step, call[c].with))
        \/ Go(c, [step |-> "grant", retried |-> TRUE, with |-> NULL])
    BY <1>2 DEF GrantFails, Acts, Returns, IsLost, Retry, Refused
  <2>3. ASSUME NEW step \in {"failed", "answered", "refused"}, Go(c, At(c, step)) PROVE TokenInv'
    <3>1. At(c, step).step # "granted"
      BY DEF At
    <3> QED BY <2>1, <2>3, <3>1, TokensStay
  <2>4. ASSUME NEW step \in {"acted", "rejected"}, Go(c, Holding(c, step, call[c].with))
        PROVE  TokenInv'
    <3>1. Holding(c, step, call[c].with).step # "granted"
      BY DEF Holding
    <3> QED BY <2>1, <2>4, <3>1, TokensStay
  <2>5. CASE Go(c, [step |-> "grant", retried |-> TRUE, with |-> NULL])
    <3>1. [step |-> "grant", retried |-> TRUE, with |-> NULL].step # "granted"
      OBVIOUS
    <3> QED BY <2>1, <2>5, <3>1, TokensStay
  <2> QED BY <2>2, <2>3, <2>4, <2>5
<1>3. CASE UNCHANGED vars
  BY <1>3 DEF vars, TokenInv, Lasts, Tokens
<1> QED BY <1>1, <1>2, <1>3, GrantKeeps, GetTokenKeeps, TickKeeps, WithdrawKeeps DEF Next

\* A token from the cache whose own answer was no later than the margin has not
\* expired, in whatever order the answers of the grants arrive and however late those of
\* others are.
THEOREM CacheIsFresh == Spec => []CachedIsAccepted
<1>1. Init => TokenInv
  <2> SUFFICES ASSUME Init PROVE TokenInv
    OBVIOUS
  <2>1. life \in [1..0 -> Int]
    BY DEF Init
  <2>2. \A c \in Calls : call[c].step # "granted"
    BY DEF Init
  <2> QED BY <2>1, <2>2 DEF Init, TokenInv
<1>2. TokenInv /\ [Next]_vars => TokenInv'
  BY NextTokenInv
<1>3. TokenInv => CachedIsAccepted
  <2> SUFFICES ASSUME TokenInv, Cached, token.late <= Margin PROVE life[token.id] # 0
    BY DEF CachedIsAccepted
  <2>1. /\ Lasts(token.id, token.left) /\ token.left > 0
        /\ \E n \in Nat : life \in [1..n -> Int]
        /\ token.left \in Int
    BY DEF TokenInv, Cached
  <2> QED BY <2>1 DEF Lasts, Tokens
<1> QED BY <1>1, <1>2, <1>3, PTL DEF Spec
=============================================================================
