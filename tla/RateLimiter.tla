---------------------------- MODULE RateLimiter ----------------------------
(***************************************************************************)
(* The two request counters of one client address                          *)
(* (apps/server/app/middleware/rate_limit.py): where they are kept, how a  *)
(* request is counted, and what happens when Redis does not answer.        *)
(*                                                                         *)
(* Redis runs the increment and the arming of the expiry as one script, so *)
(* counting a request in one bucket is one step; a request that counts     *)
(* against both buckets takes two, and other requests fit between them.    *)
(* Counting in the process's memory never awaits, so both buckets are one  *)
(* step.  Time is in ticks.  A count is kept up to its limit, where more   *)
(* makes no difference.                                                    *)
(***************************************************************************)
EXTENDS Naturals

CONSTANTS
    GlobalLimit,  \* GLOBAL_REQUEST_LIMIT
    AuthLimit,    \* AUTH_REQUEST_LIMIT
    Window        \* RATE_LIMIT_WINDOW_SECONDS

ASSUME LimiterAssumption ==
    GlobalLimit \in Nat \ {0} /\ AuthLimit \in Nat \ {0} /\ Window \in Nat \ {0}

VARIABLES
    server,       \* how the server is set up: isDeployed (staging or production), hasRedisUrl
    redis,        \* each bucket's key in Redis: its count and the ticks to its expiry
    memory,       \* each bucket's entry in in_memory_windows: its count and its age
    credentials   \* auth requests let through in the open window of each counter, and uncounted

limiterVars == <<server, redis, memory, credentials>>

Buckets == {"global", "auth"}

Limit(b) == IF b = "global" THEN GlobalLimit ELSE AuthLimit

NoKey == [count |-> 0, ttl |-> 0]
NoEntry == [count |-> 0, age |-> 0]

LimiterTypeOK ==
    /\ redis \in [Buckets -> [count : Nat, ttl : 0..Window]]
    /\ memory \in [Buckets -> [count : Nat, age : 0..Window]]
    /\ credentials \in [{"redis", "memory", "uncounted"} -> Nat]

LimiterInit ==
    /\ redis = [b \in Buckets |-> NoKey]
    /\ memory = [b \in Buckets |-> NoEntry]
    /\ credentials = [c \in {"redis", "memory", "uncounted"} |-> 0]

----------------------------------------------------------------------------
(* Counting. *)

\* One more, up to the bucket's limit.
Bump(b, count) == IF count >= Limit(b) THEN count ELSE count + 1

\* Mutant: every increment arms the expiry anew, so the window slides.
IncrementAndRearm(b) ==
    redis' = [redis EXCEPT ![b] = [count |-> Bump(b, @.count), ttl |-> Window]]

\* INCREMENT_WITHIN_WINDOW: count, and arm the expiry of a key that has none.
Increment(b) ==
    redis' = [redis EXCEPT ![b] = [count |-> Bump(b, @.count),
                                   ttl |-> IF @.ttl = 0 THEN Window ELSE @.ttl]]

IsExceeded(b) == redis[b].count >= Limit(b)

\* forget_expired_windows, for an address whose buckets are these two.
Remembered(b) == IF memory[b].age >= Window THEN NoEntry ELSE memory[b]

CountedInMemory(b) == [Remembered(b) EXCEPT !.count = Bump(b, @)]

IsExceededInMemory(b) == Remembered(b).count >= Limit(b)

\* Whether a request of these buckets is refused by a fresh count of each: global first, and the
\* auth bucket is not counted when the global one is exceeded.
IsRefusedFromMemory(bs) == \E b \in bs : IsExceededInMemory(b)

CountInMemory(bs) ==
    memory' = [b \in Buckets |->
                 IF b \in bs /\ (b = "global" \/ ~IsExceededInMemory("global"))
                 THEN CountedInMemory(b) ELSE Remembered(b)]

\* An auth request is let through by a counter; an entry of the process just begun starts over.
LetThrough(counter) ==
    credentials' = [credentials EXCEPT ![counter] =
                      IF counter = "memory" /\ Remembered("auth").count = 0 THEN 1
                      ELSE IF @ > AuthLimit THEN @ ELSE @ + 1]

----------------------------------------------------------------------------
(* Time: keys expire in Redis, entries only grow old. *)

LimiterTick ==
    /\ redis' = [b \in Buckets |->
                   IF redis[b].ttl <= 1 THEN NoKey ELSE [redis[b] EXCEPT !.ttl = @ - 1]]
    /\ memory' = [b \in Buckets |->
                   IF memory[b].count = 0 \/ memory[b].age >= Window
                   THEN memory[b] ELSE [memory[b] EXCEPT !.age = @ + 1]]
    /\ credentials' = IF redis["auth"].ttl = 1
                      THEN [credentials EXCEPT !["redis"] = 0] ELSE credentials
    /\ UNCHANGED server
============================================================================
