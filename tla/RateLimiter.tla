---------------------------- MODULE RateLimiter ----------------------------
(***************************************************************************)
(* The limiter of attempts: a window that slides over the attempts of a    *)
(* key, in the memory of the process.                                      *)
(*                                                                         *)
(* Source: core/rate_limit.py and the dependencies of api/deps.py that     *)
(* call it.  A key is a route with an address.                             *)
(*                                                                         *)
(* The routes run in a pool of threads.  A call reads the clock, and takes *)
(* the lock in a later step: other threads, and the clock, may go on in    *)
(* between.  All that happens under the lock is one step.                  *)
(***************************************************************************)
EXTENDS Naturals, Sequences, FiniteSets

CONSTANTS
  Threads,
  Keys,
  MaxAttempts,    \* key -> attempts admitted in a window
  Window,         \* key -> length of its window, in ticks
  MaxTime         \* bound of the model, not of the code

ASSUME LimiterAssumption ==
  MaxAttempts \in [Keys -> Nat] /\ Window \in [Keys -> Nat] /\ MaxTime \in Nat

VARIABLES
  clock,      \* time.monotonic()
  call,       \* thread -> the call of hit it is in
  admitted,   \* key -> history: the attempts admitted, oldest first, with the
              \* time each was recorded at and the time it was admitted
  hits        \* key -> InMemoryRateLimiter._hits: which of these its list holds;
              \* the order of the list only serves the wording of a refusal

limiterVars == <<clock, call, admitted, hits>>

Elsewhere == [step |-> "elsewhere"]

\* The arguments of hit, and its clock, read before the lock is taken.
Arrive(t, key) ==
  /\ call[t] = Elsewhere
  /\ call' = [call EXCEPT ![t] = [step |-> "hit", key |-> key, now |-> clock]]
  /\ UNCHANGED <<clock, admitted, hits>>

\* mutant: the window is a tick too short
InsideCutoff(key, at, read) == at + Window[key] > read + 1

\* Newer than the cutoff of a call that read the clock at this time.
AfterCutoff(key, at, read) == at + Window[key] > read

\* The list without the attempts that left the window of this call.
timestamps(key, read) ==
  {i \in hits[key] : AfterCutoff(key, admitted[key][i].at, read)}

Returns(t) == call' = [call EXCEPT ![t] = Elsewhere]

\* The attempt is recorded at the time that was read, not at the present one.
hit(t) ==
  LET key == call[t].key
      read == call[t].now
  IN  /\ call[t].step = "hit"
      /\ Cardinality(timestamps(key, read)) < MaxAttempts[key]
      /\ admitted' = [admitted EXCEPT ![key] = Append(@, [at |-> read, entered |-> clock])]
      /\ hits' = [hits EXCEPT ![key] = timestamps(key, read) \union {Len(admitted[key]) + 1}]
      /\ Returns(t)
      /\ UNCHANGED clock

\* A refused attempt is not recorded.
TooManyRequests(t) ==
  LET key == call[t].key
      read == call[t].now
  IN  /\ call[t].step = "hit"
      /\ Cardinality(timestamps(key, read)) >= MaxAttempts[key]
      /\ hits' = [hits EXCEPT ![key] = timestamps(key, read)]
      /\ Returns(t)
      /\ UNCHANGED <<clock, admitted>>

TimePasses ==
  /\ clock < MaxTime
  /\ clock' = clock + 1
  /\ UNCHANGED <<call, admitted, hits>>

NoCall == [t \in Threads |-> Elsewhere]
NoAttempts == [key \in Keys |-> <<>>]
EmptyLists == [key \in Keys |-> {}]

\* A crash or a deploy: the limiter lives in the memory of the process.
ProcessRestarts ==
  /\ call # NoCall \/ admitted # NoAttempts
  /\ call' = NoCall
  /\ admitted' = NoAttempts
  /\ hits' = EmptyLists
  /\ UNCHANGED clock

LimiterInit ==
  /\ clock = 0
  /\ call = NoCall
  /\ admitted = NoAttempts
  /\ hits = EmptyLists

LimiterNext ==
  \/ \E t \in Threads, key \in Keys : Arrive(t, key)
  \/ \E t \in Threads : hit(t) \/ TooManyRequests(t)
  \/ TimePasses \/ ProcessRestarts

LimiterSpec == LimiterInit /\ [][LimiterNext]_limiterVars

(***************************************************************************)
(* Properties.                                                             *)
(***************************************************************************)
\* However long the calls wait for the lock, and whichever of them forgets on
\* behalf of the others (core/rate_limit.py:44-55): when an attempt is admitted,
\* fewer than the maximum were recorded within the window that ends then.
RateWindow ==
  \A key \in Keys : \A j \in DOMAIN admitted[key] :
    Cardinality({i \in 1 .. j - 1 :
                   admitted[key][i].at + Window[key] > admitted[key][j].entered})
      < MaxAttempts[key]
=============================================================================
