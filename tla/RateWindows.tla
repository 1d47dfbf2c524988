---------------------------- MODULE RateWindows ----------------------------
(***************************************************************************)
(* The gateway's budgets per minute (limits.rs): one fixed window per       *)
(* bearer token in each of three buckets.  In blanket mode the middleware   *)
(* charges the bucket "rate"; in split mode the handlers charge "orders"    *)
(* and "cancels".  The clock is read before the lock is taken, so a check   *)
(* may run with a reading of an earlier window and moves the window back.   *)
(***************************************************************************)
EXTENDS Integers

CONSTANTS
    Tokens,
    NoCap,        \* a bucket that is not configured
    Configs,      \* configurations: the cap of each bucket, and the dry-run flag
    MinuteLen,    \* SECS_PER_MINUTE
    MaxSecs       \* bound: readings of the clock

Buckets  == {"rate", "orders", "cancels"}
Readings == 0..MaxSecs

\* from_env: a cap is a positive number, and a blanket cap next to a split cap is
\* refused.
Configurable ==
    {c \in [caps : [Buckets -> (Nat \ {0}) \cup {NoCap}], dry : BOOLEAN] :
        c.caps["rate"] = NoCap \/ (c.caps["orders"] = NoCap /\ c.caps["cancels"] = NoCap)}

ASSUME WindowsAssumption ==
    /\ NoCap \notin Nat
    /\ \A c \in Configs : c \in Configurable
    /\ MinuteLen \in Nat \ {0} /\ MaxSecs \in Nat \ {0}

VARIABLES
    config,     \* what from_env read at boot
    window,     \* window[b][t]: the window the entry counts, and its count
    admitted,   \* history: admissions in a bucket, of a token, by window of the reading
    late,       \* history: checks of a bucket and token with a window older than the newest
    newest,     \* history: the newest window a bucket and token was checked with
    denied      \* history: what was denied, as <<bucket, token, window>>

windowVars == <<config, window, admitted, late, newest, denied>>

Caps   == config.caps
DryRun == config.dry

WindowOf(secs) == secs \div MinuteLen
Windows == {WindowOf(secs) : secs \in Readings}

\* An entry that is missing counts nothing, in any window.
WindowsInit ==
    /\ config \in Configs
    /\ window = [b \in Buckets |-> [t \in Tokens |-> [win |-> 0, n |-> 0]]]
    /\ admitted = [b \in Buckets |-> [t \in Tokens |-> [w \in Windows |-> 0]]]
    /\ late = [b \in Buckets |-> [t \in Tokens |-> 0]]
    /\ newest = [b \in Buckets |-> [t \in Tokens |-> 0]]
    /\ denied = {}

\* The one bucket that may deny: rate_limit_mw in blanket mode, order_gate and
\* cancel_gate in split mode; there a read meets none.
BucketOf(class) ==
    IF Caps["rate"] # NoCap THEN "rate"
    ELSE IF class = "order" THEN "orders" ELSE IF class = "cancel" THEN "cancels" ELSE "none"

Same == UNCHANGED windowVars

\* Mutated form of Opened: the count goes on when the window changes.
OpenedKeepingCount(entry, w) == [entry EXCEPT !.win = w]

\* The entry a check with a reading of window w finds.
Opened(entry, w) == IF entry.win = w THEN entry ELSE [win |-> w, n |-> 0]

Charged(b, t, w) ==
    /\ window' = [window EXCEPT ![b][t] = [win |-> w, n |-> Opened(@, w).n + 1]]
    /\ admitted' = [admitted EXCEPT ![b][t][w] = @ + 1]
    /\ UNCHANGED denied

\* At the cap: a dry run lets it pass, uncounted.
AtCap(b, t, w) ==
    /\ window' = [window EXCEPT ![b][t] = Opened(@, w)]
    /\ denied' = IF DryRun THEN denied ELSE denied \cup {<<b, t, w>>}
    /\ UNCHANGED admitted

\* Mutated form of HasRoom: one request too many.
HasRoomToo(b, t, w) == Opened(window[b][t], w).n <= Caps[b]

HasRoom(b, t, w) == Opened(window[b][t], w).n < Caps[b]

(***************************************************************************)
(* check_bucket with a reading taken earlier.  `ok` is what it answers.     *)
(***************************************************************************)
CheckBucket(b, t, secs, ok) ==
    LET w == WindowOf(secs)
    IN \/ Caps[b] = NoCap /\ ok /\ Same
       \/ Caps[b] # NoCap /\ secs = 0 /\ ok = DryRun /\ Same
       \/ /\ Caps[b] # NoCap /\ secs # 0
          /\ newest' = [newest EXCEPT ![b][t] = IF w > @ THEN w ELSE @]
          /\ late' = [late EXCEPT ![b][t] = IF w < newest[b][t] THEN @ + 1 ELSE @]
          /\ UNCHANGED config
          /\ \/ HasRoom(b, t, w) /\ ok /\ Charged(b, t, w)
             \/ ~HasRoom(b, t, w) /\ ok = DryRun /\ AtCap(b, t, w)

WindowsNext ==
    \E b \in Buckets, t \in Tokens, secs \in Readings, ok \in BOOLEAN : CheckBucket(b, t, secs, ok)

WindowsSpec == WindowsInit /\ [][WindowsNext]_windowVars

-----------------------------------------------------------------------------

\* Types of the budgets.
WindowsTypeOK ==
    /\ config \in Configs
    /\ window \in [Buckets -> [Tokens -> [win : Windows, n : Nat]]]
    /\ admitted \in [Buckets -> [Tokens -> [Windows -> Nat]]]
    /\ late \in [Buckets -> [Tokens -> Nat]]
    /\ newest \in [Buckets -> [Tokens -> Windows]]
    /\ denied \subseteq Buckets \X Tokens \X Windows

\* A token is denied only for its own requests: a bucket that denied a token in some
\* window had admitted as many requests of that token, with readings of that
\* window, as the cap allows, whatever other tokens, buckets and stale readings
\* did in between (check_bucket).
DenialsAreEarned ==
    \A b \in Buckets, t \in Tokens, w \in Windows :
        <<b, t, w>> \in denied => admitted[b][t][w] >= Caps[b]

\* The cap bounds what a token gets out of one window: the cap itself when no check
\* ran with a reading older than the newest, and one more cap for each that did
\* (check_bucket).
WindowBound ==
    \A b \in Buckets, t \in Tokens, w \in Windows :
        Caps[b] # NoCap => admitted[b][t][w] <= Caps[b] * (1 + late[b][t])

=============================================================================
