--------------------------- MODULE RuntimeConfig ---------------------------
(***************************************************************************)
(* runtime_config.c: the defaults and the lines of ENV:genet.prefs.  A     *)
(* line is a key and its values: the words between the commas.  A word is  *)
(* a number, or Garbage when it holds none.  Lines without an equals sign, *)
(* a key and a value are ignored and are not modelled.                     *)
(***************************************************************************)
EXTENDS Integers, Sequences, Functions

CONSTANTS
    Garbage,                    \* a word without a decimal digit
    DefaultLadder,              \* DEFAULT_POLL_LADDER
    DEFAULT_POLL_LADDER_MAX,    \* 32 in the code
    DEFAULT_TX_RECLAIM_SOFT_US, DEFAULT_RX_POLL_BURST, DEFAULT_RX_POLL_BURST_IDLE_BREAK,
    WORD_SPAN,                  \* values of a UWORD: 65536 in the code
    PrefsFiles                  \* the files a user may write

ASSUME DefaultsAssumption ==
    /\ DEFAULT_POLL_LADDER_MAX \in Nat /\ WORD_SPAN \in Nat \ {0}
    /\ DefaultLadder \in Seq(Nat) /\ Len(DefaultLadder) \in 1 .. DEFAULT_POLL_LADDER_MAX
    /\ DEFAULT_TX_RECLAIM_SOFT_US \in Nat
    /\ {DEFAULT_RX_POLL_BURST, DEFAULT_RX_POLL_BURST_IDLE_BREAK} \subseteq 0 .. WORD_SPAN - 1
ASSUME PrefsAssumption ==
    \A lines \in PrefsFiles :
        /\ lines \in Seq(Range(lines))
        /\ \A line \in Range(lines) : line.words \in Seq(Int \cup {Garbage}) \ {<<>>}

Defaults ==
    [unit_task_priority |-> 0, unit_stack_bytes |-> 65536,
     use_dma |-> 0, use_miami_workaround |-> 0,
     tx_pending_fast_ticks |-> 0,
     tx_reclaim_soft_us |-> DEFAULT_TX_RECLAIM_SOFT_US,
     rx_poll_burst |-> DEFAULT_RX_POLL_BURST,
     rx_poll_burst_idle_break |-> DEFAULT_RX_POLL_BURST_IDLE_BREAK,
     poll_delay_us |-> DefaultLadder \o
         [i \in 1 .. DEFAULT_POLL_LADDER_MAX - Len(DefaultLadder) |-> 0],
     poll_delay_len |-> Len(DefaultLadder)]

(* dos.library StrToLong (external) returns the characters used, or -1 with a
   value of 0 when there is no number: never 0, so the test of its result in
   the code lets every word through. *)
StrToLong(word) == IF word = Garbage THEN 0 ELSE word

(* ParsePollDelayList: the words that are not negative overwrite the ladder from
   its start, at most DEFAULT_POLL_LADDER_MAX of them; the length changes only
   when there was one. *)
StoreDelay(list, v) ==
    IF v >= 0 /\ list.count < DEFAULT_POLL_LADDER_MAX
    THEN [delays |-> [list.delays EXCEPT ![list.count + 1] = v], count |-> list.count + 1]
    ELSE list

StoredDelays(delays, words) ==
    LET after[n \in 0 .. Len(words)] ==
            IF n = 0 THEN [delays |-> delays, count |-> 0]
                     ELSE StoreDelay(after[n - 1], StrToLong(words[n]))
    IN  after[Len(words)]

ParsePollDelayList(config, words) ==
    LET list == StoredDelays(config.poll_delay_us, words)
    IN  [config EXCEPT !.poll_delay_us = list.delays,
                       !.poll_delay_len = IF list.count > 0 THEN list.count ELSE @]

(* UNIT_STACK_SIZE: positive, at least 4096, a multiple of 4. *)
StackBytes(old, v) ==
    LET bytes == IF v > 0 THEN v ELSE old
        atLeast == IF bytes < 4096 THEN 4096 ELSE bytes
    IN  atLeast - (atLeast % 4)

Byte(old, v) == IF v >= 0 THEN v % 256 ELSE old
Word(old, v) == IF v >= 0 THEN v % WORD_SPAN ELSE old
Long(old, v) == IF v >= 0 THEN v ELSE old

(* One line of the file; an unknown key changes nothing. *)
ApplyLine(config, line) ==
    LET v == StrToLong(line.words[1])
    IN  CASE line.key = "UNIT_TASK_PRIORITY"    -> [config EXCEPT !.unit_task_priority = v]
          [] line.key = "UNIT_STACK_SIZE"       -> [config EXCEPT !.unit_stack_bytes = StackBytes(@, v)]
          [] line.key = "USE_DMA"               -> [config EXCEPT !.use_dma = Byte(@, v)]
          [] line.key = "USE_MIAMI_WORKAROUND"  -> [config EXCEPT !.use_miami_workaround = Byte(@, v)]
          [] line.key = "TX_PENDING_FAST_TICKS" -> [config EXCEPT !.tx_pending_fast_ticks = Word(@, v)]
          [] line.key = "TX_RECLAIM_SOFT_US"    -> [config EXCEPT !.tx_reclaim_soft_us = Long(@, v)]
          [] line.key = "RX_POLL_BURST"         -> [config EXCEPT !.rx_poll_burst = Word(@, v)]
          [] line.key = "RX_POLL_BURST_IDLE_BREAK" -> [config EXCEPT !.rx_poll_burst_idle_break = Word(@, v)]
          [] line.key = "POLL_DELAY_US"         -> ParsePollDelayList(config, line.words)
          [] OTHER -> config

(* LoadGenetRuntimeConfig: the lines in order over the defaults; a missing file
   is an empty one. *)
LoadGenetRuntimeConfig(lines) ==
    LET after[n \in 0 .. Len(lines)] ==
            IF n = 0 THEN Defaults ELSE ApplyLine(after[n - 1], lines[n])
    IN  after[Len(lines)]

Configs == {LoadGenetRuntimeConfig(lines) : lines \in PrefsFiles}
=============================================================================
