------------------------------ MODULE Settings ------------------------------
(***************************************************************************)
(* PUT /api/settings: every section of the payload is saved in the table    *)
(* "settings" and then assigned, word by word and without a lock, to the    *)
(* configuration in memory that all requests read.                          *)
(*                                                                         *)
(* A retention is saved in hours and held as a duration, an integer of      *)
(* Width bits that counts units of which Hour make an hour: multiplying by  *)
(* Hour may wrap.                                                           *)
(***************************************************************************)
EXTENDS Requests, Integers, Sequences

CONSTANTS
    Order,      \* the sections, in the order the handler takes them
    WordsOf,    \* the words of each section
    Durations,  \* the words held as durations
    Limits,     \* the words that only a positive value replaces
    Default,    \* the value of each word in the configuration's defaults
    Payloads,   \* what a request may ask: partial functions from words to values
    Hour, Width,
    NoRow       \* no row in the table, no request yet

Sections == {Order[i] : i \in 1..Len(Order)}

Words == UNION {WordsOf[s] : s \in Sections}

Values == -(2^(Width - 1))..(2^(Width - 1) - 1)

(* Each section comes once and each word in one section; values are          *)
(* integers of the width.                                                   *)
ASSUME SettingsAssumption ==
    /\ Len(Order) \in Nat
    /\ \A i, j \in 1..Len(Order) : Order[i] = Order[j] => i = j
    /\ \A s, t \in Sections : WordsOf[s] \cap WordsOf[t] # {} => s = t
    /\ \A w \in Words : Default[w] \in Values
    /\ \A payload \in Payloads : \A w \in DOMAIN payload : payload[w] \in Values
    /\ Hour \in Nat \ {0}
    /\ 2^(Width - 1) \in Nat \ {0} /\ 2^Width = 2 * 2^(Width - 1)
    /\ NoRow \notin Conns
    /\ \A s \in Sections : NoRow \notin [WordsOf[s] -> Values]

VARIABLES
    table,      \* the rows of "settings"
    memory,     \* the words of the configuration (App.cfg)
    put,        \* the locals of a request's handler
    mixed,      \* history: the sections two requests worked on at once
    author      \* history: the last request to begin on each section

setVars == <<table, memory, put, mixed, author>>

(* Arithmetic without a width. *)
Unbounded(n) == n

(* A product in Go wraps at the width of its type. *)
Wrap(n) == ((n + 2^(Width - 1)) % 2^Width) - 2^(Width - 1)

(* Division truncates toward zero. *)
Quotient(n) == IF n >= 0 THEN n \div Hour ELSE -((-n) \div Hour)

(* The word a saved value becomes, and the value a word is shown as. *)
InForce(w, v) == IF w \in Durations THEN Wrap(v * Hour) ELSE v
Shown(w) == IF w \in Durations THEN Quotient(memory[w]) ELSE memory[w]

(* positiveIntValue takes no value below one from the payload. *)
Accepted(payload, w) ==
    w \in DOMAIN payload /\ (w \in Limits => payload[w] > 0)

-----------------------------------------------------------------------------
(* The section a request is at. *)
Section(c) == Order[put[c].next]

InSection(c, s) == at[c] \in {"save", "assign"} /\ Section(c) = s

Asked(c) == WordsOf[Section(c)] \cap DOMAIN put[c].given # {}

(* A section the payload leaves out. *)
Skip(c) ==
    /\ at[c] = "pick"
    /\ put[c].next <= Len(Order) /\ ~Asked(c)
    /\ put' = [put EXCEPT ![c].next = @ + 1]
    /\ UNCHANGED <<reqVars, table, memory, mixed, author>>

(* The section's values are built: words the payload leaves out are read    *)
(* from memory.                                                             *)
Pick(c) ==
    /\ at[c] = "pick"
    /\ put[c].next <= Len(Order) /\ Asked(c)
    /\ LET s == Section(c)
           value == [w \in WordsOf[s] |->
                        IF Accepted(put[c].given, w) THEN put[c].given[w]
                                                     ELSE Shown(w)]
       IN  /\ put' = [put EXCEPT ![c].value = value]
           /\ mixed' = IF \E d \in Conns \ {c} : InSection(d, s)
                       THEN mixed \cup {s} ELSE mixed
           /\ author' = [author EXCEPT ![s] = c]
    /\ Go(c, "save")
    /\ UNCHANGED <<table, memory>>

(* The same with the assignments before the save. *)
SaveLate(c) ==
    /\ at[c] = "save"
    /\ LET s == Section(c)
       IN  /\ memory' = [w \in Words |-> IF w \in WordsOf[s]
                                         THEN InForce(w, put[c].value[w])
                                         ELSE memory[w]]
           /\ \/ /\ table' = [table EXCEPT ![s] = put[c].value]
                 /\ put' = [put EXCEPT ![c].words = WordsOf[s]]
                 /\ Go(c, "assign")
              \/ /\ Answer(c, "error")
                 /\ UNCHANGED <<table, put>>
    /\ UNCHANGED <<mixed, author>>

(* The row is written; a failure ends the request with what the sections    *)
(* before it changed.                                                       *)
Save(c) ==
    /\ at[c] = "save"
    /\ \/ /\ table' = [table EXCEPT ![Section(c)] = put[c].value]
          /\ put' = [put EXCEPT ![c].words = WordsOf[Section(c)]]
          /\ Go(c, "assign")
       \/ /\ Answer(c, "error")
          /\ UNCHANGED <<table, put>>
    /\ UNCHANGED <<memory, mixed, author>>

(* One word reaches memory.  Nothing orders the words for other requests,   *)
(* so they may see them in any order.                                       *)
Assign(c) ==
    /\ at[c] = "assign"
    /\ \E w \in put[c].words :
        /\ memory' = [memory EXCEPT ![w] = InForce(w, put[c].value[w])]
        /\ IF put[c].words = {w}
           THEN /\ put' = [put EXCEPT ![c].words = {}, ![c].value = <<>>,
                                      ![c].next = @ + 1]
                /\ Go(c, "pick")
           ELSE /\ put' = [put EXCEPT ![c].words = @ \ {w}]
                /\ UNCHANGED reqVars
    /\ UNCHANGED <<table, mixed, author>>

Applied(c) ==
    /\ at[c] = "pick"
    /\ put[c].next > Len(Order)
    /\ Answer(c, "saved")
    /\ UNCHANGED setVars

PutStep(c) == Skip(c) \/ Pick(c) \/ Save(c) \/ Assign(c) \/ Applied(c)

(* The payload of a request has arrived. *)
BeginPut(c) ==
    \E payload \in Payloads :
        /\ put' = [put EXCEPT ![c].given = payload]
        /\ UNCHANGED <<table, memory, mixed, author>>

(* applyPersistedSettingsToConfig: a limit that is not positive leaves the   *)
(* default.                                                                 *)
Loaded(s, w) ==
    InForce(w, IF table[s] = NoRow \/ (w \in Limits /\ table[s][w] <= 0)
               THEN Default[w] ELSE table[s][w])

Load ==
    /\ memory' = [w \in Words |->
                    Loaded(CHOOSE s \in Sections : w \in WordsOf[s], w)]
    /\ UNCHANGED <<table, put, mixed, author>>

NoPut == [given |-> <<>>, next |-> 1, value |-> <<>>, words |-> {}]

SettingsInit ==
    /\ table = [s \in Sections |-> NoRow]
    /\ memory = [w \in Words |-> InForce(w, Default[w])]
    /\ put = [c \in Conns |-> NoPut]
    /\ mixed = {}
    /\ author = [s \in Sections |-> NoRow]

-----------------------------------------------------------------------------
SettingsTypeOK ==
    /\ \A s \in Sections : table[s] # NoRow =>
            table[s] \in [WordsOf[s] -> Values]
    /\ DOMAIN table = Sections
    /\ memory \in [Words -> Values]
    /\ put \in [Conns -> [given : Payloads \cup {<<>>}, next : 1..(Len(Order) + 1),
                          value : (UNION {[WordsOf[s] -> Values] : s \in Sections}) \cup {<<>>},
                          words : SUBSET Words]]
    /\ \A c \in Conns :
        /\ at[c] \in {"save", "assign"} =>
                /\ put[c].next <= Len(Order)
                /\ put[c].value \in [WordsOf[Section(c)] -> Values]
        /\ at[c] = "assign" =>
                put[c].words # {} /\ put[c].words \subseteq WordsOf[Section(c)]
    /\ mixed \subseteq Sections
    /\ author \in [Sections -> Conns \cup {NoRow}]

(* The row's durations can be held: none wraps, and none is left over from   *)
(* one that did.                                                            *)
Fits(s) ==
    \A w \in WordsOf[s] \cap Durations :
        table[s][w] > 0 /\ table[s][w] * Hour < 2^(Width - 1)

=============================================================================
