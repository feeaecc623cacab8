----------------------------- MODULE EventParser -----------------------------
(***************************************************************************)
(* What the monitor makes of one raw item of a TronGrid answer: the        *)
(* transfer it decodes, or the reason why it is left out.  Texts are       *)
(* abstracted to how the code's conversions treat them.                    *)
(***************************************************************************)
EXTENDS Integers, Sequences, FiniteSetsExt

(* A JSON value where the code wants an integer.  "hex" is a string that    *)
(* starts with 0x, "text" any other string that is no number; "null" is     *)
(* None under the key, "absent" a key that is not there.                    *)
Numbers == [kind : {"number", "hex", "text", "bool", "null", "absent"}, n : Int]
Num(k)  == [kind |-> "number", n |-> k]
NoNum   == [kind |-> "absent", n |-> 0]

(* The forms an address may have.                                           *)
Addresses == {"base58", "badBase58", "hex", "badHex", "none"}

RawItems ==
  [object      : BOOLEAN,                              \* a JSON object at all
   contract    : {"usdt", "other", "invalid", "none"},
   name        : {"Transfer", "other"},
   result      : BOOLEAN,                              \* an object "result"
   from        : Addresses,
   to          : Addresses,
   value       : Numbers,
   tx          : BOOLEAN,                              \* 64 hex digits
   time        : Numbers,
   block       : Numbers,
   index       : Numbers,
   unconfirmed : BOOLEAN]

MaxRaw == 2^30   \* stands for 2^63 - 1: beyond it BIGINT overflows

-----------------------------------------------------------------------------
(* _parse_int                                                               *)
Parses(v) == v.kind \in {"number", "hex"}

(* normalize_address: Base58Check or hex, both checked                      *)
IsAddress(a) == a \in {"base58", "hex"}

(* parse_transfer_event: the checks in the order of the code.  The first    *)
(* that fails decides; "malformed" and "rejected" items are only counted.   *)
Checks(raw) ==
  << [fails |-> ~raw.object,                               as |-> "malformed"],
     [fails |-> raw.contract = "none",                     as |-> "no_contract_address"],
     [fails |-> raw.contract = "invalid",                  as |-> "malformed"],
     [fails |-> raw.contract = "other",                    as |-> "not_usdt_contract"],
     [fails |-> raw.name # "Transfer",                     as |-> "not_transfer_event"],
     [fails |-> ~raw.result,                               as |-> "malformed"],
     [fails |-> ~(IsAddress(raw.from) /\ IsAddress(raw.to)), as |-> "malformed"],
     [fails |-> ~Parses(raw.value),                        as |-> "malformed"],
     [fails |-> raw.value.n < 0 \/ raw.value.n > MaxRaw,   as |-> "malformed"],
     [fails |-> raw.value.n = 0,                           as |-> "zero_amount"],
     [fails |-> ~raw.tx,                                   as |-> "malformed"],
     [fails |-> ~Parses(raw.time) \/ raw.time.n <= 0,      as |-> "malformed"],
     [fails |-> ~(raw.block.kind \in {"null", "absent"} \/ Parses(raw.block)), as |-> "malformed"],
     [fails |-> ~(raw.index.kind = "absent" \/ Parses(raw.index)), as |-> "malformed"] >>

Verdict(raw) ==
  LET checks == Checks(raw)
      failed == {i \in DOMAIN checks : checks[i].fails}
  IN  IF failed = {} THEN "event" ELSE checks[Min(failed)].as

Accepted(raw) == Verdict(raw) = "event"

(* parse_events: the items of a batch that become transfers, whatever the   *)
(* others are.                                                              *)
ParseEvents(items, Raw) == {e \in items : Accepted(Raw[e])}

(* int(r.get("block_timestamp") or 0) of the collector, which reads the     *)
(* time of every object once more, without the parser's conversions.        *)
TimeReads(raw) == raw.time.kind \in {"number", "bool", "null", "absent"}
TimeRead(raw)  == IF raw.time.kind = "number" THEN raw.time.n
                  ELSE IF raw.time.kind = "bool" THEN 1 ELSE 0

=============================================================================
