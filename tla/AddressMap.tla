----------------------------- MODULE AddressMap -----------------------------
(***************************************************************************)
(* AddressMapper: the coordinates of a transaction in a stack.  The number *)
(* of the transaction is read as a mixed-radix number, the lowest digit    *)
(* first; a template is the order of the digits.  An organization org has  *)
(* the size of every digit, the template, the bytes of a transaction and   *)
(* of a host line, and whether an LPDDR efficiency mode is on.             *)
(***************************************************************************)
EXTENDS StackMap, SequencesExt

Fields == {"channel", "pseudo_channel", "sid", "rank", "bank_group", "bank",
           "row", "column"}

Origin == [f \in Fields |-> 0]

\* take_bank_composite()
BankComposite == <<"bank", "bank_group", "pseudo_channel", "sid">>

\* AddressMapper::decode(): the templates, from the lowest digit up.
DigitOrder(template) ==
  CASE template = "default" ->
         <<"column">> \o BankComposite \o <<"rank", "channel", "row">>
    [] template = "RoBaRaCoCh" ->
         <<"channel", "column", "rank">> \o BankComposite \o <<"row">>
    [] template = "ChRaBaRoCo" ->
         <<"column", "row">> \o BankComposite \o <<"rank", "channel">>
    [] template = "RoCoRaBaCh" ->
         <<"channel">> \o BankComposite \o <<"rank", "column", "row">>

Organizations ==
  [size : [Fields -> Nat \ {0}],
   template : {"default", "RoBaRaCoCh", "ChRaBaRoCo", "RoCoRaBaCh"},
   transaction : Nat \ {0}, line : Nat \ {0}, efficiency : BOOLEAN]

\* total_addressable_transactions(): the product of the sizes of the digits.
DigitSize(org, i) == org.size[DigitOrder(org.template)[i]]
Volume(org) ==
  DigitSize(org, 1) * (DigitSize(org, 2) * (DigitSize(org, 3) * (DigitSize(org, 4) *
    (DigitSize(org, 5) * (DigitSize(org, 6) * (DigitSize(org, 7) * DigitSize(org, 8)))))))

\* Fault: a digit is read but the value is not divided by its size.
FaultTakeMod(acc, digit, size) ==
  [value |-> acc.value, at |-> [acc.at EXCEPT ![digit] = acc.value % size]]

\* take_mod(): the next digit, and what is left for the others.
TakeMod(acc, digit, size) ==
  [value |-> acc.value \div size,
   at |-> [acc.at EXCEPT ![digit] = acc.value % size]]

\* apply_lpddr_efficiency()
ApplyEfficiency(org, at) ==
  IF org.efficiency THEN [at EXCEPT !["pseudo_channel"] = 0] ELSE at

Decode(org, address) ==
  ApplyEfficiency(org,
    FoldLeft(LAMBDA acc, digit : TakeMod(acc, digit, org.size[digit]),
             [value |-> address \div org.transaction, at |-> Origin],
             DigitOrder(org.template)).at)
=============================================================================
