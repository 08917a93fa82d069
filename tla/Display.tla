------------------------------ MODULE Display ------------------------------
(***************************************************************************)
(* What three components compute from what they are given: FieldError, the *)
(* badge of Notifications, and the initials of Profile.                    *)
(***************************************************************************)
EXTENDS Naturals, Sequences, FiniteSets

CONSTANT Undefined   \* a message, an entry or a count that is not there

(* FieldError: the entries with the same message are one, at the place of   *)
(* the first of them (a Map keeps the order in which its keys came).        *)
Shown(message) == message \notin {Undefined, ""}
UniqueErrors(errors) == {i \in DOMAIN errors : \A j \in 1 .. i - 1 : errors[j] # errors[i]}

(* One entry is shown as it is, several as a list of those with a message.  *)
FieldErrorItems(errors) == {errors[i] : i \in {k \in UniqueErrors(errors) : Shown(errors[k])}}
FieldErrorAlert(errors) ==
  IF Cardinality(UniqueErrors(errors)) = 1 THEN FieldErrorItems(errors) # {} ELSE errors # <<>>

(* Notifications: an entry that is not read has a mark; above the list stands *)
(* the count the consumer gives, or that of the unread ones.                  *)
Marked(read) == {i \in DOMAIN read : ~read[i]}
TotalUnread(unreadCount, read) ==
  IF unreadCount # Undefined THEN unreadCount ELSE Cardinality({i \in DOMAIN read : ~read[i]})
BadgeLimit == 99
Badge(total) == [shown |-> total > 0, plus |-> total > BadgeLimit]

(* Profile: what the consumer gives, or the first letters of the first two words *)
Initials(words) ==
  IF words = <<>> THEN <<"?">>
  ELSE [i \in 1 .. (IF Len(words) > 1 THEN 2 ELSE 1) |-> words[i][1]]
Fallback(fallback, words) == IF fallback # Undefined THEN fallback ELSE Initials(words)
=============================================================================
