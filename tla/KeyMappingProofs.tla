-------------------------- MODULE KeyMappingProofs --------------------------
(***************************************************************************)
(* What TLAPS proves of the receivers' key tables: no two keys share a     *)
(* native code, and no table has an entry for usage 0, which is what an    *)
(* unknown event reads as.                                                 *)
(*                                                                         *)
(* Each table is shown to have an inverse, which is written down here: the *)
(* usage that belongs to a native code.                                    *)
(***************************************************************************)
EXTENDS KeyMapping, TLAPS

\* The usage of a Windows scancode without the E0 prefix; 0 where there is none.
plain_usage == From(0, <<
    0, 41, 30, 31, 32, 33, 34, 35, 36, 37, 38, 39, 45, 46, 42, 43, 20, 26, 8, 21,
    23, 28, 24, 12, 18, 19, 47, 48, 40, 224, 4, 22, 7, 9, 10, 11, 13, 14, 15, 51,
    52, 53, 225, 49, 29, 27, 6, 25, 5, 17, 16, 54, 55, 56, 229, 0, 226, 44, 57,
    58, 59, 60, 61, 62, 63, 64, 65, 66, 67, 0, 0, 0, 0, 0, 0, 0, 0, 0, 0, 0, 0,
    0, 0, 0, 0, 0, 0, 68, 69, 0, 0, 0, 0>>)

\* The same of a scancode with the prefix.
extended_usage == From(0, <<
    0, 0, 0, 0, 0, 0, 0, 0, 0, 0, 0, 0, 0, 0, 0, 0, 0, 0, 0, 0, 0, 0, 0, 0, 0, 0,
    0, 0, 0, 228, 0, 0, 0, 0, 0, 0, 0, 0, 0, 0, 0, 0, 0, 0, 0, 0, 0, 0, 0, 0, 0,
    0, 0, 0, 0, 0, 230, 0, 0, 0, 0, 0, 0, 0, 0, 0, 0, 0, 0, 0, 0, 75, 82, 74, 0,
    80, 0, 79, 0, 77, 81, 78, 73, 76, 0, 0, 0, 0, 0, 0, 0, 227, 231>>)

\* The usage of a macOS virtual key.
mac_usage == From(0, <<
    4, 22, 7, 9, 11, 10, 29, 27, 6, 25, 0, 5, 20, 26, 8, 21, 28, 23, 30, 31, 32,
    33, 35, 34, 46, 38, 36, 45, 37, 39, 48, 18, 24, 47, 12, 19, 40, 15, 13, 52,
    14, 51, 49, 54, 56, 17, 16, 55, 43, 44, 53, 42, 0, 41, 231, 227, 225, 57,
    226, 224, 229, 230, 228, 0, 0, 0, 0, 0, 0, 0, 0, 0, 0, 0, 0, 0, 0, 0, 0, 0,
    0, 0, 0, 0, 0, 0, 0, 0, 0, 0, 0, 0, 0, 0, 0, 0, 62, 63, 64, 60, 65, 66, 0,
    68, 0, 0, 0, 0, 0, 67, 0, 69, 0, 0, 0, 75, 74, 76, 61, 77, 59, 78, 58, 80,
    79, 81, 82>>)

win_usage == [key \in (0 .. 92) \X BOOLEAN |->
                 IF key[2] THEN extended_usage[key[1]] ELSE plain_usage[key[1]]]

\* usage inverts every run, and no run begins at usage 0.
Inverts(usage, runs) ==
    \A r \in runs : \A h \in DOMAIN r : h # 0 /\ r[h] \in DOMAIN usage /\ usage[r[h]] = h

------------------------------------------------------------------------------
\* A table with an inverse keeps its keys apart.
LEMMA InverseApart ==
    ASSUME NEW runs, NEW usage, Inverts(usage, runs)
    PROVE  Apart(Lookup(runs)) /\ 0 \notin DOMAIN Lookup(runs)
<1>1. ASSUME NEW h \in Usages(runs)
      PROVE  h # 0 /\ usage[Lookup(runs)[h]] = h
  <2> DEFINE r == CHOOSE r \in runs : h \in DOMAIN r
  <2>1. \E s \in runs : h \in DOMAIN s
    BY DEF Usages
  <2>2. r \in runs /\ h \in DOMAIN r
    BY <2>1
  <2>3. Lookup(runs)[h] = r[h]
    BY DEF Lookup
  <2> QED  BY <2>2, <2>3 DEF Inverts
<1>2. DOMAIN Lookup(runs) = Usages(runs)
  BY DEF Lookup
<1> HIDE DEF Lookup
<1> QED  BY <1>1, <1>2 DEF Apart

\* The two kinds of Windows runs.
LEMMA WindowsRuns ==
    ASSUME NEW runs
    PROVE  /\ Inverts(plain_usage, runs) => Inverts(win_usage, Plain(runs))
           /\ Inverts(extended_usage, runs) => Inverts(win_usage, Extended(runs))
<1>1. DOMAIN plain_usage = 0 .. 92 /\ DOMAIN extended_usage = 0 .. 92
  BY DEF plain_usage, extended_usage, From
<1>2. \A c \in 0 .. 92 :
         /\ <<c, FALSE>> \in DOMAIN win_usage /\ win_usage[<<c, FALSE>>] = plain_usage[c]
         /\ <<c, TRUE>> \in DOMAIN win_usage /\ win_usage[<<c, TRUE>>] = extended_usage[c]
  BY DEF win_usage
<1>3. ASSUME Inverts(plain_usage, runs), NEW r \in Plain(runs), NEW h \in DOMAIN r
      PROVE  h # 0 /\ r[h] \in DOMAIN win_usage /\ win_usage[r[h]] = h
  <2>1. PICK s \in runs : r = [k \in DOMAIN s |-> <<s[k], FALSE>>]
    BY DEF Plain
  <2> QED  BY <1>1, <1>2, <1>3, <2>1 DEF Inverts
<1>4. ASSUME Inverts(extended_usage, runs), NEW r \in Extended(runs), NEW h \in DOMAIN r
      PROVE  h # 0 /\ r[h] \in DOMAIN win_usage /\ win_usage[r[h]] = h
  <2>1. PICK s \in runs : r = [k \in DOMAIN s |-> <<s[k], TRUE>>]
    BY DEF Extended
  <2> QED  BY <1>1, <1>2, <1>4, <2>1 DEF Inverts
<1> QED  BY <1>3, <1>4 DEF Inverts

\* The table of Windows, group by group.
LEMMA WinInverse ==
    Inverts(win_usage, win_digits \cup win_letters \cup win_punctuation \cup win_controls
                          \cup win_modifiers \cup win_navigation \cup win_function_keys)
<1>1. Inverts(win_usage, win_digits)
  <2>1. Inverts(plain_usage, {From(30, <<2, 3, 4, 5, 6, 7, 8, 9, 10, 11>>),
                              From(42, <<14, 15>>), From(45, <<12, 13>>)})
    BY DEF Inverts, plain_usage, From
  <2> QED  BY <2>1, WindowsRuns DEF win_digits
<1>2. Inverts(win_usage, win_letters)
  <2>1. Inverts(plain_usage,
                {From(4, <<30, 48, 46, 32, 18, 33, 34, 35, 23, 36, 37, 38, 50,
                           49, 24, 25, 16, 19, 31, 20, 22, 47, 17, 45, 21, 44>>)})
    BY DEF Inverts, plain_usage, From
  <2> QED  BY <2>1, WindowsRuns DEF win_letters
<1>3. Inverts(win_usage, win_punctuation)
  <2>1. Inverts(plain_usage, {From(47, <<26, 27, 43>>), From(51, <<39, 40, 41, 51, 52, 53>>)})
    BY DEF Inverts, plain_usage, From
  <2> QED  BY <2>1, WindowsRuns DEF win_punctuation
<1>4. Inverts(win_usage, win_controls)
  <2>1. Inverts(plain_usage, {From(40, <<28, 1>>), From(44, <<57>>), From(57, <<58>>)})
    BY DEF Inverts, plain_usage, From
  <2> QED  BY <2>1, WindowsRuns DEF win_controls
<1>5. Inverts(win_usage, win_modifiers)
  <2>1. Inverts(plain_usage, {From(224, <<29, 42, 56>>), From(229, <<54>>)})
    BY DEF Inverts, plain_usage, From
  <2>2. Inverts(extended_usage, {From(227, <<91, 29>>), From(230, <<56, 92>>)})
    BY DEF Inverts, extended_usage, From
  <2>3. Inverts(win_usage, Plain({From(224, <<29, 42, 56>>), From(229, <<54>>)}))
    BY <2>1, WindowsRuns
  <2>4. Inverts(win_usage, Extended({From(227, <<91, 29>>), From(230, <<56, 92>>)}))
    BY <2>2, WindowsRuns
  <2> QED  BY <2>3, <2>4 DEF win_modifiers, Inverts
<1>6. Inverts(win_usage, win_navigation)
  <2>1. Inverts(extended_usage, {From(73, <<82, 73, 71, 83, 79, 81, 77, 75, 80, 72>>)})
    BY DEF Inverts, extended_usage, From
  <2> QED  BY <2>1, WindowsRuns DEF win_navigation
<1>7. Inverts(win_usage, win_function_keys)
  <2>1. Inverts(plain_usage, {From(58, <<59, 60, 61, 62, 63, 64, 65, 66, 67, 68, 87, 88>>)})
    BY DEF Inverts, plain_usage, From
  <2> QED  BY <2>1, WindowsRuns DEF win_function_keys
<1> QED
  BY <1>1, <1>2, <1>3, <1>4, <1>5, <1>6, <1>7 DEF Inverts

\* The table of macOS, group by group.
LEMMA MacInverse ==
    Inverts(mac_usage, mac_letters \cup mac_digits \cup mac_punctuation
                          \cup mac_controls \cup mac_function_keys)
<1>1. Inverts(mac_usage, mac_letters)
  BY DEF Inverts, mac_letters, mac_usage, From
<1>2. Inverts(mac_usage, mac_digits)
  BY DEF Inverts, mac_digits, mac_usage, From
<1>3. Inverts(mac_usage, mac_punctuation)
  BY DEF Inverts, mac_punctuation, mac_usage, From
<1>4. Inverts(mac_usage, mac_controls)
  BY DEF Inverts, mac_controls, mac_usage, From
<1>5. Inverts(mac_usage, mac_function_keys)
  BY DEF Inverts, mac_function_keys, mac_usage, From
<1> QED  BY <1>1, <1>2, <1>3, <1>4, <1>5 DEF Inverts

------------------------------------------------------------------------------
\* hid_to_win_scan gives no two keys the same scancode and prefix, and usage 0 none.
THEOREM WinKeysApart == win_apart /\ 0 \notin DOMAIN hid_to_win_scan
  BY WinInverse, InverseApart DEF win_apart, hid_to_win_scan

\* hid_to_mac_vk gives no two keys the same virtual key, and usage 0 none.
THEOREM MacKeysApart == mac_apart /\ 0 \notin DOMAIN hid_to_mac_vk
  BY MacInverse, InverseApart DEF mac_apart, hid_to_mac_vk
=============================================================================
