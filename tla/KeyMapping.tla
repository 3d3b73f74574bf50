------------------------------ MODULE KeyMapping ------------------------------
(***************************************************************************)
(* The receivers' key tables: from the sender's scancode, an SDL scancode, *)
(* which is the USB HID usage, to the native code that is injected.  A     *)
(* table is a set of runs of consecutive usages.                           *)
(***************************************************************************)
EXTENDS Integers, Sequences

\* The codes of a run of consecutive usages.
From(first, codes) == [h \in first .. first + Len(codes) - 1 |-> codes[h - first + 1]]

\* Windows: a scancode and whether it has the E0 prefix.
Plain(runs) == {[h \in DOMAIN r |-> <<r[h], FALSE>>] : r \in runs}

\* Mutant of Extended: the prefix is not reported.
ExtendedWithoutPrefix(runs) == {[h \in DOMAIN r |-> <<r[h], FALSE>>] : r \in runs}

Extended(runs) == {[h \in DOMAIN r |-> <<r[h], TRUE>>] : r \in runs}

Usages(runs) == UNION {DOMAIN r : r \in runs}

\* The switch over all runs, which are disjoint.
Lookup(runs) == [h \in Usages(runs) |-> (CHOOSE r \in runs : h \in DOMAIN r)[h]]

------------------------------------------------------------------------------
\* hid_to_win_scan.
win_digits == Plain({From(30, <<2, 3, 4, 5, 6, 7, 8, 9, 10, 11>>),
                     From(42, <<14, 15>>), From(45, <<12, 13>>)})
win_letters == Plain({From(4, <<30, 48, 46, 32, 18, 33, 34, 35, 23, 36, 37, 38, 50,
                                49, 24, 25, 16, 19, 31, 20, 22, 47, 17, 45, 21, 44>>)})
win_punctuation == Plain({From(47, <<26, 27, 43>>), From(51, <<39, 40, 41, 51, 52, 53>>)})
win_controls == Plain({From(40, <<28, 1>>), From(44, <<57>>), From(57, <<58>>)})
win_modifiers == Plain({From(224, <<29, 42, 56>>), From(229, <<54>>)})
                    \cup Extended({From(227, <<91, 29>>), From(230, <<56, 92>>)})
win_navigation == Extended({From(73, <<82, 73, 71, 83, 79, 81, 77, 75, 80, 72>>)})
win_function_keys == Plain({From(58, <<59, 60, 61, 62, 63, 64, 65, 66, 67, 68, 87, 88>>)})

\* A usage outside the table gives 0, no scancode.
hid_to_win_scan == Lookup(win_digits \cup win_letters \cup win_punctuation \cup win_controls
                             \cup win_modifiers \cup win_navigation \cup win_function_keys)

------------------------------------------------------------------------------
\* hid_to_mac_vk; it knows no Insert key.
mac_letters == {From(4, <<0, 11, 8, 2, 14, 3, 5, 4, 34, 38, 40, 37, 46,
                          45, 31, 35, 12, 15, 1, 17, 32, 9, 13, 7, 16, 6>>)}
mac_digits == {From(30, <<18, 19, 20, 21, 23, 22, 26, 28, 25, 29>>),
               From(42, <<51, 48>>), From(45, <<27, 24>>)}
mac_punctuation == {From(47, <<33, 30, 42>>), From(51, <<41, 39, 50, 43, 47, 44>>),
                    From(44, <<49>>)}

\* Mutant of mac_controls: both Option keys become the left one.
mac_controls_one_option ==
    {From(40, <<36, 53>>), From(57, <<57>>), From(224, <<59, 56, 58, 55, 62, 60, 58, 54>>),
     From(74, <<116, 115, 117, 119, 121, 124, 123, 125, 126>>)}

mac_controls ==
    {From(40, <<36, 53>>), From(57, <<57>>), From(224, <<59, 56, 58, 55, 62, 60, 61, 54>>),
     From(74, <<116, 115, 117, 119, 121, 124, 123, 125, 126>>)}
mac_function_keys == {From(58, <<122, 120, 99, 118, 96, 97, 98, 100, 101, 109, 103, 111>>)}

hid_to_mac_vk == Lookup(mac_letters \cup mac_digits \cup mac_punctuation
                           \cup mac_controls \cup mac_function_keys)

------------------------------------------------------------------------------
\* No two keys of a table share a native code.
Apart(table) == \A h, k \in DOMAIN table : table[h] = table[k] => h = k

win_apart == Apart(hid_to_win_scan)
mac_apart == Apart(hid_to_mac_vk)
===============================================================================
