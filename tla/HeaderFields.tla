---------------------------- MODULE HeaderFields ----------------------------
(***************************************************************************)
(* The header section of requests and answers: what set_header admits, how *)
(* write_headers puts it on the connection and what read_headers makes of  *)
(* it at the other end.  A field is a pair of byte sequences; a section is *)
(* the sequence of its fields.                                             *)
(***************************************************************************)
EXTENDS UrlEncoding

CONSTANTS HEADER_MAX_LENGTH,   \* CPPHTTPLIB_HEADER_MAX_LENGTH
          HEADER_MAX_COUNT,    \* CPPHTTPLIB_HEADER_MAX_COUNT
          Undecoded            \* the names Location and Referer

ASSUME HeaderAssumption == HEADER_MAX_LENGTH \in Nat /\ HEADER_MAX_COUNT \in Nat

COLON == 58
CRLF == <<13, 10>>

(* detail::fields                                                          *)
IsToken(s) ==
  s # <<>> /\ \A i \in DOMAIN s :
    s[i] \in Digits \cup Letters \cup
             {33, 35, 36, 37, 38, 39, 42, 43, 45, 46, 94, 95, 96, 124, 126}

FieldVchar == 33 .. 126 \cup 128 .. 255

IsFieldValue(s) ==
  \A i \in DOMAIN s :
    s[i] \in FieldVchar \/ (i \notin {1, Len(s)} /\ s[i] \in {SPACE, TAB})

(* Request::set_header, Response::set_header                               *)
SetHeader(fields, f) ==
  IF IsToken(f[1]) /\ IsFieldValue(f[2]) THEN Append(fields, f) ELSE fields

WrittenField(f) == f[1] \o <<COLON, SPACE>> \o f[2] \o CRLF

WrittenHeaders(fields) ==
  FoldLeft(LAMBDA made, f : made \o WrittenField(f), <<>>, fields) \o CRLF

(* stream_line_reader: the lines up to each CR LF, and what follows the    *)
(* last one.                                                               *)
Lines(wire) ==
  LET ends == SetToSortSeq({i \in 2 .. Len(wire) : SubSeq(wire, i - 1, i) = CRLF}, <)
      begin(n) == IF n = 1 THEN 1 ELSE ends[n - 1] + 1
  IN  [n \in 1 .. Len(ends) + 1 |->
         SubSeq(wire, begin(n), IF n <= Len(ends) THEN ends[n] ELSE Len(wire))]

(* parse_header on a line without its end: the field, or nothing.          *)
ParseHeader(line) ==
  LET colon == SelectInSeq(line, LAMBDA c : c = COLON)
      name == SubSeq(line, 1, colon - 1)
      value == Trimmed(SubSeq(line, colon + 1, Len(line)))
  IN  IF colon = 0 \/ ~IsToken(name) \/ ~IsFieldValue(value) THEN <<>>
      ELSE <<name, IF name \in Undecoded THEN value ELSE DecodePathComponent(value)>>

(* read_headers: the fields up to the empty line, and what is left unread; *)
(* refused when a line is no field or too long, there are too many of      *)
(* them, or the empty line does not come.                                  *)
ReadHeaders(wire) ==
  LET lines == Lines(wire)
      empty == SelectInSeq(lines, LAMBDA l : l = CRLF)
      parsed == [i \in 1 .. empty - 1 |-> ParseHeader(SubSeq(lines[i], 1, Len(lines[i]) - 2))]
  IN  [ok |-> /\ 1 <= empty /\ empty - 1 <= HEADER_MAX_COUNT
              /\ \A i \in DOMAIN parsed :
                   parsed[i] # <<>> /\ Len(lines[i]) <= HEADER_MAX_LENGTH,
       fields |-> parsed,
       rest |-> FlattenSeq(SubSeq(lines, empty + 1, Len(lines)))]
-----------------------------------------------------------------------------
(* Whatever names and values a caller sets, the fields that set_header     *)
(* admits arrive one for one, with their %-sequences decoded, and the      *)
(* section ends where the writer ended it: no value can pass for a line    *)
(* end, a name or another field.  Only the reader's limits refuse a        *)
(* section.                                                                *)
FieldsArrive(wanted, following) ==
  LET fields == FoldLeft(SetHeader, <<>>, wanted)
      read == ReadHeaders(WrittenHeaders(fields) \o following)
      received(f) == IF f[1] \in Undecoded THEN f ELSE <<f[1], DecodePathComponent(f[2])>>
      fits == /\ Len(fields) <= HEADER_MAX_COUNT
              /\ \A i \in DOMAIN fields : Len(WrittenField(fields[i])) <= HEADER_MAX_LENGTH
  IN  /\ read.ok = fits
      /\ fits => /\ read.fields = [i \in DOMAIN fields |-> received(fields[i])]
                 /\ read.rest = following
=============================================================================
