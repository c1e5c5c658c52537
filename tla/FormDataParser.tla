--------------------------- MODULE FormDataParser ---------------------------
(***************************************************************************)
(* httplib::detail::FormDataParser, fed with the body of a multipart form  *)
(* in whatever pieces the readers of StreamReader hand on, and the form    *)
(* Server::read_content builds from its callbacks.  The body is what the   *)
(* client's serialize_multipart_formdata makes of the items.               *)
(*                                                                         *)
(* A body is a sequence of bytes; "B" stands for the boundary's name and   *)
(* "H" for a valid Content-Disposition line, whatever its length.          *)
(***************************************************************************)
EXTENDS Naturals, Sequences, SequencesExt

CONSTANTS Forms,          \* the forms sent: sequences of the contents of their items
          HeaderSizes,    \* the lengths of their header lines
          FormHeaderMax,  \* CPPHTTPLIB_HEADER_MAX_LENGTH
          FormItemsMax    \* CPPHTTPLIB_MULTIPART_FORM_DATA_FILE_MAX_COUNT

CR == "cr"
LF == "lf"
crlf == <<CR, LF>>
dash == <<"-", "-">>
dash_boundary_crlf == dash \o <<"B">> \o crlf
crlf_dash_boundary == crlf \o dash \o <<"B">>

(* serialize_multipart_formdata: begin, content and end of each item, then *)
(* the finish.                                                             *)
SerializedItem(content) == dash_boundary_crlf \o <<"H">> \o crlf \o crlf \o content \o crlf

SerializedFinish == dash \o <<"B">> \o dash \o crlf

Serialized(items) ==
  FlattenSeq([i \in DOMAIN items |-> SerializedItem(items[i])]) \o SerializedFinish

Drop(s, n) == SubSeq(s, n + 1, Len(s))
StartsAt(s, i, word) == i + Len(word) <= Len(s) /\ SubSeq(s, i + 1, i + Len(word)) = word

(* A form has at least one item, and the boundary the client has drawn     *)
(* (make_multipart_data_boundary) is in none of them.                      *)
ASSUME FormsAssumption ==
  \A sent \in Forms :
    /\ sent # <<>> /\ sent \in Seq(Range(sent))
    /\ \A content \in Range(sent) :
         /\ content \in Seq(Range(content))
         /\ \A i \in 0 .. Len(content) : ~StartsAt(content, i, crlf_dash_boundary)

ASSUME FormLimitsAssumption ==
  HeaderSizes \subseteq Nat \ {0} /\ FormHeaderMax \in Nat \ {0} /\ FormItemsMax \in Nat

VARIABLES
  items,      \* what the client put into the form
  lines,      \* the length of each item's header line
  coming,     \* the bytes of the body the parser has not been given
  held,       \* buf_ from buf_spos_ to buf_epos_
  parsing,    \* inside parse()
  state,      \* state_, by the names of the comments of its switch
  is_valid,   \* is_valid_
  refused,    \* parse has returned false, which ends the reading of the body
  form        \* req.form: the contents received, one for each entry begun

formVars == <<items, lines, coming, held, parsing, state, is_valid, refused, form>>

FormInit ==
  /\ items \in Forms
  /\ lines \in [1 .. Len(items) -> HeaderSizes]
  /\ coming = Serialized(items)
  /\ held = <<>> /\ parsing = FALSE
  /\ state = "initial" /\ is_valid = FALSE /\ refused = FALSE
  /\ form = <<>>

(* buf_find: the first occurrence, or the size of the buffer.              *)
Find(s, word) ==
  LET places == {i \in 0 .. Len(s) : StartsAt(s, i, word)}
  IN  IF places = {} THEN Len(s) ELSE CHOOSE i \in places : \A j \in places : i <= j

(* read_content calls parse with the next n bytes.                         *)
Feed(n) ==
  /\ ~parsing /\ ~refused /\ n \in 1 .. Len(coming)
  /\ held' = held \o SubSeq(coming, 1, n)
  /\ coming' = Drop(coming, n)
  /\ parsing' = TRUE
  /\ UNCHANGED <<items, lines, state, is_valid, refused, form>>

(* parse returns: more of the body is needed, or it must not go on.        *)
Waits == parsing' = FALSE /\ UNCHANGED <<held, state, is_valid, refused, form>>
Refuses == parsing' = FALSE /\ refused' = TRUE /\ UNCHANGED <<held, state, form>>

Consumes(n, next) ==
  /\ held' = Drop(held, n)
  /\ state' = next
  /\ parsing' = (held' # <<>>)
  /\ UNCHANGED refused

In(s) == parsing /\ held # <<>> /\ state = s

InitialBoundary ==
  LET pos == Find(held, dash_boundary_crlf) IN
  /\ In("initial")
  /\ IF pos = Len(held) THEN Waits
     ELSE Consumes(pos + Len(dash_boundary_crlf), "entry") /\ UNCHANGED <<is_valid, form>>
  /\ UNCHANGED <<items, lines, coming>>

NewEntry ==
  /\ In("entry")
  /\ Consumes(0, "headers")
  /\ UNCHANGED <<items, lines, coming, is_valid, form>>

(* How many bytes lie before place pos: of the line that has arrived up to *)
(* its end or, without one, of all that has.                               *)
SizeBefore(pos) ==
  IF pos > 0 /\ Head(held) = "H" THEN lines[Len(form) + 1] + (pos - 1) ELSE pos

(* The first line of an entry is measured before anything is done with it; *)
(* at the empty line header_callback counts the entries.                   *)
Headers ==
  LET pos == Find(held, crlf)
      long == SizeBefore(pos) > FormHeaderMax
  IN
  /\ In("headers")
  /\ \/ long /\ Refuses /\ UNCHANGED is_valid
     \/ ~long /\ pos = Len(held) /\ Waits
     \/ /\ ~long /\ 0 < pos /\ pos < Len(held)
        /\ Consumes(pos + Len(crlf), "headers")
        /\ UNCHANGED <<is_valid, form>>
     \/ /\ ~long /\ pos = 0 /\ pos < Len(held)
        /\ \/ Len(form) = FormItemsMax /\ Refuses /\ is_valid' = FALSE
           \/ /\ Len(form) # FormItemsMax
              /\ form' = Append(form, <<>>)
              /\ Consumes(Len(crlf), "body")
              /\ UNCHANGED is_valid
  /\ UNCHANGED <<items, lines, coming>>

(* content_callback appends to the entry begun last.                       *)
Receives(data) == form' = [form EXCEPT ![Len(form)] = @ \o data]

(* Without a boundary in sight, all is content but what may be the         *)
(* beginning of one.                                                       *)
MutantFlushed == Len(held)
Flushed == Len(held) - Len(crlf_dash_boundary)

Body ==
  LET pos == Find(held, crlf_dash_boundary) IN
  /\ In("body")
  /\ \/ Len(held) < Len(crlf_dash_boundary) /\ Waits
     \/ /\ pos < Len(held)
        /\ Receives(SubSeq(held, 1, pos))
        /\ Consumes(pos + Len(crlf_dash_boundary), "boundary")
        /\ UNCHANGED is_valid
     \/ /\ Len(held) >= Len(crlf_dash_boundary) /\ pos = Len(held)
        /\ Receives(SubSeq(held, 1, Flushed))
        /\ held' = Drop(held, Flushed)
        /\ parsing' = FALSE
        /\ UNCHANGED <<state, is_valid, refused>>
  /\ UNCHANGED <<items, lines, coming>>

(* After "--" the epilogue is thrown away, as far as it has arrived; what  *)
(* of it arrives later is parsed again in this state.                      *)
Boundary ==
  /\ In("boundary")
  /\ \/ Len(held) < Len(crlf) /\ Waits
     \/ /\ StartsAt(held, 0, crlf)
        /\ Consumes(Len(crlf), "entry")
        /\ UNCHANGED <<is_valid, form>>
     \/ /\ StartsAt(held, 0, dash)
        /\ is_valid' = TRUE
        /\ Consumes(Len(held), "boundary")
        /\ UNCHANGED form
     \/ /\ Len(held) >= Len(crlf)
        /\ ~StartsAt(held, 0, crlf) /\ ~StartsAt(held, 0, dash)
        /\ Waits
  /\ UNCHANGED <<items, lines, coming>>

Finished == ~parsing /\ (refused \/ coming = <<>>)

FormNext ==
  \/ \E n \in 1 .. Len(coming) : Feed(n)
  \/ InitialBoundary \/ NewEntry \/ Headers \/ Body \/ Boundary

FormSpec == FormInit /\ [][FormNext]_formVars
-----------------------------------------------------------------------------
(* However the body is cut into pieces, through a boundary, a line end or  *)
(* the content that looks like one, the form the server builds is the one  *)
(* the client sent, and on the way it is never more than a part of it; a   *)
(* form with too many items or too long a header line is refused, and no   *)
(* other.  A line of exactly the limit is on both sides of it: refused     *)
(* when a piece of the body ends inside its line end.                      *)
FormFits(limit) == Len(items) <= FormItemsMax /\ \A i \in 1 .. Len(items) : lines[i] <= limit

FormArrives ==
  /\ Len(form) <= Len(items)
  /\ \A i \in DOMAIN form : IsPrefix(form[i], items[i])
  /\ refused => ~FormFits(FormHeaderMax - 1)
  /\ Finished /\ ~refused => is_valid /\ form = items /\ FormFits(FormHeaderMax)
=============================================================================
