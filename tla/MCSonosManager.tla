--------------------------- MODULE MCSonosManager ---------------------------
EXTENDS SonosManager

Light(no, readable) == [no |-> no, readable |-> readable, ids |-> NotAnArray]

Schedule(no, readables) ==
    [no |-> no, readable |-> TRUE,
     ids |-> [i \in DOMAIN readables |-> Light(i, readables[i])]]

Plain(name, items) == [fields |-> FieldsOf(name), blank |-> {}, items |-> items]

(* A file every section of which can be read; the token is left blank.     *)
Good ==
    [name \in Sections |->
        CASE name = "Sonos" ->
                 [Plain(name, NotAnArray) EXCEPT !.blank = {"access_token"}]
          [] name = "Tesla" -> Plain(name, NotAnArray)
          [] name = "Scheduler" ->
                 Plain(name, <<Schedule(1, <<TRUE, TRUE>>), Schedule(2, <<>>)>>)
          [] OTHER -> Plain(name, <<Light(1, TRUE), Light(2, TRUE)>>)]

Replaced(name, section) == [Good EXCEPT ![name] = section]

(* One section missing, without one of its fields, or without its array;   *)
(* the second entry of an array unreadable; a token in the file.           *)
MCFiles ==
    {Good, [name \in Sections |-> Nothing],
     Replaced("Sonos", Plain("Sonos", NotAnArray)),
     Replaced("Scheduler",
              Plain("Scheduler", <<Schedule(1, <<TRUE, FALSE>>), Schedule(2, <<>>)>>)),
     Replaced("Scheduler",
              Plain("Scheduler", <<Light(1, TRUE), Light(2, TRUE)>>))}
    \cup {Replaced(name, Nothing) : name \in Sections}
    \cup {[Good EXCEPT ![name].fields = @ \ {field}] :
             name \in Sections, field \in {"scope", "key", "UTCOffset", "vehicleId"}}
    \cup {[Good EXCEPT ![name].items = <<Light(1, TRUE), Light(2, FALSE)>>] :
             name \in Sections \ {"Sonos", "Tesla"}}
    \cup {[Good EXCEPT ![name].items = NotAnArray] : name \in Sections}
=============================================================================
