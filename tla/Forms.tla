-------------------------------- MODULE Forms --------------------------------
(***************************************************************************)
(* components/ui/form.tsx over react-hook-form, and FieldError of          *)
(* components/ui/field.tsx: how the outcome of a validation reaches the    *)
(* control it is about.  react-hook-form keeps the errors by the field's   *)
(* name, the parts of a FormItem find one another by ids made from one     *)
(* useId, and FieldError memoizes what it makes of the errors it is given. *)
(***************************************************************************)
EXTENDS Integers, Sequences

CONSTANT Fields   \* names of fields, each with its FormItem

VARIABLES fieldErrors,  \* formState.errors: none | silent (without a message) | text
          hint,         \* hint[f]: FormMessage has children
          children,     \* FieldError has children
          errors,       \* its errors prop: undefined, or what each entry has to say
          fieldContent  \* its memo: dependencies and value

formVars == <<fieldErrors, hint, children, errors, fieldContent>>

NoErrors == <<"undefined">>
ErrorLists == {<<>>, NoErrors} \cup {<<e>> : e \in {"silent", "text"}}
                \cup {<<d, e>> : d, e \in {"silent", "text"}}

(* The body of the useMemo of FieldError: nothing, the children, the only  *)
(* message, or a list of the messages there are, by index.                 *)
FieldContent ==
  CASE children -> [is |-> "children", of |-> {}]
    [] ~children /\ errors = NoErrors -> [is |-> "nothing", of |-> {}]
    [] ~children /\ errors # NoErrors ->
         [is |-> IF errors = <<"text">> THEN "message" ELSE "list",
          of |-> {i \in DOMAIN errors : errors[i] = "text"}]

FieldDeps == <<children, errors>>

FormsInit(hints) ==
  /\ fieldErrors = [f \in Fields |-> "none"]
  /\ hint \in hints
  /\ children = FALSE /\ errors = NoErrors
  /\ fieldContent = [deps |-> FieldDeps, value |-> FieldContent]

(* react-hook-form has validated: another error for f, or none. *)
Validated(f, e) ==
  /\ e # fieldErrors[f]
  /\ fieldErrors' = [fieldErrors EXCEPT ![f] = e]
  /\ UNCHANGED <<hint, children, errors, fieldContent>>

(* FieldError renders with other props. *)
FieldError(c, es) ==
  /\ <<c, es>> # <<children, errors>>
  /\ children' = c /\ errors' = es
  /\ fieldContent' = IF FieldDeps' = fieldContent.deps THEN fieldContent
                     ELSE [deps |-> FieldDeps', value |-> FieldContent']
  /\ UNCHANGED <<fieldErrors, hint>>

ValidatedNext == \E f \in Fields, e \in {"none", "silent", "text"} : Validated(f, e)
FieldErrorNext == \E c \in BOOLEAN, es \in ErrorLists : FieldError(c, es)

-----------------------------------------------------------------------------
(* What is rendered.                                                       *)

(* useFormField: the ids of the FormItem around, and the field's state *)
FormItemId(f) == <<f, "form-item">>
FormDescriptionId(f) == <<f, "form-item-description">>
FormMessageId(f) == <<f, "form-item-message">>
HasError(f) == fieldErrors[f] # "none"

FormControl(f) ==
  [id |-> FormItemId(f), invalid |-> HasError(f),
   describedBy |-> {FormDescriptionId(f)} \cup IF HasError(f) THEN {FormMessageId(f)} ELSE {}]
FormLabel(f) == [htmlFor |-> FormItemId(f), destructive |-> HasError(f)]

(* The paragraph of a FormMessage: none without a body. *)
FormMessage(f) ==
  LET body == IF HasError(f) THEN fieldErrors[f] ELSE IF hint[f] THEN "hint" ELSE "none"
  IN IF body \in {"none", "silent"} THEN {} ELSE {[id |-> FormMessageId(f), body |-> body]}

(* A field with an error that has a message is marked invalid at its label *)
(* and its control, the control is described by a paragraph that is there  *)
(* and shows that error, and by no other field's; a field without one      *)
(* shows none.  FieldError says every message of the errors it has now.    *)
ErrorAnnounced ==
  /\ \A f \in Fields :
       LET shown == UNION {FormMessage(g) : g \in Fields}
           read == {m \in shown : m.id \in FormControl(f).describedBy}
       IN /\ FormLabel(f).htmlFor = FormControl(f).id
          /\ FormLabel(f).destructive = FormControl(f).invalid
          /\ fieldErrors[f] = "text" => FormControl(f).invalid /\ {m.body : m \in read} = {"text"}
          /\ fieldErrors[f] = "none" => ~FormControl(f).invalid /\ read = {}
  /\ fieldContent.value.of = IF children \/ errors = NoErrors THEN {}
                             ELSE {i \in DOMAIN errors : errors[i] = "text"}
===============================================================================
