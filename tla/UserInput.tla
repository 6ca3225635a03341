------------------------------- MODULE UserInput -------------------------------
(***************************************************************************)
(* What a user says, from the composer to the model: the parts of a wire   *)
(* message become one display text with tokens, the tokens are bound to    *)
(* files and published images, an edit reuses the bindings of the message  *)
(* it replaces, and the same display text is cut into parts again for the  *)
(* view. Images are normalised, named by their content and published       *)
(* beside each other. A text is a sequence of symbols: a word, a fence     *)
(* that opens or closes a block of code, a token of a file or an image.    *)
(***************************************************************************)
EXTENDS Integers, FiniteSets, Sequences
LOCAL INSTANCE SequencesExt

CONSTANTS FileIds,      \* ids of ordinary attachments
          OddIds,       \* those with a character the locator of the view does not admit
          TrickyIds,    \* those whose path itself reads like a token
          Uploads,      \* uploads and imports that may run at a time
          MaxImages,    \* max_images_per_request
          MaxBytes,     \* request_total_max_bytes, in images
          MaxEdits      \* bound: edits of the message

ASSUME UserInputAssumption ==
  OddIds \subseteq FileIds /\ TrickyIds \subseteq FileIds /\ {MaxImages, MaxBytes, MaxEdits} \subseteq Nat

VARIABLES store,     \* the published images
          temps,     \* the staging files, by what wrote them
          upload,    \* what each upload does
          read,      \* the images read_image handed to the model
          admitted,  \* what became of the last message: its presentation and model text, or why not
          edits      \* bound: messages sent and edited

userInputVars == <<store, temps, upload, read, admitted, edits>>

-----------------------------------------------------------------------------
(* normalize_image. A source is as large as the policy admits or larger,     *)
(* upright or turned, or no image that is supported; what comes out is named *)
(* by its content.                                                           *)
Uploaded == {"plain", "large", "turned", "scaled", "other"}
NoImage == "none"

Supported(source) == source # "other"
Resized(source)   == IF source = "large" THEN "scaled" ELSE source
Saved(source)     == IF source = "turned" THEN "upright" ELSE Resized(source)

Normalised(source) == IF Supported(source) THEN Saved(source) ELSE NoImage

(* An asset needs no normalisation any more.                                *)
Images == {"plain", "scaled", "upright"}

-----------------------------------------------------------------------------
(* find_message_tokens: tokens inside code are text.                         *)
Symbol(kind, id) == [kind |-> kind, id |-> id]
Word  == Symbol("word", "w")
Fence == Symbol("fence", "f")
FileToken(f)  == Symbol("file", f)
ImageToken(i) == Symbol("image", i)

InCode(text, n) == Cardinality({m \in 1..(n - 1) : text[m] = Fence}) % 2 = 1
FoundTokens(text, kinds) == {n \in DOMAIN text : text[n].kind \in kinds /\ ~InCode(text, n)}
Named(text, kind) == {text[n].id : n \in FoundTokens(text, {kind})}

(* replace_message_tokens: one pass over the text.                          *)
Substituted(text, By(_)) ==
  FoldLeft(LAMBDA done, n : done \o IF n \in FoundTokens(text, {"file", "image"}) THEN By(text[n]) ELSE <<text[n]>>,
           <<>>, [n \in DOMAIN text |-> n])

-----------------------------------------------------------------------------
(* task_command_request. A part of the wire is a text or an image.           *)
TextOf(symbols) == [symbols |-> symbols, image |-> NoImage]
ImageOf(i)      == [symbols |-> <<>>, image |-> i]
IsImage(p)      == p.image # NoImage

Ordered(parts) ==
  LET inTexts == UNION {Named(parts[n].symbols, "image") : n \in DOMAIN parts}
      step(acc, p) ==
        IF ~IsImage(p) THEN [acc EXCEPT !.text = @ \o p.symbols]
        ELSE IF p.image \in acc.emitted THEN acc
        ELSE [text |-> Append(acc.text, ImageToken(p.image)), emitted |-> acc.emitted \cup {p.image}]
  IN FoldLeft(step, [text |-> <<>>, emitted |-> inTexts], parts).text

(* to_run_command. Paths come with the request or do not.                    *)
NoPaths == [f \in FileIds |-> FALSE]
Command(parts, paths) ==
  [text |-> Ordered(parts),
   images |-> {parts[n].image : n \in {m \in DOMAIN parts : IsImage(parts[m])}},
   paths |-> paths]

(* _reuse_attachments: an edit falls back on what the message was bound to.  *)
Reused(command, before) == [command EXCEPT !.paths = [f \in FileIds |-> @[f] \/ before[f]]]

-----------------------------------------------------------------------------
(* UserInputService.prepare.                                                 *)
Accepted(text, command) ==
  [code |-> "accepted", display |-> command.text, images |-> command.images,
   bound |-> [f \in FileIds |-> command.paths[f] /\ f \in Named(command.text, "file")], text |-> text]
Refused(code) ==
  [code |-> code, display |-> <<>>, images |-> {}, bound |-> NoPaths, text |-> <<>>]

UnboundImages(command) == Named(command.text, "image") \ command.images
UnboundFiles(command)  == {f \in Named(command.text, "file") : ~command.paths[f]}

PathOf(f) == <<Symbol("path", f)>> \o IF f \in TrickyIds THEN <<ImageToken("plain")>> ELSE <<>>

InputText(text) ==
  LET by(sym) == IF sym.kind = "file" THEN PathOf(sym.id) ELSE <<>> IN Substituted(text, by)

(* resolve_image_assets_for_run                                              *)
AssetsFit(images) == Cardinality(images) <= MaxImages /\ Cardinality(images) <= MaxBytes
AssetsThere(images) == images \subseteq store

Prepared(command, sees) ==
  LET text == InputText(command.text) IN
  IF command.images # {} /\ ~sees THEN Refused("image not supported")
  ELSE IF UnboundImages(command) # {} THEN Refused("image unavailable")
  ELSE IF UnboundFiles(command) # {} THEN Refused("attachment unavailable")
  ELSE IF ~AssetsThere(command.images) THEN Refused("not found")
  ELSE IF ~AssetsFit(command.images) THEN Refused("too many")
  ELSE IF text = <<>> /\ command.images = {} THEN Refused("empty")
  ELSE Accepted(text, command)

-----------------------------------------------------------------------------
(* build_user_input_parts: raises for a token or a locator it cannot show.   *)
Malformed(said) == {f \in FileIds : said.bound[f]} \cap OddIds # {}
Unresolved(said) ==
  \/ \E f \in Named(said.display, "file") : ~said.bound[f]
  \/ Named(said.display, "image") \ said.images # {}

(* What the view shows of a message: each file and image once, the images    *)
(* the text does not mention behind it.                                      *)
FirstOnes(text) ==
  {n \in FoundTokens(text, {"file", "image"}) : \A m \in FoundTokens(text, {"file", "image"}) : m < n => text[m] # text[n]}
Cut(said) ==
  LET text == said.display
      kept == SelectSeq([n \in DOMAIN text |-> n],
                        LAMBDA n : n \notin FoundTokens(text, {"file", "image"}) \/ n \in FirstOnes(text))
  IN [n \in DOMAIN kept |-> text[kept[n]]]
     \o SetToSeq({ImageToken(i) : i \in said.images \ Named(text, "image")})

Raises == <<Symbol("raises", "r")>>
ViewOf(said) == IF Malformed(said) \/ Unresolved(said) \/ Cut(said) = <<>> THEN Raises ELSE Cut(said)

(* user_message_with_images and resolve_messages_for_model: the model gets   *)
(* the text and the images as they are stored when it is asked.              *)
ForModel(said) == [text |-> said.text, images |-> said.images \cap store]
-----------------------------------------------------------------------------
(* AttachmentService. An upload is read into a staging file, normalised into *)
(* a second one, linked under the name of its content without replacing what *)
(* is there, and answered when the name can be found.                        *)
(* Bound: everything is uploaded before something is said.                   *)
NoUpload == [at |-> "idle", source |-> "plain", asset |-> NoImage]

UserInputInit ==
  /\ store = {} /\ temps = {} /\ read = <<>> /\ edits = 0
  /\ upload = [u \in Uploads |-> NoUpload]
  /\ admitted = Refused("nothing said")

Staging(u, file) == <<u, file>>

Uploading(u, source) ==
  /\ upload[u].at = "idle" /\ edits = 0
  /\ upload' = [upload EXCEPT ![u] = [at |-> "reading", source |-> source, asset |-> NoImage]]
  /\ temps' = temps \cup {Staging(u, "raw")}
  /\ UNCHANGED <<store, read, admitted, edits>>

(* import_image reads the file where it is: no staging file of its own.     *)
Imports(u, source) ==
  /\ upload[u].at = "idle" /\ edits = 0
  /\ upload' = [upload EXCEPT ![u] = [at |-> "raw", source |-> source, asset |-> NoImage]]
  /\ UNCHANGED <<store, temps, read, admitted, edits>>

(* Mutant of Cleared: what was normalised is only removed when it was       *)
(* published.                                                               *)
ClearedRaw(u) == temps \ {Staging(u, "raw")}

Cleared(u) == temps \ {Staging(u, "raw"), Staging(u, "normal")}

(* Too large, the client went away, the disk is full.                       *)
UploadFails(u) ==
  /\ upload[u].at \in {"reading", "raw", "normal"}
  /\ upload' = [upload EXCEPT ![u] = NoUpload]
  /\ temps' = Cleared(u)
  /\ UNCHANGED <<store, read, admitted, edits>>

Received(u) ==
  /\ upload[u].at = "reading"
  /\ upload' = [upload EXCEPT ![u].at = "raw"]
  /\ UNCHANGED <<store, temps, read, admitted, edits>>

Normalises(u) ==
  /\ upload[u].at = "raw"
  /\ LET asset == Normalised(upload[u].source) IN
     IF asset = NoImage
     THEN upload' = [upload EXCEPT ![u] = NoUpload] /\ temps' = Cleared(u)
     ELSE /\ upload' = [upload EXCEPT ![u] = [@ EXCEPT !.at = "normal", !.asset = asset]]
          /\ temps' = temps \cup {Staging(u, "normal")}
  /\ UNCHANGED <<store, read, admitted, edits>>

(* os.link; the name of another upload of the same content is taken for it. *)
Publishes(u) ==
  /\ upload[u].at = "normal"
  /\ store' = store \cup {upload[u].asset}
  /\ temps' = Cleared(u)
  /\ upload' = [upload EXCEPT ![u].at = "ready"]
  /\ UNCHANGED <<read, admitted, edits>>

UploadAnswered(u) ==
  /\ upload[u].at = "ready" /\ upload' = [upload EXCEPT ![u] = NoUpload]
  /\ UNCHANGED <<store, temps, read, admitted, edits>>

(* An image that would exceed the total is left out, published as it is.    *)
Fitted(done, asset) == IF Len(done) + 1 > MaxBytes THEN done ELSE Append(done, asset)

NothingUploads == \A u \in Uploads : upload[u] = NoUpload

(* ReadImageTool: every path is imported; what fails or does not fit is told *)
(* beside what was read. Bound: nothing happens after it.                    *)
ReadsImages(sources) ==
  LET good == SelectSeq(sources, Supported) IN
  /\ NothingUploads /\ edits = 0
  /\ store' = store \cup {Normalised(good[n]) : n \in DOMAIN good}
  /\ read' = FoldLeft(LAMBDA done, source : Fitted(done, Normalised(source)), <<>>, good)
  /\ edits' = MaxEdits + 1
  /\ UNCHANGED <<temps, upload, admitted>>

-----------------------------------------------------------------------------
(* TransportAssistantService.send and rerun; _accept turns what is refused   *)
(* into an answer and nothing is queued.                                     *)
Symbols == {Word, Fence} \cup {FileToken(f) : f \in FileIds} \cup {ImageToken("plain")}
WireParts == {TextOf(<<a>>) : a \in Symbols} \cup {ImageOf(i) : i \in {"plain", "scaled"}}
LongTexts == {TextOf(<<a, b>>) : a, b \in Symbols}
Messages == {<<p, q>> : p \in WireParts \cup LongTexts, q \in WireParts} \cup {<<p>> : p \in WireParts \cup LongTexts}
PathSets == [FileIds -> BOOLEAN]

Sends(parts, paths, sees) ==
  /\ NothingUploads /\ edits = 0
  /\ admitted' = Prepared(Command(parts, paths), sees)
  /\ edits' = 1
  /\ UNCHANGED <<store, temps, upload, read>>

Resends(parts, paths, sees) ==
  /\ NothingUploads /\ edits \in 1..MaxEdits /\ admitted.code = "accepted"
  /\ LET answer == Prepared(Reused(Command(parts, paths), admitted.bound), sees) IN
     answer.code = "accepted" /\ admitted' = answer
  /\ edits' = edits + 1
  /\ UNCHANGED <<store, temps, upload, read>>

UserInputNext ==
  \/ \E u \in Uploads :
       \/ \E source \in Uploaded : Uploading(u, source) \/ Imports(u, source)
       \/ Received(u) \/ Normalises(u) \/ Publishes(u) \/ UploadAnswered(u) \/ UploadFails(u)
  \/ \E source, other \in Uploaded : source # other /\ ReadsImages(<<source, other>>)
  \/ \E parts \in Messages, paths \in PathSets, sees \in BOOLEAN :
       Sends(parts, paths, sees) \/ (sees /\ Resends(parts, paths, sees))

UserInputSpec == UserInputInit /\ [][UserInputNext]_userInputVars

UserInputTypeOK ==
  /\ store \subseteq Images /\ edits \in 0..(MaxEdits + 1)
  /\ temps \subseteq Uploads \X {"raw", "normal"}
  /\ \A u \in Uploads : upload[u].at \in {"idle", "reading", "raw", "normal", "ready"}

-----------------------------------------------------------------------------
(* What is admitted can be shown and understood: the view of a queued or     *)
(* consumed message is built without raising from the bindings it was        *)
(* admitted with, so that no projection fails once its Run exists, it shows  *)
(* every image, and the model reads the whole path of each file where its    *)
(* token stood and finds every image (user_input_service.py, prepare and     *)
(* _check_image_token_bindings; build_user_input_parts).                     *)
InputIsShown ==
  admitted.code = "accepted" =>
    LET view  == ViewOf(admitted)
        files == SelectSeq(admitted.text, LAMBDA sym : sym.kind = "path")
    IN /\ view # Raises
       /\ admitted.images \subseteq {view[n].id : n \in DOMAIN view}
       /\ ForModel(admitted).images = admitted.images
       /\ \A f \in Named(admitted.display, "file") :
            \E n \in DOMAIN admitted.text :
              /\ n + Len(PathOf(f)) - 1 <= Len(admitted.text)
              /\ SubSeq(admitted.text, n, n + Len(PathOf(f)) - 1) = PathOf(f)
       /\ Len(files) = Cardinality(FoundTokens(admitted.display, {"file"}))

(* The attachments are whole: what is published needs no normalisation, so   *)
(* that the same picture has one name; an upload that was answered is found; *)
(* a staging file belongs to an upload that still runs; and the images of    *)
(* one read_image call are published and fit together into one request       *)
(* (attachment_service.py, _publish and upload; image_normalizer.py;         *)
(* read_image.py, execute).                                                  *)
StoreIsCanonical ==
  /\ store \subseteq Images
  /\ Len(read) <= MaxBytes /\ \A n \in DOMAIN read : read[n] \in store
  /\ \A u \in Uploads :
       /\ upload[u].at = "ready" => upload[u].asset \in store
       /\ upload[u] = NoUpload => \A file \in {"raw", "normal"} : Staging(u, file) \notin temps
=============================================================================
