------------------------------ MODULE MCGateway ------------------------------
(* Instances of Gateway: an administrator with a meddling colleague, holders of  *)
(* API keys, and users who upload, two clients at a time.                        *)
EXTENDS Gateway

MCNumberOf == [n \in {"0"} |-> 0]
MCStart(clients, settings, seeds) ==
    [active: {clients}, setting: settings, seeded: seeds]
MCSettings == {[type |-> "BOOLEAN", value |-> "false"], [type |-> "BOOLEAN", value |-> "true"],
               [type |-> "STRING", value |-> "false"], [type |-> "NUMBER", value |-> "0"]}
MCOffers == {[type |-> "BOOLEAN", value |-> "true"], [type |-> "BOOLEAN", value |-> "off"],
             [type |-> "STRING", value |-> ""], [type |-> "ARRAY_OF_STRING", value |-> "0"],
             [type |-> "NUMBER", value |-> "off"]}

MCOff == [type |-> "BOOLEAN", value |-> "false"]
MCOn == [type |-> "BOOLEAN", value |-> "true"]
MCPlans == MCStart({Admin, Other}, MCSettings, {TRUE})
           \cup MCStart(Machines, {MCOff}, {TRUE})
           \cup MCStart(Uploaders, {MCOff, MCOn, None}, {TRUE})

MCMimes == [image |-> {"png"}, excel |-> {"csv"}, video |-> {"mp4"}, audio |-> {"mp3", "mp4"}]
MCMaxFileSize == [image |-> 1, excel |-> 2, video |-> 2, audio |-> 2]
MCMaxFiles == [image |-> 3, excel |-> 1, video |-> 1, audio |-> 1]

File(mime, size, lines) ==
    [mime |-> mime, size |-> size, readable |-> TRUE, rows |-> lines]
Corrupt == [File("csv", 2, << >>) EXCEPT !.readable = FALSE]
MCFiles == {File("png", 1, << >>), File("png", 2, << >>), File("mp4", 2, << >>),
            File("csv", 2, <<TRUE, FALSE>>), File("csv", 2, <<TRUE>>), File("csv", 3, <<TRUE>>),
            File("mp3", 0, << >>), Corrupt}
MCArrays == {<< >>} \cup {<<f, g>> : f \in {File("png", 1, << >>), File("csv", 2, <<TRUE>>)}, g \in MCFiles}
              \cup {<<f, f, f, f>> : f \in MCFiles} \cup {<<f>> : f \in MCFiles}
MCPipeable == {None} \cup {One(f) : f \in MCFiles} \cup {Many(a) : a \in MCArrays}
MCUploadable == {One(File("png", 1, << >>)), One(File("png", 2, << >>)), One(File("mp4", 1, << >>))}
MCPayloads == {[body |-> "whole", agent |-> "known"], [body |-> "whole", agent |-> "foreign"],
               [body |-> "whole", agent |-> None], [body |-> "partial", agent |-> "known"],
               [body |-> "foreign", agent |-> "known"], [body |-> "garbled", agent |-> "known"],
               [body |-> "none", agent |-> "known"]}
=============================================================================
