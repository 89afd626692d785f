---- MODULE MCPolicy ---------------------------------------------------------
(****************************************************************************)
(* The parts that decide and keep account: chats and model providers,       *)
(* scores and swarms, tokens, bounty work, confirmations, documents,        *)
(* parties outside.  They share no state, so each is checked by itself:     *)
(* what moves is chosen in the initial state, and the others keep theirs.   *)
(****************************************************************************)
EXTENDS Integers, Sequences, FiniteSets, TLC

CONSTANTS Turns, NoTurn, Uploads, Malformed, MaxAttached, DeclaredTypes,
          ByteKinds, Named, MaxFrames, Providers, SeededProviders, VaultKeys,
          NoKey, AdminCalls, SharedBedrock, Swarms, MaxExperiments, MaxSwarms,
          SwarmAgents, Joining, SwarmSizes, SwarmCallers, Scored, Collections,
          MaxCollections, MaxReports, Nobody, Weighed, Weights, Fitnesses,
          MaxRounds, Contributors, Emission, MaxRaw, BountyValues, U64,
          MaxEntries, Holders, Fees, Stakes, MaxFees, Original, Held,
          Revenues, Costs, Tiers, Tenures, MaxBounties, MaxOpen, HtmlLength,
          DocxLength, PdfLength, MaxChars, Overlap, Shapes, MaxParagraphs,
          Memories, Documents, Chunks, Batch, Limit, ShellCommands,
          Destructive, MaxTokens, MaxProcesses, Editors, Patches, Later,
          MaxVersions, Names, Items, Categories, PollLimit, NoCategory,
          Tenants, Wallets, WalletCalls, Specialties, FirstSpecialty,
          EnvSpecialties, ToolCalls, MaxHarnesses, NoSpecialty, Quality,
          Points, DefaultLimit, QualityWidth, LimitWidth, Values, Garbled,
          ContextLines, Prices, CostThreshold, HasLocalModel, MaxEvents,
          Bounties, Verifiers, MaxEdits, MaxTests, MaxIntakes, Sessions,
          UnknownId

VARIABLES part, deleted, messages, turns, together, totals, rowsLlm, vault,
          mode, adminCalls, cutOff, prompt, rows, cooling, actor, overlapped,
          dropped, swarmCount, tree, members, settings, joined, swarmCall,
          roomiest, asked, crossed, totalPoints, pointsToday, distributed,
          awards, entered, collected, holderPool, feesBurned, labs, stakes,
          payouts, claimed, balance, tenure, burned, recycled, completions,
          rejections, open, trustLevel, announced, storedLevel, internalLast,
          hookLast, reports, raced, collection, collections, cards, score,
          weighed, weightOf, fitnessOf, rounds, plan, rank, files,
          uploadsRows, uploading, deleting, chat, ingested, service, memory,
          document, inserted, vectors, embedded, accessed, fellBack,
          paragraphs, issued, pending, expired, denied, processes, file, edit,
          applied, overwritten, wire, arrived, parser, events, answer,
          running, made, known, envUnwritten, calls, connected, requests,
          answeredTo, injected, agents, items, doing, tool, accepted,
          agentContextFile, context, format, doc, extracted, text, work,
          attempt, failed, bountyProofAnswer, log, proof, submission, intakes,
          bountyStatus, filing, told, lost, check, protocolIntakeReports,
          claim, command, cached, dirs, workspaceCalls, tests, timeouts

chatVars == <<deleted, messages, turns, together, totals>>
llmVars == <<rowsLlm, vault, mode, adminCalls, cutOff>>
experimentsVars == <<prompt, rows, cooling, actor, overlapped, dropped>>
swarmsVars == <<swarmCount, tree, members>>
swarmMembersVars == <<settings, joined, swarmCall, roomiest, asked, crossed>>
tokensVars == <<totalPoints, pointsToday, distributed, awards, entered>>
feesVars == <<collected, holderPool, feesBurned, labs, stakes, payouts,
              claimed>>
decayVars == <<balance, tenure, burned, recycled>>
trustVars == <<completions, rejections, open, trustLevel, announced,
               storedLevel>>
fitnessVars == <<internalLast, hookLast, reports, raced, collection,
                 collections, cards, score>>
weightsVars == <<weighed, weightOf, fitnessOf, rounds, plan, rank>>
uploadsVars == <<files, uploadsRows, uploading, deleting, chat, ingested>>
knowledgeVars == <<service, memory, document, inserted, vectors, embedded,
                   accessed, fellBack>>
chunksVars == <<paragraphs>>
confirmVars == <<issued, pending, expired, denied, processes>>
filesVars == <<file, edit, applied, overwritten>>
streamVars == <<wire, arrived, parser, events, answer>>
specialistsVars == <<running, made, known, envUnwritten, calls>>
walletsVars == <<connected, requests, answeredTo, injected>>
externalVars == <<agents, items, doing, tool, accepted>>
agentContextVars == <<agentContextFile, context>>
documentTextVars == <<format, doc, extracted, text>>
bountyProofVars == <<work, attempt, failed, bountyProofAnswer, log, proof,
                     submission>>
protocolIntakeVars == <<intakes, bountyStatus, filing, told, lost, check,
                        protocolIntakeReports>>
workspaceVars == <<claim, command, cached, dirs, workspaceCalls, tests,
                   timeouts>>
vars == <<part, chatVars, llmVars, experimentsVars, swarmsVars,
          swarmMembersVars, tokensVars, feesVars, decayVars, trustVars,
          fitnessVars, weightsVars, uploadsVars, knowledgeVars, chunksVars,
          confirmVars, filesVars, streamVars, specialistsVars, walletsVars,
          externalVars, agentContextVars, documentTextVars, bountyProofVars,
          protocolIntakeVars, workspaceVars>>

AgentProxy == INSTANCE AgentProxy WITH rows <- uploadsRows
LlmProviders == INSTANCE LlmProviders
Experiments == INSTANCE Experiments
SwarmRouting == INSTANCE SwarmRouting
TokenEconomy == INSTANCE TokenEconomy
DocumentsPart == INSTANCE Documents
SystemTools == INSTANCE SystemTools
OutsideParties == INSTANCE OutsideParties
AgentContext == INSTANCE AgentContext WITH file <- agentContextFile
BountyWork == INSTANCE BountyWork WITH answer <- bountyProofAnswer, reports <-
                                       protocolIntakeReports, calls <-
                                       workspaceCalls

\* What the theorems assume of the constants.
ASSUME ConstantsOfPolicy ==
  /\ {Emission, U64, MaxRaw, MaxEntries, MaxFees, Original, Held} \subseteq Nat
  /\ {MaxBounties, MaxOpen, MaxTokens, MaxIntakes, MaxHarnesses} \subseteq Nat
  /\ {MaxVersions, MaxEdits, MaxTests, MaxEvents, CostThreshold} \subseteq Nat
  /\ {MaxAttached, MaxFrames, MaxExperiments, MaxSwarms, MaxCollections, MaxReports} \subseteq Nat
  /\ {MaxRounds, MaxChars, Overlap, MaxParagraphs, Batch, Limit} \subseteq Nat
  /\ BountyValues \subseteq Nat /\ Fees \subseteq Nat /\ Stakes \subseteq Nat
  /\ Revenues \subseteq Nat /\ Costs \subseteq Nat /\ Tenures \subseteq Nat
  /\ IsFiniteSet(Contributors) /\ IsFiniteSet(Holders) /\ IsFiniteSet(Turns) /\ Nobody \notin Tenants
  /\ LimitWidth \in Nat /\ DefaultLimit \in 0 .. (LimitWidth - 1) /\ Values \subseteq Nat
  /\ NoKey \notin VaultKeys
  /\ Weights \subseteq Nat /\ Fitnesses \subseteq Nat /\ 0 \in Fitnesses /\ IsFiniteSet(Weighed)
  /\ SwarmSizes \subseteq Nat /\ SwarmSizes # {} /\ IsFiniteSet(SwarmCallers) /\ SwarmCallers # {}
  /\ UnknownId \notin 1 .. MaxIntakes /\ IsFiniteSet(Sessions) /\ IsFiniteSet(Verifiers)

PartNames == {"chat", "llm", "experiments", "swarms", "swarmMembers",
              "tokens", "fees", "decay", "trust", "fitness", "weights",
              "uploads", "knowledge", "chunks", "confirm", "files", "stream",
              "specialists", "wallets", "external", "agentContext",
              "documentText", "bountyProof", "protocolIntake", "workspace"}

Init ==
  /\ part \in PartNames
  /\ AgentProxy!ChatTurnsInit
  /\ LlmProviders!Init
  /\ Experiments!Init
  /\ SwarmRouting!SwarmsInit
  /\ SwarmRouting!SwarmMembersInit
  /\ TokenEconomy!TokenDayInit
  /\ TokenEconomy!FeePoolInit
  /\ TokenEconomy!StakeDecayInit
  /\ TokenEconomy!TrustInit
  /\ SwarmRouting!FitnessInit
  /\ SwarmRouting!SwarmWeightsInit
  /\ AgentProxy!UploadsInit
  /\ DocumentsPart!KnowledgeInit
  /\ DocumentsPart!TextChunksInit
  /\ SystemTools!ConfirmationsInit
  /\ SystemTools!FileEditsInit
  /\ AgentProxy!BedrockStreamInit
  /\ OutsideParties!SpecialistsInit
  /\ OutsideParties!WalletsInit
  /\ OutsideParties!ExternalAgentsInit
  /\ AgentContext!Init
  /\ DocumentsPart!DocumentTextInit
  /\ BountyWork!BountyProofInit
  /\ BountyWork!ProtocolIntakeInit
  /\ BountyWork!BountyWorkspaceInit

\* The parts other than t keep their state.
Still(t) ==
  /\ IF t # "chat" THEN UNCHANGED chatVars ELSE TRUE
  /\ IF t # "llm" THEN UNCHANGED llmVars ELSE TRUE
  /\ IF t # "experiments" THEN UNCHANGED experimentsVars ELSE TRUE
  /\ IF t # "swarms" THEN UNCHANGED swarmsVars ELSE TRUE
  /\ IF t # "swarmMembers" THEN UNCHANGED swarmMembersVars ELSE TRUE
  /\ IF t # "tokens" THEN UNCHANGED tokensVars ELSE TRUE
  /\ IF t # "fees" THEN UNCHANGED feesVars ELSE TRUE
  /\ IF t # "decay" THEN UNCHANGED decayVars ELSE TRUE
  /\ IF t # "trust" THEN UNCHANGED trustVars ELSE TRUE
  /\ IF t # "fitness" THEN UNCHANGED fitnessVars ELSE TRUE
  /\ IF t # "weights" THEN UNCHANGED weightsVars ELSE TRUE
  /\ IF t # "uploads" THEN UNCHANGED uploadsVars ELSE TRUE
  /\ IF t # "knowledge" THEN UNCHANGED knowledgeVars ELSE TRUE
  /\ IF t # "chunks" THEN UNCHANGED chunksVars ELSE TRUE
  /\ IF t # "confirm" THEN UNCHANGED confirmVars ELSE TRUE
  /\ IF t # "files" THEN UNCHANGED filesVars ELSE TRUE
  /\ IF t # "stream" THEN UNCHANGED streamVars ELSE TRUE
  /\ IF t # "specialists" THEN UNCHANGED specialistsVars ELSE TRUE
  /\ IF t # "wallets" THEN UNCHANGED walletsVars ELSE TRUE
  /\ IF t # "external" THEN UNCHANGED externalVars ELSE TRUE
  /\ IF t # "agentContext" THEN UNCHANGED agentContextVars ELSE TRUE
  /\ IF t # "documentText" THEN UNCHANGED documentTextVars ELSE TRUE
  /\ IF t # "bountyProof" THEN UNCHANGED bountyProofVars ELSE TRUE
  /\ IF t # "protocolIntake" THEN UNCHANGED protocolIntakeVars ELSE TRUE
  /\ IF t # "workspace" THEN UNCHANGED workspaceVars ELSE TRUE

Next ==
  /\ UNCHANGED part
  /\ \/ part = "chat" /\ AgentProxy!ChatTurnsNext /\ Still("chat")
     \/ part = "llm" /\ LlmProviders!Next /\ Still("llm")
     \/ part = "experiments" /\ Experiments!Next /\ Still("experiments")
     \/ part = "swarms" /\ SwarmRouting!SwarmsNext /\ Still("swarms")
     \/ part = "swarmMembers" /\ SwarmRouting!SwarmMembersNext /\ Still("swarmMembers")
     \/ part = "tokens" /\ TokenEconomy!TokenDayNext /\ Still("tokens")
     \/ part = "fees" /\ TokenEconomy!FeePoolNext /\ Still("fees")
     \/ part = "decay" /\ TokenEconomy!StakeDecayNext /\ Still("decay")
     \/ part = "trust" /\ TokenEconomy!TrustNext /\ Still("trust")
     \/ part = "fitness" /\ SwarmRouting!FitnessNext /\ Still("fitness")
     \/ part = "weights" /\ SwarmRouting!SwarmWeightsNext /\ Still("weights")
     \/ part = "uploads" /\ AgentProxy!UploadsNext /\ Still("uploads")
     \/ part = "knowledge" /\ DocumentsPart!KnowledgeNext /\ Still("knowledge")
     \/ part = "chunks" /\ DocumentsPart!TextChunksNext /\ Still("chunks")
     \/ part = "confirm" /\ SystemTools!ConfirmationsNext /\ Still("confirm")
     \/ part = "files" /\ SystemTools!FileEditsNext /\ Still("files")
     \/ part = "stream" /\ AgentProxy!BedrockStreamNext /\ Still("stream")
     \/ part = "specialists" /\ OutsideParties!SpecialistsNext /\ Still("specialists")
     \/ part = "wallets" /\ OutsideParties!WalletsNext /\ Still("wallets")
     \/ part = "external" /\ OutsideParties!ExternalAgentsNext /\ Still("external")
     \/ part = "agentContext" /\ AgentContext!Next /\ Still("agentContext")
     \/ part = "documentText" /\ DocumentsPart!DocumentTextNext /\ Still("documentText")
     \/ part = "bountyProof" /\ BountyWork!BountyProofNext /\ Still("bountyProof")
     \/ part = "protocolIntake" /\ BountyWork!ProtocolIntakeNext /\ Still("protocolIntake")
     \/ part = "workspace" /\ BountyWork!BountyWorkspaceNext /\ Still("workspace")

Spec == Init /\ [][Next]_vars

TypeOK ==
  /\ part = "chat" => AgentProxy!ChatTurnsTypeOK
  /\ part = "llm" => LlmProviders!TypeOK
  /\ part = "experiments" => Experiments!TypeOK
  /\ part = "swarms" => SwarmRouting!SwarmsTypeOK
  /\ part = "swarmMembers" => SwarmRouting!SwarmMembersTypeOK
  /\ part = "tokens" => TokenEconomy!TokenDayTypeOK
  /\ part = "fees" => TokenEconomy!FeePoolTypeOK
  /\ part = "decay" => TokenEconomy!StakeDecayTypeOK
  /\ part = "trust" => TokenEconomy!TrustTypeOK
  /\ part = "fitness" => SwarmRouting!FitnessTypeOK
  /\ part = "weights" => SwarmRouting!SwarmWeightsTypeOK
  /\ part = "uploads" => AgentProxy!UploadsTypeOK
  /\ part = "knowledge" => DocumentsPart!KnowledgeTypeOK
  /\ part = "chunks" => DocumentsPart!TextChunksTypeOK
  /\ part = "confirm" => SystemTools!ConfirmationsTypeOK
  /\ part = "files" => SystemTools!FileEditsTypeOK
  /\ part = "stream" => AgentProxy!BedrockStreamTypeOK
  /\ part = "specialists" => OutsideParties!SpecialistsTypeOK
  /\ part = "wallets" => OutsideParties!WalletsTypeOK
  /\ part = "external" => OutsideParties!ExternalAgentsTypeOK
  /\ part = "agentContext" => AgentContext!TypeOK
  /\ part = "documentText" => DocumentsPart!DocumentTextTypeOK
  /\ part = "bountyProof" => BountyWork!BountyProofTypeOK
  /\ part = "protocolIntake" => BountyWork!ProtocolIntakeTypeOK
  /\ part = "workspace" => BountyWork!BountyWorkspaceTypeOK

\* A chat from question to usage: it brings each attachment and each image as
\* what it is, its answer follows it and is what the model sent, and the
\* provider is the one active and has a key that works.
ChatsAreWhole ==
  /\ part = "chat" =>
       /\ AgentProxy!AnswerFollowsQuestion
       /\ AgentProxy!StampedByItsOwnTurn
  /\ part = "llm" =>
       /\ LlmProviders!OneActive
       /\ LlmProviders!ActiveHasKey
       /\ LlmProviders!KeysWork
  /\ part = "uploads" =>
       /\ AgentProxy!RowsHaveFiles
       /\ AgentProxy!AttachmentsAnswered
       /\ AgentProxy!ImagesAreImages
  /\ part = "stream" =>
       /\ AgentProxy!AnswerIsWhatWasSent
       /\ AgentProxy!ExceptionsFail
       /\ AgentProxy!ToolsAreWhole

\* Experiments, scores and weights of agents: nothing reverted survives,
\* nothing accepted is lost, each score is of its own agent, nobody fitter
\* loses, and a task is refused only when nobody could take it.
SwarmsAreFair ==
  /\ part = "experiments" =>
       /\ Experiments!RevertedIsGone
       /\ Experiments!AcceptedIsKept
       /\ Experiments!LoopStartsOne
  /\ part = "swarms" =>
       SwarmRouting!RefusedOnlyWhenEmpty
  /\ part = "swarmMembers" =>
       /\ SwarmRouting!MembersWithin
       /\ SwarmRouting!LastSwitchStands
  /\ part = "fitness" =>
       /\ SwarmRouting!BreakdownIsOwn
       /\ SwarmRouting!ReportsStay
       /\ SwarmRouting!ScoresAreOwn
  /\ part = "weights" =>
       /\ SwarmRouting!FitterNeverLoses
       /\ SwarmRouting!QuartersOnly

\* Emission, fees, stakes, trust, wallets and results: what is paid is within
\* what there is, nothing appears or vanishes, and nobody is credited or
\* trusted beyond what was earned or proved.
AccountsAddUp ==
  /\ part = "tokens" =>
       /\ TokenEconomy!RewardsWithinEmission
       /\ TokenEconomy!PoolNeverOverspent
  /\ part = "fees" =>
       /\ TokenEconomy!FeesAddUp
       /\ TokenEconomy!ClaimsWithinPool
  /\ part = "decay" =>
       /\ TokenEconomy!TokensConserved
       /\ TokenEconomy!FloorHolds
  /\ part = "trust" =>
       /\ TokenEconomy!FleetNeverAhead
       /\ TokenEconomy!LevelEarned
  /\ part = "wallets" =>
       OutsideParties!InjectedWasProved
  /\ part = "external" =>
       /\ OutsideParties!OneResultCounts
       /\ OutsideParties!RunsWithinTrust

\* What was confirmed runs once and what was refused never, an applied edit
\* stays, a specialty is provisioned twice only by a race, and work on a bounty
\* is verified and told as it went.
OrdersAreFollowed ==
  /\ part = "confirm" =>
       /\ SystemTools!ConfirmedOnce
       /\ SystemTools!RefusedNeverRuns
  /\ part = "files" =>
       SystemTools!AppliedIsKept
  /\ part = "specialists" =>
       OutsideParties!SecondNeedsARace
  /\ part = "bountyProof" =>
       /\ BountyWork!SectionsAreApart
       /\ BountyWork!UrlIsTold
       /\ BountyWork!PartialIsExhausted
       /\ BountyWork!LocalWorkIsCheap
  /\ part = "protocolIntake" =>
       BountyWork!FiledOnceUnlessLost
  /\ part = "workspace" =>
       /\ BountyWork!TestsOverlapByTimeouts
       /\ BountyWork!VerdictsHaveCommands

\* What is read out of documents and files is what they say and in their order,
\* and what is stored of it can be found as a whole or not at all.
TextsAreRead ==
  /\ part = "knowledge" =>
       /\ DocumentsPart!EmbeddedTogether
       /\ DocumentsPart!BackgroundIsEmbedded
       /\ DocumentsPart!PlainNeedsFallback
  /\ part = "chunks" =>
       /\ DocumentsPart!NothingIsLost
       /\ DocumentsPart!ChunksAreSmall
  /\ part = "agentContext" =>
       AgentContext!ContextAgrees
  /\ part = "documentText" =>
       /\ DocumentsPart!ScriptsAreNotText
       /\ DocumentsPart!WordsAreText
       /\ DocumentsPart!ParagraphsAreText
       /\ DocumentsPart!PagesInOrder

\* No step starts what was confirmed too late, takes from a stake at its floor,
\* hands a connected wallet over, hears the second number of a key, takes back
\* what was told of a report, or deactivates the harness of another specialty.
StepsOfPolicy ==
  /\ TokenEconomy!AtFloorStays
  /\ SystemTools!LateStartsNothing
  /\ OutsideParties!OnlyTheAskedGoes
  /\ OutsideParties!HandedOverByDisconnection
  /\ AgentContext!FirstLineCounts
  /\ BountyWork!ReportsGoForward

==============================================================================
