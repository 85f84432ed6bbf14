SPECIFICATION Spec
CONSTANTS
    ann = ann
    ben = ben
    Page = {ann, ben}
    Polite = ann
    MaxEvents = 6
    MoveCost = 4
    MaxCandidates = 1
INVARIANTS
    QuietIsAgreed
    AnswersAnswer
    NoCandidateIsStuck
