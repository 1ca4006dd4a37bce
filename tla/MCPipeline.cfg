SPECIFICATION FairSpec
CONSTANTS
    FUSION_WEIGHT_RAG = 50
    FUSION_WEIGHT_SELFCHECK_CHARGE = 65
    FUSION_WEIGHT_SELFCHECK_DECHARGE = 35
    FUSION_DIVERGENCE_NEUTRE = 50
    FUSION_BANDE_RAG_MIN = 40
    FUSION_BANDE_RAG_MAX = 60
    FUSION_SELFCHECK_SEUIL_HAUT = 80
    FUSION_SELFCHECK_SEUIL_BAS = 20
    FUSION_DECOTE_SIGNAL_SEUL = 60
    FUSION_SEUIL_FAUX = 40
    FUSION_SEUIL_VRAI = 60
    DEAD_ZONE = 10
    HALF = 100
    t1 = t1
    t2 = t2
    Texts <- MCTexts
    Blank = Blank
    NotText = NotText
    MaxElements = 2
    Replies <- MCReplies
    Divergences <- MCDivergences
    Builds <- MCBuilds
    Searches <- MCSearches
INVARIANTS
    TypeOK
    PanneIsTotal
    VerdictIsOwn
    JudgeIsHeard
    ProofIsCited
    ConfidenceIsComparable
    CategoricalNeverReversed
    NoBranchLeftBehind
PROPERTY
    Terminates
