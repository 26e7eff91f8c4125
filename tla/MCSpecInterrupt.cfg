SPECIFICATION GeneratorsSpec
CONSTANTS
    a = a
    b = b
    eos = eos
    NoToken = NoToken
    Tokens <- MCTokens
    Eos <- MCEos
    MaxTokens = 3
    K = 2
    Ahead = 2
    Prompts <- MCPrompts
    Ngram = 1
    NDraft = 2
INVARIANTS InterruptRestores
